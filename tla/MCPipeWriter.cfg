CONSTANTS
    main = main
    server = server
    Senders <- MCSenders
    IoThread = io
    Free = free
    MAX_OUTGOING_MQ_SIZE = 2
    MaxSent = 6
SPECIFICATION FairPipeSpec
INVARIANTS OneWriteAtATime WrittenInOrder OnlyOldDropped QueueLookedAfter
PROPERTIES LastMessageWritten
