----------------------------- MODULE PipeWriter -----------------------------
(***************************************************************************)
(* The writing end of a client's pipe.  The threads that send (the main    *)
(* thread at the end of a tick, the sandbox server's thread for the start  *)
(* message) and the io thread that runs the completion handlers share a    *)
(* queue, behind message_lock_, and an atomic flag, which says that        *)
(* somebody looks after the queue.                                         *)
(*                                                                         *)
(*   queued_shared_  the messages that wait; a message is its number in    *)
(*                   the order in which the lock let the senders in.       *)
(*   is_writing_     the flag.                                             *)
(*   message_lock_   the thread that holds the lock, or Free.              *)
(*   sender          where each sending thread is in send_message.         *)
(*   handler         where the io thread is in the completion handler.     *)
(*   writes          the writes that asio has been given and not finished. *)
(*   written         what has reached the pipe.                            *)
(*   sent            the number of messages sent.                          *)
(*   broken          the client has closed its end: writes fail.           *)
(***************************************************************************)
EXTENDS Integers, Sequences

CONSTANTS
    Senders,                \* the threads that call send_message
    IoThread,               \* the thread of the AsyncPipeRunner
    Free,                   \* nobody
    MAX_OUTGOING_MQ_SIZE,   \* how many messages may wait
    MaxSent                 \* bound on the number of messages

ASSUME ThreadsAssumption == {IoThread, Free} \cap Senders = {} /\ IoThread # Free
ASSUME SizeAssumption    == MAX_OUTGOING_MQ_SIZE \in Nat \ {0}
ASSUME SentAssumption    == MaxSent \in Nat

VARIABLES queued_shared_, is_writing_, message_lock_, sender, handler,
          writes, written, sent, broken

pipeVars == <<queued_shared_, is_writing_, message_lock_, sender, handler,
              writes, written, sent, broken>>

PipeInit ==
    /\ queued_shared_ = <<>>
    /\ is_writing_ = FALSE
    /\ message_lock_ = Free
    /\ sender = [t \in Senders |-> "idle"]
    /\ handler = "idle"
    /\ writes = {}
    /\ written = <<>>
    /\ sent = 0
    /\ broken = FALSE

-----------------------------------------------------------------------------
(***************************************************************************)
(* send_message.                                                           *)
(***************************************************************************)
\* Mutant of Enqueue: a full queue drops the new message.
EnqueueUnlessFull(m) ==
    IF Len(queued_shared_) >= MAX_OUTGOING_MQ_SIZE
    THEN UNCHANGED queued_shared_
    ELSE queued_shared_' = Append(queued_shared_, m)

\* push_back, and pop_front of a queue that has become too long
Enqueue(m) ==
    LET longer == Append(queued_shared_, m)
    IN queued_shared_' =
        IF Len(longer) > MAX_OUTGOING_MQ_SIZE THEN Tail(longer) ELSE longer

\* A thread takes the lock and adds a message to the queue.
Push(t) ==
    /\ sender[t] = "idle"
    /\ sent < MaxSent
    /\ message_lock_ = Free
    /\ message_lock_' = t
    /\ sent' = sent + 1
    /\ Enqueue(sent + 1)
    /\ sender' = [sender EXCEPT ![t] = "pushed"]
    /\ UNCHANGED <<is_writing_, handler, writes, written, broken>>

\* Mutant of TestAndSet: the flag is not looked at.
SetFlag(t) ==
    /\ sender[t] = "pushed"
    /\ is_writing_' = TRUE
    /\ sender' = [sender EXCEPT ![t] = "claimed"]
    /\ UNCHANGED <<queued_shared_, message_lock_, handler, writes, written,
                   sent, broken>>

\* The flag is set already: the message is left to whoever has set it.
TestAndSet(t) ==
    /\ sender[t] = "pushed"
    /\ is_writing_' = TRUE
    /\ IF is_writing_
       THEN /\ sender' = [sender EXCEPT ![t] = "idle"]
            /\ message_lock_' = Free
       ELSE /\ sender' = [sender EXCEPT ![t] = "claimed"]
            /\ UNCHANGED message_lock_
    /\ UNCHANGED <<queued_shared_, handler, writes, written, sent,
                   broken>>

\* Mutant of WriteFront: the newest message is written.
WriteBack ==
    /\ writes' = writes \cup {queued_shared_[Len(queued_shared_)]}
    /\ queued_shared_' = SubSeq(queued_shared_, 1, Len(queued_shared_) - 1)

\* async_write_pipe of the oldest message.
WriteFront ==
    /\ writes' = writes \cup {Head(queued_shared_)}
    /\ queued_shared_' = Tail(queued_shared_)

\* The thread that has set the flag starts a write.
StartWrite(t) ==
    /\ sender[t] = "claimed"
    /\ WriteFront
    /\ sender' = [sender EXCEPT ![t] = "idle"]
    /\ message_lock_' = Free
    /\ UNCHANGED <<is_writing_, handler, written, sent, broken>>

-----------------------------------------------------------------------------
(***************************************************************************)
(* The io thread: a write ends and its completion handler runs.            *)
(***************************************************************************)
WriteSucceeds ==
    /\ handler = "idle"
    /\ ~broken
    /\ \E m \in writes :
        /\ writes' = writes \ {m}
        /\ written' = Append(written, m)
    /\ handler' = "completed"
    /\ UNCHANGED <<queued_shared_, is_writing_, message_lock_, sender,
                   sent, broken>>

WriteFails ==
    /\ handler = "idle"
    /\ broken
    /\ \E m \in writes : writes' = writes \ {m}
    /\ handler' = "failed"
    /\ UNCHANGED <<queued_shared_, is_writing_, message_lock_, sender, written,
                   sent, broken>>

\* Mutant of Lock: the handler runs without the lock.
DoNotLock ==
    /\ handler = "completed"
    /\ handler' = "locked"
    /\ UNCHANGED <<queued_shared_, is_writing_, message_lock_, sender, writes,
                   written, sent, broken>>

Lock ==
    /\ handler = "completed"
    /\ message_lock_ = Free
    /\ message_lock_' = IoThread
    /\ handler' = "locked"
    /\ UNCHANGED <<queued_shared_, is_writing_, sender, writes, written,
                   sent, broken>>

Unlock == message_lock_' = IF message_lock_ = IoThread THEN Free ELSE message_lock_

\* The handler writes the next message ...
WriteNext ==
    /\ handler = "locked"
    /\ queued_shared_ # <<>>
    /\ WriteFront
    /\ handler' = "idle"
    /\ Unlock
    /\ UNCHANGED <<is_writing_, sender, written, sent, broken>>

\* ... or finds that the queue is empty ...
FindEmpty ==
    /\ handler = "locked"
    /\ queued_shared_ = <<>>
    /\ handler' = "empty"
    /\ UNCHANGED <<queued_shared_, is_writing_, message_lock_, sender, writes,
                   written, sent, broken>>

\* Mutant of Clear: the flag stays set.
KeepFlag ==
    /\ handler = "empty"
    /\ handler' = "idle"
    /\ Unlock
    /\ UNCHANGED <<queued_shared_, is_writing_, sender, writes, written, sent,
                   broken>>

\* ... and clears the flag before it releases the lock.
Clear ==
    /\ handler = "empty"
    /\ is_writing_' = FALSE
    /\ handler' = "idle"
    /\ Unlock
    /\ UNCHANGED <<queued_shared_, sender, writes, written, sent,
                   broken>>

\* After an error the flag is cleared without the lock; the queue stays as it
\* is until the next send_message.
ClearFailed ==
    /\ handler = "failed"
    /\ is_writing_' = FALSE
    /\ handler' = "idle"
    /\ UNCHANGED <<queued_shared_, message_lock_, sender, writes, written,
                   sent, broken>>

\* The client exits, or closes its standard input.
Break ==
    /\ ~broken
    /\ broken' = TRUE
    /\ UNCHANGED <<queued_shared_, is_writing_, message_lock_, sender, handler,
                   writes, written, sent>>

SendStep(t) == TestAndSet(t) \/ StartWrite(t)

IoStep ==
    WriteSucceeds \/ WriteFails \/ Lock \/ WriteNext \/ FindEmpty \/ Clear
        \/ ClearFailed

\* Nothing is left to do and nothing more is sent.
Quiet ==
    /\ sent = MaxSent
    /\ broken
    /\ writes = {}
    /\ handler = "idle"
    /\ \A t \in Senders : sender[t] = "idle"
    /\ UNCHANGED pipeVars

PipeNext ==
    \/ \E t \in Senders : Push(t) \/ SendStep(t)
    \/ IoStep
    \/ Break
    \/ Quiet

PipeSpec == PipeInit /\ [][PipeNext]_pipeVars

\* Threads go on, and a client whose end is open reads what it is sent.
FairPipeSpec ==
    /\ PipeSpec
    /\ \A t \in Senders : WF_pipeVars(SendStep(t))
    /\ WF_pipeVars(IoStep)

-----------------------------------------------------------------------------
(***************************************************************************)
(* Properties.                                                             *)
(***************************************************************************)
\* Every variable keeps its type, and the queue its limit.
PipeTypeOK ==
    /\ queued_shared_ \in Seq(Nat)
    /\ Len(queued_shared_) <= MAX_OUTGOING_MQ_SIZE
    /\ is_writing_ \in BOOLEAN
    /\ message_lock_ \in Senders \cup {IoThread, Free}
    /\ sender \in [Senders -> {"idle", "pushed", "claimed"}]
    /\ handler \in {"idle", "completed", "failed", "locked", "empty"}
    /\ writes \subseteq Nat
    /\ written \in Seq(Nat)
    /\ sent \in Nat
    /\ broken \in BOOLEAN

\* asio forbids a second async_write before the first has ended: their bytes
\* would mix.  The flag keeps the senders and the handler from starting two.
OneWriteAtATime ==
    \A m, n \in writes : m = n

\* The client reads messages in the order they were sent, with gaps where the
\* queue was full.
WrittenInOrder ==
    /\ \A i, j \in DOMAIN written : i < j => written[i] < written[j]
    /\ \A i \in DOMAIN written :
        /\ \A m \in writes : written[i] < m
        /\ \A j \in DOMAIN queued_shared_ : written[i] < queued_shared_[j]

\* While the client reads, a message is on its way or has arrived, unless as
\* many as the queue holds were sent after it.
OnlyOldDropped ==
    ~broken => \A m \in 1 .. sent :
        \/ \E i \in DOMAIN written : written[i] = m
        \/ m \in writes
        \/ \E i \in DOMAIN queued_shared_ : queued_shared_[i] = m
        \/ sent >= m + MAX_OUTGOING_MQ_SIZE

\* No lost wakeup: while messages wait and the client reads, some thread is
\* bound to look at the queue again.
QueueLookedAfter ==
    queued_shared_ # <<>> /\ ~broken =>
        \/ writes # {}
        \/ handler \in {"completed", "locked"}
        \/ \E t \in Senders :
            \/ sender[t] = "claimed"
            \/ sender[t] = "pushed" /\ ~is_writing_

\* The last message sent, a tick's news, reaches a client that keeps reading,
\* even if nothing is sent after it.
LastMessageWritten ==
    \A m \in 1 .. MaxSent :
        sent = m ~> broken \/ sent > m \/ \E i \in DOMAIN written : written[i] = m
=============================================================================
