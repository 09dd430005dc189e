-------------------------- MODULE PipeWriterProofs --------------------------
(***************************************************************************)
(* A client gets what it is sent in order and loses only what the full     *)
(* queue drops, for any number of sending threads and any queue size.      *)
(*                                                                         *)
(* The invariant has three parts besides the types.  LockInv says what     *)
(* holding the lock means; FlagInv that is_writing_ is set exactly while   *)
(* one thread looks after the queue, so that a second write never starts;  *)
(* QueueInv that the queue holds the last messages sent, without a gap,    *)
(* from which the order and the losses follow with no induction over the   *)
(* length of the queue.                                                    *)
(***************************************************************************)
EXTENDS PipeWriter, TLAPS

LockInv ==
    /\ \A t \in Senders : sender[t] # "idle" <=> message_lock_ = t
    /\ handler \in {"locked", "empty"} <=> message_lock_ = IoThread

\* A thread has set the flag and not yet started the write.
Claimed == \E t \in Senders : sender[t] = "claimed"

FlagInv ==
    /\ is_writing_ <=> writes # {} \/ handler # "idle" \/ Claimed
    /\ writes # {} => handler = "idle" /\ ~Claimed
    /\ handler # "idle" => ~Claimed
    /\ OneWriteAtATime
    /\ handler = "failed" => broken

QueueInv ==
    /\ \A i \in DOMAIN queued_shared_ :
        queued_shared_[i] = sent - Len(queued_shared_) + i
    /\ Len(queued_shared_) <= sent
    /\ \A t \in Senders : sender[t] # "idle" => queued_shared_ # <<>>
    /\ handler = "empty" => queued_shared_ = <<>>
    /\ queued_shared_ # <<>> /\ ~is_writing_ /\ ~broken =>
        \E t \in Senders : sender[t] = "pushed"

\* What is on its way or has arrived is older than what waits.
OrderInv ==
    /\ \A i, j \in DOMAIN written : i < j => written[i] < written[j]
    /\ \A m \in writes : m <= sent - Len(queued_shared_)
    /\ \A i \in DOMAIN written :
        /\ written[i] <= sent - Len(queued_shared_)
        /\ \A m \in writes : written[i] < m

PipeInv ==
    PipeTypeOK /\ LockInv /\ FlagInv /\ QueueInv /\ OrderInv /\ OnlyOldDropped

-----------------------------------------------------------------------------
\* An empty pipe writer satisfies the invariant.
LEMMA PipeInitInv == PipeInit => PipeInv
<1> SUFFICES ASSUME PipeInit PROVE PipeInv
  OBVIOUS
<1> USE ThreadsAssumption, SizeAssumption DEF PipeInit
<1>1. PipeTypeOK
  <2>1. <<>> \in Seq(Nat) /\ Len(<<>>) = 0 /\ 0 <= MAX_OUTGOING_MQ_SIZE
    OBVIOUS
  <2> QED
    BY <2>1 DEF PipeTypeOK
<1>2. LockInv
  BY DEF LockInv
<1>3. FlagInv
  BY DEF FlagInv, Claimed, OneWriteAtATime
<1>4. QueueInv
  BY DEF QueueInv
<1>5. OrderInv
  BY DEF OrderInv
<1>6. OnlyOldDropped
  BY DEF OnlyOldDropped
<1> QED
  BY <1>1, <1>2, <1>3, <1>4, <1>5, <1>6 DEF PipeInv

\* A message enters the queue, and at the limit the oldest leaves it.
LEMMA PushInv ==
  ASSUME PipeInv, NEW t \in Senders, Push(t)
  PROVE  PipeInv'
<1> DEFINE q == queued_shared_
<1> USE SizeAssumption, ThreadsAssumption DEF PipeInv
<1>1. /\ q \in Seq(Nat) /\ sent \in Nat /\ Len(q) \in Nat
      /\ Len(q) <= MAX_OUTGOING_MQ_SIZE
      /\ sender \in [Senders -> {"idle", "pushed", "claimed"}]
  BY DEF PipeTypeOK
<1>2. /\ sent' = sent + 1
      /\ sender' = [sender EXCEPT ![t] = "pushed"]
      /\ message_lock_ = Free /\ message_lock_' = t
      /\ UNCHANGED <<is_writing_, handler, writes, written, broken>>
      /\ Enqueue(sent + 1)
  BY DEF Push
<1> DEFINE longer == Append(q, sent + 1)
<1>3. /\ longer \in Seq(Nat)
      /\ Len(longer) = Len(q) + 1
      /\ \A i \in 1 .. Len(q) + 1 : longer[i] = sent - Len(q) + i
  BY <1>1, SMTT(30) DEF QueueInv
<1>4. /\ q' \in Seq(Nat)
      /\ Len(q') <= MAX_OUTGOING_MQ_SIZE
      /\ Len(q') = IF Len(q) = MAX_OUTGOING_MQ_SIZE THEN Len(q) ELSE Len(q) + 1
      /\ \A i \in 1 .. Len(q') : q'[i] = sent' - Len(q') + i
      /\ q' # <<>>
  <2>1. CASE Len(longer) > MAX_OUTGOING_MQ_SIZE
    <3>1. q' = Tail(longer) /\ Len(q) = MAX_OUTGOING_MQ_SIZE
      BY <1>1, <1>2, <1>3, <2>1 DEF Enqueue
    <3>2. /\ Tail(longer) \in Seq(Nat)
          /\ Len(Tail(longer)) = Len(q)
          /\ \A i \in 1 .. Len(q) : Tail(longer)[i] = longer[i + 1]
      BY <1>1, <1>3, <2>1
    <3>3. ASSUME NEW i \in 1 .. Len(q)
          PROVE  longer[i + 1] = sent' - Len(q) + i
      <4>1. i + 1 \in 1 .. Len(q) + 1
        BY <1>1
      <4> HIDE DEF longer
      <4>2. longer[i + 1] = sent - Len(q) + (i + 1)
        BY <1>3, <4>1
      <4> QED
        BY <1>1, <1>2, <4>2
    <3> HIDE DEF longer
    <3>4. \A i \in 1 .. Len(q') : q'[i] = sent' - Len(q') + i
      BY <3>1, <3>2, <3>3
    <3> QED
      BY <1>1, <3>1, <3>2, <3>4
  <2>2. CASE Len(longer) <= MAX_OUTGOING_MQ_SIZE
    <3>1. q' = longer /\ Len(q) # MAX_OUTGOING_MQ_SIZE
      BY <1>1, <1>2, <1>3, <2>2 DEF Enqueue
    <3> QED
      BY <1>1, <1>2, <1>3, <2>2, <3>1
  <2> QED
    BY <1>1, <1>3, <2>1, <2>2
<1>5. PipeTypeOK'
  BY <1>1, <1>2, <1>4 DEF PipeTypeOK
<1>6. LockInv'
  BY <1>1, <1>2 DEF LockInv
<1>7. Claimed' <=> Claimed
  BY <1>1, <1>2 DEF Claimed, LockInv
<1>8. FlagInv'
  BY <1>2, <1>7 DEF FlagInv, OneWriteAtATime
<1>9. QueueInv'
  <2>1. handler # "empty"
    BY <1>2 DEF LockInv
  <2>2. \A i \in DOMAIN q' : q'[i] = sent' - Len(q') + i
    BY <1>4
  <2>3. Len(q') <= sent'
    BY <1>1, <1>2, <1>4 DEF QueueInv
  <2>4. sender'[t] = "pushed"
    BY <1>1, <1>2
  <2> QED
    BY <1>2, <1>4, <2>1, <2>2, <2>3, <2>4 DEF QueueInv
<1>10. OrderInv'
  <2>1. sent - Len(q) <= sent' - Len(q')
    BY <1>1, <1>2, <1>4
  <2>2. written \in Seq(Nat) /\ writes \subseteq Nat /\ Len(q') \in Nat
    BY <1>4 DEF PipeTypeOK
  <2>3. \A i \in DOMAIN written : written[i] \in Nat
    BY <2>2
  <2> HIDE DEF q
  <2>4. \A m \in writes : m <= sent' - Len(q')
    BY <1>1, <1>2, <2>1, <2>2 DEF OrderInv, q
  <2>5. \A i \in DOMAIN written : written[i] <= sent' - Len(q')
    BY <1>1, <1>2, <2>1, <2>2, <2>3 DEF OrderInv, q
  <2> QED
    BY <1>2, <2>4, <2>5 DEF OrderInv, q
<1>11. OnlyOldDropped'
  <2> SUFFICES ASSUME ~broken', NEW m \in 1 .. sent'
               PROVE  \/ \E i \in DOMAIN written' : written'[i] = m
                      \/ m \in writes'
                      \/ \E i \in DOMAIN q' : q'[i] = m
                      \/ sent' >= m + MAX_OUTGOING_MQ_SIZE
    BY DEF OnlyOldDropped
  <2>0. /\ sent' \in Nat /\ Len(q') \in Nat /\ m \in Nat /\ m <= sent'
        /\ MAX_OUTGOING_MQ_SIZE \in Nat
    BY <1>1, <1>2, <1>4
  <2>1. CASE m > sent' - Len(q')
    <3> DEFINE i == m - (sent' - Len(q'))
    <3>1. i \in 1 .. Len(q') /\ sent' - Len(q') + i = m
      BY <2>0, <2>1, SMTT(30)
    <3> HIDE DEF i
    <3>2. q'[i] = m /\ i \in DOMAIN q'
      BY <1>4, <3>1
    <3> QED
      BY <3>2
  <2>2. CASE m <= sent' - Len(q') /\ Len(q) = MAX_OUTGOING_MQ_SIZE
    <3>1. Len(q') = MAX_OUTGOING_MQ_SIZE
      BY <1>4, <2>2
    <3>2. m <= sent' - MAX_OUTGOING_MQ_SIZE
      BY <2>2, <3>1
    <3>3. \A a, b, c \in Int : a <= b - c => b >= a + c
      OBVIOUS
    <3>4. sent' \in Int /\ m \in Int /\ MAX_OUTGOING_MQ_SIZE \in Int
      BY <2>0
    <3>5. sent' >= m + MAX_OUTGOING_MQ_SIZE
      BY <3>2, <3>3, <3>4, Zenon
    <3> QED
      BY <3>5
  <2>3. CASE m <= sent' - Len(q') /\ Len(q) # MAX_OUTGOING_MQ_SIZE
    <3>1. m \in 1 .. sent /\ m <= sent - Len(q)
      BY <1>1, <1>2, <1>4, <2>3
    <3>2. \A i \in DOMAIN q : q[i] = sent - Len(q) + i
      BY DEF QueueInv
    <3>3. \A i \in DOMAIN q : q[i] # m
      BY <1>1, <3>1, <3>2
    <3> QED
      BY <1>1, <1>2, <3>1, <3>3 DEF OnlyOldDropped
  <2> QED
    BY <2>0, <2>1, <2>2, <2>3
<1> QED
  BY <1>5, <1>6, <1>8, <1>9, <1>10, <1>11

-----------------------------------------------------------------------------
\* What a write takes from the queue is older than what it leaves.
LEMMA FrontTaken ==
  ASSUME PipeTypeOK, QueueInv, OrderInv, OnlyOldDropped, WriteFront, writes = {},
         queued_shared_ # <<>>, UNCHANGED <<written, sent, broken>>
  PROVE  /\ queued_shared_' \in Seq(Nat)
         /\ Len(queued_shared_') = Len(queued_shared_) - 1
         /\ \A i \in DOMAIN queued_shared_' :
                queued_shared_'[i] = sent - Len(queued_shared_') + i
         /\ \E m \in Nat : writes' = {m}
         /\ OrderInv'
         /\ OnlyOldDropped'
<1> DEFINE q == queued_shared_
           front == sent - Len(q) + 1
<1>1. /\ q \in Seq(Nat) /\ Len(q) \in Nat /\ Len(q) >= 1 /\ sent \in Nat
      /\ written \in Seq(Nat)
  BY DEF PipeTypeOK
<1>2. \A i \in 1 .. Len(q) : q[i] = sent - Len(q) + i
  BY <1>1 DEF QueueInv
<1>3. Head(q) = front /\ front \in Nat
  <2>1. Head(q) = q[1] /\ 1 \in 1 .. Len(q) /\ q[1] \in Nat
    BY <1>1
  <2> HIDE DEF q
  <2>2. q[1] = sent - Len(q) + 1
    BY <1>2, <2>1
  <2> QED
    BY <2>1, <2>2
<1>4. /\ q' = Tail(q) /\ q' \in Seq(Nat) /\ Len(q') = Len(q) - 1
      /\ \A i \in 1 .. Len(q') : q'[i] = q[i + 1]
  BY <1>1 DEF WriteFront
<1>5. writes' = {front}
  BY <1>3 DEF WriteFront
<1>6. ASSUME NEW i \in 1 .. Len(q') PROVE q'[i] = sent - Len(q') + i
  <2>1. i + 1 \in 1 .. Len(q)
    BY <1>1, <1>4
  <2> HIDE DEF q
  <2>2. q'[i] = sent - Len(q) + (i + 1)
    BY <1>2, <1>4, <2>1
  <2> QED
    BY <1>1, <1>4, <2>2
<1>7. DOMAIN q' = 1 .. Len(q')
  BY <1>4
<1>8. sent - Len(q') = front
  BY <1>1, <1>4
<1>9. OrderInv'
  <2>1. \A i \in DOMAIN written : written[i] \in Nat /\ written[i] <= sent - Len(q)
    BY <1>1 DEF OrderInv
  <2>2. \A i \in DOMAIN written : written[i] < front
    BY <1>1, <2>1
  <2> HIDE DEF front, q
  <2>3. \A i, j \in DOMAIN written : i < j => written[i] < written[j]
    BY DEF OrderInv
  <2>4. \A i \in DOMAIN written : written[i] <= front
    BY <1>3, <2>1, <2>2
  <2>5. front <= front
    BY <1>3
  <2> QED
    BY <1>5, <1>8, <2>2, <2>3, <2>4, <2>5 DEF OrderInv, q
<1>10. OnlyOldDropped'
  <2> SUFFICES ASSUME ~broken', NEW m \in 1 .. sent,
                      \A i \in DOMAIN written : written[i] # m,
                      sent < m + MAX_OUTGOING_MQ_SIZE
               PROVE  m \in writes' \/ \E i \in DOMAIN q' : q'[i] = m
    BY <1>1, SizeAssumption DEF OnlyOldDropped
  <2>1. PICK i \in DOMAIN q : q[i] = m
    BY <1>1, SizeAssumption DEF OnlyOldDropped
  <2>2. i \in 1 .. Len(q)
    BY <1>1, <2>1
  <2>3. CASE i = 1
    BY <1>2, <1>5, <2>1, <2>2, <2>3
  <2>4. CASE i # 1
    <3>1. i - 1 \in 1 .. Len(q')
      BY <1>1, <1>4, <2>2, <2>4
    <3>2. q'[i - 1] = q[(i - 1) + 1] /\ (i - 1) + 1 = i
      BY <1>4, <2>2, <3>1
    <3> QED
      BY <1>7, <2>1, <3>1, <3>2
  <2> QED
    BY <2>3, <2>4
<1> QED
  BY <1>3, <1>4, <1>5, <1>6, <1>7, <1>9, <1>10

\* A thread that finds the flag set leaves its message to the one who set it.
LEMMA TestAndSetInv ==
  ASSUME PipeInv, NEW t \in Senders, TestAndSet(t)
  PROVE  PipeInv'
<1> USE ThreadsAssumption DEF PipeInv
<1>1. /\ sender \in [Senders -> {"idle", "pushed", "claimed"}]
      /\ sender[t] = "pushed" /\ message_lock_ = t /\ is_writing_'
      /\ UNCHANGED <<queued_shared_, handler, writes, written, sent, broken>>
  BY DEF TestAndSet, PipeTypeOK, LockInv
<1>2. /\ is_writing_ => /\ sender' = [sender EXCEPT ![t] = "idle"]
                        /\ message_lock_' = Free
      /\ ~is_writing_ => /\ sender' = [sender EXCEPT ![t] = "claimed"]
                         /\ message_lock_' = message_lock_
  BY DEF TestAndSet
<1>3. PipeTypeOK'
  BY <1>1, <1>2 DEF PipeTypeOK
<1>4. LockInv'
  BY <1>1, <1>2 DEF LockInv
<1>5. FlagInv'
  <2>1. CASE is_writing_
    <3>1. Claimed' <=> Claimed
      BY <1>1, <1>2, <2>1 DEF Claimed
    <3> QED
      BY <1>1, <2>1, <3>1 DEF FlagInv, OneWriteAtATime
  <2>2. CASE ~is_writing_
    <3>1. Claimed'
      BY <1>1, <1>2, <2>2 DEF Claimed
    <3> QED
      BY <1>1, <2>2, <3>1 DEF FlagInv, OneWriteAtATime
  <2> QED
    BY <2>1, <2>2
<1>6. QueueInv'
  BY <1>1, <1>2 DEF QueueInv
<1>7. OrderInv' /\ OnlyOldDropped'
  BY <1>1 DEF OrderInv, OnlyOldDropped
<1> QED
  BY <1>3, <1>4, <1>5, <1>6, <1>7

\* The thread that has set the flag starts the only write.
LEMMA StartWriteInv ==
  ASSUME PipeInv, NEW t \in Senders, StartWrite(t)
  PROVE  PipeInv'
<1> USE ThreadsAssumption DEF PipeInv
<1>1. /\ sender \in [Senders -> {"idle", "pushed", "claimed"}]
      /\ sender[t] = "claimed" /\ message_lock_ = t /\ message_lock_' = Free
      /\ sender' = [sender EXCEPT ![t] = "idle"]
      /\ UNCHANGED <<is_writing_, handler, written, sent, broken>>
      /\ WriteFront
  BY DEF StartWrite, PipeTypeOK, LockInv
<1>2. Claimed /\ writes = {} /\ handler = "idle" /\ is_writing_
  BY <1>1 DEF Claimed, FlagInv
<1>3. queued_shared_ # <<>>
  BY <1>1 DEF QueueInv
<1>4. /\ queued_shared_' \in Seq(Nat)
      /\ Len(queued_shared_') = Len(queued_shared_) - 1
      /\ \A i \in DOMAIN queued_shared_' :
            queued_shared_'[i] = sent - Len(queued_shared_') + i
      /\ \E m \in Nat : writes' = {m}
      /\ OrderInv'
      /\ OnlyOldDropped'
  BY <1>1, <1>2, <1>3, FrontTaken
<1>5. \A u \in Senders : sender[u] # "idle" => u = t
  BY <1>1 DEF LockInv
<1>6. ~Claimed'
  BY <1>1, <1>5 DEF Claimed
<1>7. Len(queued_shared_) \in Nat /\ sent \in Nat
  BY DEF PipeTypeOK
<1>8. PipeTypeOK'
  BY <1>1, <1>4, <1>7, SizeAssumption DEF PipeTypeOK
<1>9. LockInv'
  BY <1>1, <1>5 DEF LockInv
<1>10. FlagInv'
  BY <1>1, <1>2, <1>4, <1>6 DEF FlagInv, OneWriteAtATime
<1>11. QueueInv'
  <2>1. Len(queued_shared_') <= sent
    BY <1>4, <1>7 DEF QueueInv
  <2>2. \A u \in Senders : sender'[u] = "idle"
    BY <1>1, <1>5
  <2> QED
    BY <1>1, <1>2, <1>4, <2>1, <2>2 DEF QueueInv
<1> QED
  BY <1>4, <1>8, <1>9, <1>10, <1>11

-----------------------------------------------------------------------------
\* A write ends, well or not; nobody else starts one before the handler runs.
LEMMA WriteEndsInv ==
  ASSUME PipeInv, WriteSucceeds \/ WriteFails
  PROVE  PipeInv'
<1> USE ThreadsAssumption DEF PipeInv
<1>1. PICK m \in writes :
        /\ writes' = writes \ {m}
        /\ \/ written' = Append(written, m) /\ handler' = "completed" /\ ~broken
           \/ written' = written /\ handler' = "failed" /\ broken
  BY DEF WriteSucceeds, WriteFails
<1>2. /\ handler = "idle"
      /\ UNCHANGED <<queued_shared_, is_writing_, message_lock_, sender, sent, broken>>
  BY DEF WriteSucceeds, WriteFails
<1>3. m \in Nat /\ written \in Seq(Nat)
  BY DEF PipeTypeOK
<1>4. writes' = {} /\ is_writing_ /\ ~Claimed
  BY <1>1 DEF FlagInv, OneWriteAtATime
<1>5. PipeTypeOK'
  <2>1. written' \in Seq(Nat) /\ handler' \in {"completed", "failed"}
    BY <1>1, <1>3
  <2> QED
    BY <1>2, <1>4, <2>1 DEF PipeTypeOK
<1>6. LockInv'
  BY <1>1, <1>2 DEF LockInv
<1>7. Claimed' <=> Claimed
  BY <1>2 DEF Claimed
<1>8. FlagInv'
  BY <1>1, <1>2, <1>4, <1>7 DEF FlagInv, OneWriteAtATime
<1>9. QueueInv'
  BY <1>1, <1>2 DEF QueueInv
<1>10. OrderInv' /\ OnlyOldDropped'
  <2>1. CASE written' = written /\ broken
    BY <1>1, <1>2, <1>4, <2>1 DEF OrderInv, OnlyOldDropped
  <2>2. CASE written' = Append(written, m)
    <3>1. /\ Len(written) \in Nat
          /\ DOMAIN written = 1 .. Len(written)
          /\ DOMAIN written' = 1 .. Len(written) + 1
          /\ \A i \in 1 .. Len(written) : written'[i] = written[i]
          /\ written'[Len(written) + 1] = m
      BY <1>3, <2>2
    <3>2. \A i \in DOMAIN written' :
            i \in DOMAIN written \/ i = Len(written) + 1
      BY <3>1
    <3>3. m <= sent - Len(queued_shared_)
      BY DEF OrderInv
    <3>4. \A i \in DOMAIN written : written[i] < m
      BY DEF OrderInv
    <3>5. \A i, j \in DOMAIN written' : i < j => i \in DOMAIN written
      BY <3>1
    <3>6. \A i, j \in DOMAIN written' : i < j => written'[i] < written'[j]
      BY <3>1, <3>2, <3>4, <3>5 DEF OrderInv
    <3>7. \A i \in DOMAIN written' : written'[i] <= sent - Len(queued_shared_)
      BY <3>1, <3>2, <3>3 DEF OrderInv
    <3>8. OrderInv'
      BY <1>2, <1>4, <3>6, <3>7 DEF OrderInv
    <3>9. ASSUME NEW k \in 1 .. sent,
                 \/ \E i \in DOMAIN written : written[i] = k
                 \/ k \in writes
          PROVE  \E i \in DOMAIN written' : written'[i] = k
      <4>1. CASE k \in writes
        <5>1. k = m
          BY <4>1, <1>1 DEF FlagInv, OneWriteAtATime
        <5>2. Len(written) + 1 \in DOMAIN written'
          BY <3>1
        <5> QED
          BY <3>1, <5>1, <5>2
      <4>2. CASE \E i \in DOMAIN written : written[i] = k
        BY <3>1, <4>2
      <4> QED
        BY <3>9, <4>1, <4>2
    <3>10. OnlyOldDropped'
      BY <1>2, <3>9 DEF OnlyOldDropped
    <3> QED
      BY <3>8, <3>10
  <2> QED
    BY <1>1, <2>1, <2>2
<1> QED
  BY <1>5, <1>6, <1>8, <1>9, <1>10

\* The handler takes the lock, looks at the queue and clears the flag.
LEMMA HandlerInv ==
  ASSUME PipeInv, Lock \/ FindEmpty \/ Clear \/ ClearFailed
  PROVE  PipeInv'
<1> USE ThreadsAssumption DEF PipeInv
<1>1. UNCHANGED <<queued_shared_, sender, writes, written, sent, broken>>
  BY DEF Lock, FindEmpty, Clear, ClearFailed
<1>2. PipeTypeOK'
  BY <1>1 DEF PipeTypeOK, Lock, FindEmpty, Clear, ClearFailed, Unlock
<1>3. LockInv'
  BY <1>1 DEF LockInv, Lock, FindEmpty, Clear, ClearFailed, Unlock, PipeTypeOK
<1>4. Claimed' <=> Claimed
  BY <1>1 DEF Claimed
<1>5. FlagInv'
  BY <1>1, <1>4 DEF FlagInv, OneWriteAtATime, Lock, FindEmpty, Clear, ClearFailed,
                    PipeTypeOK
<1>6. QueueInv'
  <2>1. CASE Clear
    BY <1>1, <2>1 DEF QueueInv, Clear
  <2>2. CASE ClearFailed
    BY <1>1, <2>2 DEF QueueInv, FlagInv, ClearFailed
  <2>3. CASE Lock \/ FindEmpty
    BY <1>1, <2>3 DEF QueueInv, Lock, FindEmpty
  <2> QED
    BY <2>1, <2>2, <2>3
<1>7. OrderInv' /\ OnlyOldDropped'
  BY <1>1 DEF OrderInv, OnlyOldDropped
<1> QED
  BY <1>2, <1>3, <1>5, <1>6, <1>7

\* The handler starts the next write in place of the one that has ended.
LEMMA WriteNextInv ==
  ASSUME PipeInv, WriteNext
  PROVE  PipeInv'
<1> USE ThreadsAssumption DEF PipeInv
<1>1. /\ handler = "locked" /\ handler' = "idle"
      /\ queued_shared_ # <<>>
      /\ WriteFront
      /\ message_lock_ = IoThread /\ message_lock_' = Free
      /\ UNCHANGED <<is_writing_, sender, written, sent, broken>>
  BY DEF WriteNext, Unlock, LockInv
<1>2. ~Claimed /\ writes = {} /\ is_writing_
  BY <1>1 DEF FlagInv
<1>3. /\ queued_shared_' \in Seq(Nat)
      /\ Len(queued_shared_') = Len(queued_shared_) - 1
      /\ \A i \in DOMAIN queued_shared_' :
            queued_shared_'[i] = sent - Len(queued_shared_') + i
      /\ \E m \in Nat : writes' = {m}
      /\ OrderInv'
      /\ OnlyOldDropped'
  BY <1>1, <1>2, FrontTaken
<1>4. Len(queued_shared_) \in Nat /\ sent \in Nat
  BY DEF PipeTypeOK
<1>5. Claimed' <=> Claimed
  BY <1>1 DEF Claimed
<1>6. PipeTypeOK'
  BY <1>1, <1>3, <1>4, SizeAssumption DEF PipeTypeOK
<1>7. LockInv'
  BY <1>1 DEF LockInv
<1>8. FlagInv'
  BY <1>1, <1>2, <1>3, <1>5 DEF FlagInv, OneWriteAtATime
<1>9. QueueInv'
  <2>1. Len(queued_shared_') <= sent
    BY <1>3, <1>4 DEF QueueInv
  <2>2. \A t \in Senders : sender'[t] = "idle"
    BY <1>1 DEF LockInv
  <2> QED
    BY <1>1, <1>2, <1>3, <2>1, <2>2 DEF QueueInv
<1> QED
  BY <1>3, <1>6, <1>7, <1>8, <1>9

\* Every step keeps the invariant.
LEMMA PipeNextInv == PipeInv /\ [PipeNext]_pipeVars => PipeInv'
<1> SUFFICES ASSUME PipeInv, [PipeNext]_pipeVars PROVE PipeInv'
  OBVIOUS
<1>1. ASSUME NEW t \in Senders, Push(t) \/ SendStep(t) PROVE PipeInv'
  BY <1>1, PushInv, TestAndSetInv, StartWriteInv DEF SendStep
<1>2. CASE IoStep
  BY <1>2, WriteEndsInv, HandlerInv, WriteNextInv DEF IoStep
<1>3. CASE Break
  BY <1>3 DEF Break, PipeInv, PipeTypeOK, LockInv, FlagInv, Claimed,
              OneWriteAtATime, QueueInv, OrderInv, OnlyOldDropped
<1>4. CASE Quiet \/ UNCHANGED pipeVars
  <2>1. UNCHANGED <<queued_shared_, is_writing_, message_lock_, sender, handler,
                    writes, written, sent, broken>>
    BY <1>4 DEF Quiet, pipeVars
  <2>2. PipeTypeOK' /\ LockInv'
    BY <2>1 DEF PipeInv, PipeTypeOK, LockInv
  <2>3. FlagInv'
    BY <2>1 DEF PipeInv, FlagInv, Claimed, OneWriteAtATime
  <2>4. QueueInv' /\ OrderInv' /\ OnlyOldDropped'
    BY <2>1 DEF PipeInv, QueueInv, OrderInv, OnlyOldDropped
  <2> QED
    BY <2>2, <2>3, <2>4 DEF PipeInv
<1> QED
  BY <1>1, <1>2, <1>3, <1>4 DEF PipeNext

\* The invariant implies what the runs check.
LEMMA PipeInvImplies ==
  ASSUME PipeInv
  PROVE  PipeTypeOK /\ OneWriteAtATime /\ WrittenInOrder /\ OnlyOldDropped
            /\ QueueLookedAfter
<1>1. WrittenInOrder
  <2>1. ASSUME NEW i \in DOMAIN written, NEW j \in DOMAIN queued_shared_
        PROVE  written[i] < queued_shared_[j]
    <3>1. /\ written[i] \in Nat /\ sent \in Nat /\ Len(queued_shared_) \in Nat
          /\ j \in Nat /\ j >= 1
      BY DEF PipeInv, PipeTypeOK
    <3>2. /\ written[i] <= sent - Len(queued_shared_)
          /\ queued_shared_[j] = sent - Len(queued_shared_) + j
      BY DEF PipeInv, OrderInv, QueueInv
    <3> QED
      BY <3>1, <3>2
  <2> QED
    BY <2>1 DEF WrittenInOrder, PipeInv, OrderInv
<1>2. QueueLookedAfter
  <2> SUFFICES ASSUME queued_shared_ # <<>>, ~broken, writes = {},
                      handler \notin {"completed", "locked"}, ~Claimed
               PROVE  \E t \in Senders : sender[t] = "pushed" /\ ~is_writing_
    BY DEF QueueLookedAfter, Claimed
  <2>1. handler = "idle"
    BY DEF PipeInv, PipeTypeOK, QueueInv, FlagInv
  <2>2. ~is_writing_
    BY <2>1 DEF PipeInv, FlagInv
  <2> QED
    BY <2>2 DEF PipeInv, QueueInv
<1> QED
  BY <1>1, <1>2 DEF PipeInv, FlagInv

\* Types, and the limit of the queue (pipe_writer.cpp:23).
THEOREM PipeTypeCorrect == PipeSpec => []PipeTypeOK
BY PipeInitInv, PipeNextInv, PipeInvImplies, PTL DEF PipeSpec

\* Two writes never overlap (pipe_writer.cpp:28).
THEOREM SingleWrite == PipeSpec => []OneWriteAtATime
BY PipeInitInv, PipeNextInv, PipeInvImplies, PTL DEF PipeSpec

\* A client reads messages in the order they were sent (pipe_writer.cpp:31, 50).
THEOREM InOrder == PipeSpec => []WrittenInOrder
BY PipeInitInv, PipeNextInv, PipeInvImplies, PTL DEF PipeSpec

\* Only a full queue loses messages (pipe_writer.cpp:23).
THEOREM Losses == PipeSpec => []OnlyOldDropped
BY PipeInitInv, PipeNextInv, PipeInvImplies, PTL DEF PipeSpec

\* No wakeup is lost between the senders and the handler (pipe_writer.cpp:45).
THEOREM NoLostWakeup == PipeSpec => []QueueLookedAfter
BY PipeInitInv, PipeNextInv, PipeInvImplies, PTL DEF PipeSpec
=============================================================================
