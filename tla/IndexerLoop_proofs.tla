------------------------ MODULE IndexerLoop_proofs -------------------------
(***************************************************************************)
(* For every chain, every bound and every pattern of faults: with a stream *)
(* that keeps its order and a chain that has a transaction to anchor at,   *)
(* neither `last` nor the persisted cursor ever passes over a transaction  *)
(* in silence, and a live connection misses nothing.                       *)
(***************************************************************************)
EXTENDS IndexerLoop, SequenceTheorems, TLAPS

USE BoundAssumption DEF None, Tx

-----------------------------------------------------------------------------
(***************************************************************************)
(* What handle does to the memory and the database.                        *)
(***************************************************************************)

\* RecentSignatures.add keeps a sequence of transactions, all old ones or the new one.
LEMMA RememberRecent ==
  ASSUME TypeOK, NEW t \in Tx, Remember(t)
  PROVE  /\ recent' \in Seq(Tx)
         /\ \A i \in DOMAIN recent' : recent'[i] = t \/ \E j \in DOMAIN recent : recent'[i] = recent[j]
         /\ last' \in {last, t}
<1> DEFINE grown == Append(recent, t)
<1>1. recent \in Seq(Tx) BY DEF TypeOK, StoreType
<1>2. /\ grown \in Seq(Tx)
      /\ DOMAIN grown = 1 .. Len(recent) + 1
      /\ Len(grown) = Len(recent) + 1
      /\ \A i \in DOMAIN grown : grown[i] = t \/ \E j \in DOMAIN recent : grown[i] = recent[j]
  BY <1>1
<1>3. CASE Len(grown) > RecentCap
  <2>1. recent' = Tail(grown) BY <1>3 DEF Remember
  <2>2. grown # <<>> BY <1>1, AppendProperties
  <2>3. /\ Tail(grown) \in Seq(Tx)
        /\ DOMAIN Tail(grown) = 1 .. Len(recent)
        /\ \A i \in DOMAIN Tail(grown) : Tail(grown)[i] = grown[i + 1]
    <3> HIDE DEF grown
    <3>1. /\ Tail(grown) \in Seq(Tx)
          /\ Len(Tail(grown)) = Len(grown) - 1
          /\ \A i \in 1 .. Len(Tail(grown)) : Tail(grown)[i] = grown[i + 1]
      BY <1>2, <2>2, HeadTailProperties
    <3>2. DOMAIN Tail(grown) = 1 .. Len(Tail(grown)) /\ Len(recent) \in Nat
      BY <1>1, <3>1
    <3> QED BY <1>2, <3>1, <3>2
  <2>4. \A i \in DOMAIN Tail(grown) : i + 1 \in DOMAIN grown
    BY <1>1, <1>2, <2>3
  <2> QED BY <2>1, <2>3, <2>4, <1>2 DEF Remember
<1>4. CASE ~(Len(grown) > RecentCap)
  BY <1>2, <1>4 DEF Remember
<1> QED BY <1>3, <1>4

\* What speaks against the transactions stays a count up to READ_ATTEMPTS.
LEMMA AgainstCounts ==
  ASSUME StoreType, NEW t \in Tx, NEW those,
         \/ Counted(t) \/ Decisive(those) \/ UNCHANGED against
  PROVE  against' \in [Tx -> 0 .. ReadAttempts]
<1>1. CASE Counted(t)
  <2>1. \A u \in Tx : against[u] \in 0 .. ReadAttempts BY DEF StoreType
  <2>2. \A n \in 0 .. ReadAttempts : (IF n < ReadAttempts THEN n + 1 ELSE n) \in 0 .. ReadAttempts
    BY BoundAssumption
  <2> QED BY <1>1, <2>1, <2>2 DEF Counted, StoreType
<1>2. CASE Decisive(those)
  BY <1>2, BoundAssumption DEF Decisive, StoreType
<1>3. CASE UNCHANGED against
  BY <1>3 DEF StoreType
<1> QED BY <1>1, <1>2, <1>3

\* What a call of handle that returns leaves behind.
Taken(t) ==
  /\ stored' \subseteq Tx /\ skipped' \subseteq Tx
  /\ Handled' = Handled \cup {t}
  /\ last' \in {last, t}
  /\ cursor' \in {cursor, t} /\ (cursor' = None => stored' = stored)
  /\ recent' \in Seq(Tx)
  /\ \A i \in DOMAIN recent' : recent'[i] \in Handled'
  /\ readFailures' \in [Tx -> 0 .. ReadAttempts - 1]
  /\ faults' \in 0 .. MaxFaults
  /\ against' \in [Tx -> 0 .. ReadAttempts]

LEMMA ReturnsTakes ==
  ASSUME TypeOK, Ranges, NEW t \in Tx, Returns(t)
  PROVE  Taken(t)
<1>1. CASE AlreadyHandled(t)
  BY <1>1 DEF AlreadyHandled, Known, TypeOK, StoreType, Ranges, RecentHandled, Taken, Handled, memory, kept
<1>2. CASE ReadAndStored(t)
  <2>1. Remember(t) BY <1>2 DEF ReadAndStored
  <2>2. /\ stored' = stored \cup {t} /\ skipped' = skipped
        /\ cursor' \in {cursor, t} /\ cursor' # None
        /\ readFailures' \in [Tx -> 0 .. ReadAttempts - 1]
        /\ faults' = faults
        /\ against' = against
    BY <1>2 DEF ReadAndStored, Write, ForgetFailures, TypeOK, StoreType
  <2> QED BY <2>1, <2>2, RememberRecent DEF Taken, Handled, TypeOK, StoreType, Ranges, RecentHandled
<1>3. CASE NotServed(t) \/ GivenUp(t)
  <2>1. Remember(t) BY <1>3 DEF NotServed, GivenUp
  <2>2. stored' = stored /\ skipped' = skipped \cup {t} /\ cursor' = cursor
    BY <1>3 DEF NotServed, GivenUp, kept
  <2>3. readFailures' \in [Tx -> 0 .. ReadAttempts - 1]
    <3>1. readFailures' = [readFailures EXCEPT ![t] = 0]
      BY <1>3 DEF NotServed, GivenUp, ForgetFailures
    <3> QED BY <3>1 DEF TypeOK, StoreType
  <2>4. faults' \in 0 .. MaxFaults
    <3>1. faults' = faults \/ Fault BY <1>3 DEF NotServed, GivenUp, ReadError
    <3> QED BY <3>1 DEF Fault, TypeOK, StoreType
  <2>5. against' \in [Tx -> 0 .. ReadAttempts]
    BY <1>3, AgainstCounts DEF NotServed, GivenUp, TypeOK
  <2> QED BY <2>1, <2>2, <2>3, <2>4, <2>5, RememberRecent DEF Taken, Handled, TypeOK, StoreType, Ranges, RecentHandled
<1> QED BY <1>1, <1>2, <1>3 DEF Returns

\* What a call of handle that throws leaves behind.
Retried(t) ==
  /\ stored' \in {stored, stored \cup {t}} /\ skipped' = skipped
  /\ cursor' = cursor \/ (cursor' = t /\ t \in stored')
  /\ cursor' = None => stored' = stored
  /\ last' = last /\ recent' = recent
  /\ readFailures' \in [Tx -> 0 .. ReadAttempts - 1]
  /\ faults' \in 0 .. MaxFaults
  /\ against' \in [Tx -> 0 .. ReadAttempts]

LEMMA ThrowsRetries ==
  ASSUME TypeOK, NEW t \in Tx, Throws(t)
  PROVE  Retried(t)
<1>1. CASE Refused(t)
  BY <1>1 DEF Refused, Fault, TypeOK, StoreType, Retried, memory, kept
<1>2. CASE ReadFailed(t)
  <2>1. faults' = faults \/ Fault BY <1>2 DEF ReadFailed, ReadError
  <2>2. readFailures' \in [Tx -> 0 .. ReadAttempts - 1]
    BY <1>2 DEF ReadFailed, TypeOK, StoreType
  <2>3. against' \in [Tx -> 0 .. ReadAttempts]
    BY <1>2, AgainstCounts DEF ReadFailed, TypeOK
  <2> QED BY <1>2, <2>1, <2>2, <2>3 DEF ReadFailed, Fault, TypeOK, StoreType, Retried, kept
<1>3. CASE SinkFailed(t)
  BY <1>3 DEF SinkFailed, Fault, ForgetFailures, Write, TypeOK, StoreType, StoreType, Retried, memory, kept
<1> QED BY <1>1, <1>2, <1>3 DEF Throws

-----------------------------------------------------------------------------
(***************************************************************************)
(* Every step keeps the invariant, one of its parts at a time.             *)
(***************************************************************************)

LEMMA InitInv ==
  ASSUME InitialTx # None, Init
  PROVE  IInv
<1>1. TypeOK
  <2>1. LoopType BY DEF Init, LoopType, Start, Tasks
  <2>4. ChainType BY DEF Init, ChainType
  <2>2. BatchType BY DEF Init, BatchType, NoBatch, Batch
  <2>3. StoreType BY DEF Init, StoreType
  <2> QED BY <2>1, <2>2, <2>3, <2>4 DEF TypeOK
<1>2. Control
  BY DEF Init, Control, Start, NoBatch, Batch, Queued
<1>3. Ranges
  BY DEF Init, Ranges, Bounds, Unread, BatchBounds, RecentHandled, NoBatch, Batch
<1>4. Covered
  BY DEF Init, Covered, Announced, Start
<1>5. Complete
  BY DEF Init, Complete, NoSilentGap, CursorComplete, BatchComplete, NoteComplete, CompleteTo, NoBatch, Batch
<1> QED BY <1>1, <1>2, <1>3, <1>4, <1>5 DEF IInv

\* The transaction a running task is about to handle is one the chain has, and
\* everything before it has been dealt with.
LEMMA BatchItem ==
  ASSUME IInv, InBatch, batch.phase = "work", batch.next <= batch.upto
  PROVE  /\ batch.next \in Tx /\ base < batch.next /\ batch.next <= landed
         /\ CompleteTo(batch.next - 1) /\ last # None
<1>1. last # None BY DEF IInv, Control, Queued, InBatch
<1> QED BY <1>1 DEF IInv, TypeOK, ChainType, BatchType, Ranges, BatchBounds, Complete, BatchComplete

LEMMA NoteItem ==
  ASSUME IInv, running = "handle"
  PROVE  /\ note \in Tx /\ base < note /\ note <= landed
         /\ CompleteTo(note - 1) /\ last # None
<1>1. note # None /\ last # None BY DEF IInv, Control, Queued
<1>2. note \in Tx BY <1>1 DEF IInv, TypeOK, ChainType
<1> QED BY <1>1, <1>2 DEF IInv, Ranges, Unread, Complete, NoteComplete

\* A new batch has the right type whatever its bounds.
LEMMA BatchTypes ==
  ASSUME NEW phase \in {"none", "ask", "work"}, NEW from \in 0 .. MaxTx,
         NEW next \in Nat, NEW upto \in 0 .. MaxTx, batch' = Batch(phase, from, next, upto)
  PROVE  BatchType'
  BY DEF BatchType, Batch

LEMMA LoopTypeStep ==
  ASSUME IInv, [Next]_vars
  PROVE  LoopType'
<1> USE DEF Tasks
<1>0. LoopType BY DEF IInv, TypeOK
<1>1. CASE Land
  BY <1>0, <1>1 DEF Land, LoopType, queue
<1>2. ASSUME NEW how \in {"dead", "ended"}, SocketFails(how)
      PROVE  LoopType'
  BY <1>0, <1>2 DEF SocketFails, LoopType, queue
<1>3. CASE Connecting
  <2>1. CASE Anchor
    BY <1>0, <2>1 DEF Anchor, LoopType, net, queue
  <2>2. CASE ConnectFails
    BY <1>0, <2>2 DEF ConnectFails, LoopType, net, queue
  <2>3. CASE Subscribe
    BY <1>0, <2>3 DEF Subscribe, GoLive, Enqueue, LoopType, queue
  <2>4. CASE StreamEnds
    BY <1>0, <2>4 DEF StreamEnds, Abort, WatchAfterAbort, LoopType, queue
  <2>5. CASE Closed \/ Reconnect
    BY <1>0, <2>5 DEF Closed, Reconnect, Start, LoopType, net, queue
  <2> QED BY <1>3, <2>1, <2>2, <2>3, <2>4, <2>5 DEF Connecting
<1>4. ASSUME NEW n \in Tx, Deliver(n)
      PROVE  LoopType'
  BY <1>0, <1>4 DEF Deliver, Enqueue, LoopType
<1>5. CASE WatchdogDrops \/ WatchdogSweeps
  BY <1>0, <1>5 DEF WatchdogDrops, WatchdogSweeps, Abort, Enqueue, LoopType, net, queue
<1>6. CASE Working
  <2>1. CASE List
    BY <1>0, <2>1 DEF List, LoopType, net, queue
  <2>2. CASE ListFails
    BY <1>0, <2>2 DEF ListFails, InBatch, Fail, Dequeue, Abort, WatchAfterAbort, LoopType, net
  <2>3. CASE NextItem
    BY <1>0, <2>3 DEF NextItem, LoopType, net, queue
  <2>4. CASE ItemFails
    BY <1>0, <2>4 DEF ItemFails, InBatch, Fail, Dequeue, Abort, WatchAfterAbort, LoopType, net
  <2>5. CASE BatchDone
    BY <1>0, <2>5 DEF BatchDone, InBatch, Finish, Dequeue, GoLive, LoopType, net
  <2>6. CASE HandleNote
    BY <1>0, <2>6 DEF HandleNote, Finish, Dequeue, LoopType, net
  <2>7. CASE HandleFails
    BY <1>0, <2>7 DEF HandleFails, Fail, Dequeue, Abort, WatchAfterAbort, LoopType, net
  <2> QED BY <1>6, <2>1, <2>2, <2>3, <2>4, <2>5, <2>6, <2>7 DEF Working
<1>7. CASE Crash
  BY <1>0, <1>7 DEF Crash, Start, LoopType
<1>8. CASE UNCHANGED vars
  BY <1>0, <1>8 DEF vars, LoopType, net, queue
<1> QED BY <1>1, <1>2, <1>3, <1>4, <1>5, <1>6, <1>7, <1>8 DEF Next

LEMMA ChainTypeStep ==
  ASSUME IInv, [Next]_vars
  PROVE  ChainType'
<1>0. ChainType BY DEF IInv, TypeOK
<1>1. CASE Land
  <2>1. landed + 1 \in Tx BY <1>0, <1>1 DEF Land, ChainType
  <2>2. inflight' \subseteq Tx BY <1>0, <1>1, <2>1 DEF Land, ChainType
  <2> QED BY <1>0, <1>1, <2>1, <2>2 DEF Land, ChainType
<1>2. ASSUME NEW how \in {"dead", "ended"}, SocketFails(how)
      PROVE  ChainType'
  BY <1>0, <1>2 DEF SocketFails, ChainType
<1>3. CASE Connecting
  <2>1. CASE Anchor \/ ConnectFails \/ Closed \/ Reconnect
    BY <1>0, <2>1 DEF Anchor, ConnectFails, Closed, Reconnect, ChainType, net
  <2>2. CASE Subscribe
    BY <1>0, <2>2 DEF Subscribe, GoLive, ChainType
  <2>3. CASE StreamEnds
    BY <1>0, <2>3 DEF StreamEnds, Abort, ChainType
  <2> QED BY <1>3, <2>1, <2>2, <2>3 DEF Connecting
<1>4. ASSUME NEW n \in Tx, Deliver(n)
      PROVE  ChainType'
  BY <1>0, <1>4 DEF Deliver, ChainType
<1>5. CASE WatchdogDrops \/ WatchdogSweeps
  BY <1>0, <1>5 DEF WatchdogDrops, WatchdogSweeps, Abort, ChainType, net
<1>6. CASE Working
  <2>1. CASE List
    BY <1>0, <2>1 DEF List, ChainType, net
  <2>2. CASE ListFails
    BY <1>0, <2>2 DEF ListFails, Fail, Abort, ChainType, net
  <2>3. CASE NextItem
    BY <1>0, <2>3, BatchItem DEF NextItem, Found, ChainType, net
  <2>4. CASE ItemFails
    <3>1. sweptOnly' \subseteq Tx BY <1>0, <2>4, BatchItem DEF ItemFails, Found, ChainType
    <3> QED BY <1>0, <2>4, <3>1 DEF ItemFails, Fail, Abort, ChainType, net
  <2>5. CASE BatchDone
    BY <1>0, <2>5 DEF BatchDone, InBatch, Finish, GoLive, ChainType, net
  <2>6. CASE HandleNote
    BY <1>0, <2>6 DEF HandleNote, Finish, ChainType, net
  <2>7. CASE HandleFails
    BY <1>0, <2>7 DEF HandleFails, Fail, Abort, ChainType, net
  <2> QED BY <1>6, <2>1, <2>2, <2>3, <2>4, <2>5, <2>6, <2>7 DEF Working
<1>7. CASE Crash
  BY <1>0, <1>7 DEF Crash, ChainType
<1>8. CASE UNCHANGED vars
  BY <1>0, <1>8 DEF vars, ChainType, net
<1> QED BY <1>1, <1>2, <1>3, <1>4, <1>5, <1>6, <1>7, <1>8 DEF Next

LEMMA BatchTypeStep ==
  ASSUME IInv, [Next]_vars
  PROVE  BatchType'
<1>0. BatchType /\ landed \in 0 .. MaxTx /\ last \in 0 .. MaxTx
  BY DEF IInv, TypeOK, ChainType, StoreType
<1>1. CASE UNCHANGED batch
  BY <1>0, <1>1 DEF BatchType
<1>2. CASE batch' = NoBatch
  BY <1>2, BatchTypes DEF NoBatch
<1>3. CASE batch' = Asking(last)
  BY <1>0, <1>3, BatchTypes DEF Asking
<1>4. CASE List
  <2> DEFINE first == IF landed > batch.from + CatchUpCap
                      THEN landed - CatchUpCap + 1 ELSE batch.from + 1
  <2>1. batch.from \in 0 .. MaxTx BY <1>0 DEF BatchType
  <2>2. first \in Nat BY <1>0, <2>1
  <2>3. batch' = Batch("work", batch.from, first, landed) BY <1>4 DEF List
  <2> QED BY <1>0, <2>1, <2>2, <2>3, BatchTypes
<1>5. CASE NextItem
  <2>1. batch' = Batch("work", batch.from, batch.next + 1, batch.upto) BY <1>5 DEF NextItem
  <2>2. batch.from \in 0 .. MaxTx /\ batch.next + 1 \in Nat /\ batch.upto \in 0 .. MaxTx
    BY <1>0 DEF BatchType
  <2> QED BY <2>1, <2>2, BatchTypes
<1>6. \/ UNCHANGED batch \/ batch' = NoBatch \/ batch' = Asking(last) \/ List \/ NextItem
  BY DEF Next, vars, Land, SocketFails, Connecting, Anchor, ConnectFails, Subscribe, StreamEnds,
         Closed, Reconnect, Deliver, WatchdogDrops, WatchdogSweeps, Working, ListFails, ItemFails,
         BatchDone, HandleNote, HandleFails, Finish, Fail, Crash, InBatch
<1> QED BY <1>1, <1>2, <1>3, <1>4, <1>5, <1>6

\* Whatever a call of handle does, the memory and the database keep their types.
LEMMA WorkTypes ==
  ASSUME StoreType, NEW t \in Tx, Taken(t) \/ Retried(t)
  PROVE  StoreType'
<1>1. CASE Taken(t)
  <2>0. last' \in {last, t} /\ cursor' \in {cursor, t} BY <1>1 DEF Taken
  <2>1. last' \in 0 .. MaxTx /\ cursor' \in 0 .. MaxTx
    BY <2>0 DEF StoreType
  <2>2. /\ stored' \subseteq Tx /\ skipped' \subseteq Tx /\ recent' \in Seq(Tx)
        /\ readFailures' \in [Tx -> 0 .. ReadAttempts - 1] /\ faults' \in 0 .. MaxFaults
        /\ against' \in [Tx -> 0 .. ReadAttempts]
    BY <1>1 DEF Taken
  <2> QED BY <2>1, <2>2 DEF StoreType
<1>2. CASE Retried(t)
  <2>1. stored' \subseteq Tx /\ skipped' \subseteq Tx /\ recent' \in Seq(Tx)
    BY <1>2 DEF Retried, StoreType
  <2>0. last' = last /\ (cursor' = cursor \/ cursor' = t) BY <1>2 DEF Retried
  <2>2. last' \in 0 .. MaxTx /\ cursor' \in 0 .. MaxTx
    BY <2>0 DEF StoreType
  <2>3. /\ readFailures' \in [Tx -> 0 .. ReadAttempts - 1] /\ faults' \in 0 .. MaxFaults
        /\ against' \in [Tx -> 0 .. ReadAttempts]
    BY <1>2 DEF Retried
  <2> QED BY <2>1, <2>2, <2>3 DEF StoreType
<1> QED BY <1>1, <1>2

LEMMA StoreTypeStep ==
  ASSUME IInv, [Next]_vars
  PROVE  StoreType'
<1>0. TypeOK /\ StoreType /\ Ranges BY DEF IInv, TypeOK
<1>1. CASE UNCHANGED <<memory, kept, skipped>> /\ (Fault \/ UNCHANGED faults)
  <2>1. faults' \in 0 .. MaxFaults BY <1>0, <1>1 DEF StoreType, Fault
  <2> QED BY <1>0, <1>1, <2>1 DEF StoreType, memory, kept
<1>2. CASE Anchor
  BY <1>0, <1>2 DEF Anchor, StoreType, TypeOK, ChainType, kept
<1>3. CASE List
  <2>1. batch.from \in 0 .. MaxTx /\ landed \in 0 .. MaxTx
    BY <1>0 DEF TypeOK, BatchType, ChainType
  <2> DEFINE first == IF landed > batch.from + CatchUpCap
                      THEN landed - CatchUpCap + 1 ELSE batch.from + 1
  <2>3. skipped' = skipped \cup ((batch.from + 1) .. (first - 1)) BY <1>3 DEF List
  <2>4. first - 1 <= MaxTx \/ first = batch.from + 1 BY <2>1
  <2>5. \A t \in (batch.from + 1) .. (first - 1) : t \in Tx BY <2>1, <2>4
  <2>2. skipped' \subseteq Tx BY <1>0, <2>3, <2>5 DEF StoreType
  <2>6. against' \in [Tx -> 0 .. ReadAttempts]
    <3>1. \E those : Decisive(those) BY <1>3 DEF List
    <3>2. PICK those : Decisive(those) BY <3>1
    <3> QED BY <1>0, <3>2, BoundAssumption DEF Decisive, StoreType
  <2> QED BY <1>0, <1>3, <2>2, <2>6 DEF List, StoreType, memory, kept
<1>4. CASE NextItem
  <2>1. Taken(batch.next) BY <1>0, <1>4, BatchItem, ReturnsTakes DEF NextItem
  <2> QED BY <1>0, <1>4, <2>1, BatchItem, WorkTypes DEF NextItem
<1>5. CASE ItemFails
  <2>1. Retried(batch.next) BY <1>0, <1>5, BatchItem, ThrowsRetries DEF ItemFails
  <2> QED BY <1>0, <1>5, <2>1, BatchItem, WorkTypes DEF ItemFails
<1>6. CASE HandleNote
  <2>1. Taken(note) BY <1>0, <1>6, NoteItem, ReturnsTakes DEF HandleNote
  <2> QED BY <1>0, <1>6, <2>1, NoteItem, WorkTypes DEF HandleNote
<1>7. CASE HandleFails
  <2>1. Retried(note) BY <1>0, <1>7, NoteItem, ThrowsRetries DEF HandleFails
  <2> QED BY <1>0, <1>7, <2>1, NoteItem, WorkTypes DEF HandleFails
<1>8. CASE Crash
  BY <1>0, <1>8 DEF Crash, Fault, StoreType, kept
<1>9. \/ UNCHANGED <<memory, kept, skipped>> /\ (Fault \/ UNCHANGED faults)
      \/ Anchor \/ List \/ NextItem \/ ItemFails \/ HandleNote \/ HandleFails \/ Crash
  BY DEF Next, vars, Land, SocketFails, Connecting, ConnectFails, Subscribe, StreamEnds,
         Closed, Reconnect, Deliver, WatchdogDrops, WatchdogSweeps, Working, ListFails, BatchDone
<1> QED BY <1>1, <1>2, <1>3, <1>4, <1>5, <1>6, <1>7, <1>8, <1>9

\* Where the loop and the watchdog wait, and what the queue holds for them.
LEMMA ControlStep ==
  ASSUME IInv, [Next]_vars
  PROVE  Control'
<1> USE DEF Queued
<1>0. Control /\ LoopType /\ ChainType /\ Ranges BY DEF IInv, TypeOK
<1>1. CASE Land
  BY <1>0, <1>1 DEF Land, Control, queue, memory
<1>2. ASSUME NEW how \in {"dead", "ended"}, SocketFails(how)
      PROVE  Control'
  BY <1>0, <1>2 DEF SocketFails, Control, queue, memory
<1>3. CASE Connecting
  <2>1. CASE Anchor
    <3>1. last' # None /\ watch = "off" /\ running = "none" /\ ~live
      <4>1. 0 < landed BY <1>0 DEF Ranges, Bounds, ChainType
      <4> QED BY <1>0, <2>1, <4>1 DEF Anchor, Control, LoopType, Tasks
    <3> QED BY <1>0, <2>1, <3>1 DEF Anchor, Control, net, queue
  <2>2. CASE ConnectFails
    BY <1>0, <2>2 DEF ConnectFails, Control, net, queue, memory
  <2>3. CASE Subscribe
    <3>1. last # None BY <1>0, <2>3 DEF Subscribe, Control
    <3>2. running = "none" /\ waiting = "none" /\ watch = "off"
      BY <1>0, <2>3 DEF Subscribe, Control, LoopType, Tasks
    <3> QED BY <1>0, <2>3, <3>1, <3>2 DEF Subscribe, Enqueue, Asking, Batch, Control, memory
  <2>4. CASE StreamEnds
    BY <1>0, <2>4 DEF StreamEnds, Abort, WatchAfterAbort, Control, queue, memory
  <2>5. CASE Closed \/ Reconnect
    BY <1>0, <2>5 DEF Closed, Reconnect, Start, Control, net, queue, memory
  <2> QED BY <1>3, <2>1, <2>2, <2>3, <2>4, <2>5 DEF Connecting
<1>4. ASSUME NEW n \in Tx, Deliver(n)
      PROVE  Control'
  BY <1>0, <1>4 DEF Deliver, Enqueue, Control, LoopType, Tasks, memory
<1>5. CASE WatchdogDrops
  BY <1>0, <1>5 DEF WatchdogDrops, Abort, Control, queue, memory
<1>6. CASE WatchdogSweeps
  BY <1>0, <1>6 DEF WatchdogSweeps, Enqueue, Asking, Batch, Control, LoopType, Tasks, net, memory
<1>7. CASE List
  BY <1>0, <1>7 DEF List, InBatch, Batch, Control, net, queue, memory
<1>8. CASE ListFails
  BY <1>0, <1>8 DEF ListFails, InBatch, Fail, Dequeue, Abort, WatchAfterAbort, NoBatch, Batch,
                    Control, LoopType, Tasks, net, memory
<1>9. CASE NextItem
  <2>1. last' # None
    <3>1. last # None BY <1>0, <1>9 DEF NextItem, InBatch, Control
    <3>2. Taken(batch.next) /\ batch.next # None
      BY <1>9, BatchItem, ReturnsTakes DEF NextItem, IInv
    <3> QED BY <3>1, <3>2 DEF Taken
  <2> QED BY <1>0, <1>9, <2>1 DEF NextItem, InBatch, Batch, Control, net, queue
<1>10. CASE ItemFails
  <2>1. last' = last BY <1>10, BatchItem, ThrowsRetries DEF ItemFails, Retried, IInv
  <2>2. CASE running = "catchUp"
    BY <1>0, <1>10, <2>1, <2>2 DEF ItemFails, Fail, Dequeue, Abort, WatchAfterAbort,
                     NoBatch, Batch, Control, LoopType, Tasks, net
  <2>3. CASE running = "sweep"
    BY <1>0, <1>10, <2>1, <2>3 DEF ItemFails, Fail, Dequeue, NoBatch, Batch, Control, LoopType, Tasks, net
  <2> QED BY <1>10, <2>2, <2>3 DEF ItemFails, InBatch
<1>11. CASE BatchDone
  <2>1. CASE running = "catchUp"
    BY <1>0, <1>11, <2>1 DEF BatchDone, Finish, Dequeue, GoLive, NoBatch, Batch,
                             Control, LoopType, Tasks, net, memory
  <2>2. CASE running = "sweep"
    BY <1>0, <1>11, <2>2 DEF BatchDone, Finish, Dequeue, NoBatch, Batch,
                             Control, LoopType, Tasks, net, memory
  <2> QED BY <1>11, <2>1, <2>2 DEF BatchDone, InBatch
<1>12. CASE HandleNote
  <2>1. last' # None
    <3>1. last # None BY <1>0, <1>12 DEF HandleNote, Control
    <3>2. Taken(note) /\ note # None
      BY <1>12, NoteItem, ReturnsTakes DEF HandleNote, IInv
    <3> QED BY <3>1, <3>2 DEF Taken
  <2> QED BY <1>0, <1>12, <2>1 DEF HandleNote, Finish, Dequeue, Control, LoopType, Tasks, net
<1>13. CASE HandleFails
  <2>1. last' = last BY <1>13, NoteItem, ThrowsRetries DEF HandleFails, Retried, IInv
  <2> QED BY <1>0, <1>13, <2>1 DEF HandleFails, Fail, Dequeue, Abort, WatchAfterAbort,
                     Control, LoopType, Tasks, net
<1>14. CASE Crash
  BY <1>0, <1>14 DEF Crash, Start, NoBatch, Batch, Control
<1>15. CASE UNCHANGED vars
  BY <1>0, <1>15 DEF vars, Control, net, queue, memory
<1> QED BY <1>1, <1>2, <1>3, <1>4, <1>5, <1>6, <1>7, <1>8, <1>9, <1>10, <1>11, <1>12,
           <1>13, <1>14, <1>15 DEF Next, Working

-----------------------------------------------------------------------------
(***************************************************************************)
(* What a step can do to the memory and the database.                      *)
(***************************************************************************)

\* A call of handle for t, whose turn it is.
Works(t) ==
  /\ base < t /\ t <= landed /\ CompleteTo(t - 1) /\ last # None
  /\ UNCHANGED <<landed, base>>
  /\ Taken(t) \/ Retried(t)

LEMMA MemoryStep ==
  ASSUME IInv, [Next]_vars
  PROVE  \/ /\ UNCHANGED <<last, cursor, recent, base, stored>>
            /\ landed <= landed' /\ Handled \subseteq Handled'
         \/ Anchor
         \/ Crash
         \/ \E t \in Tx : Works(t)
<1>0. landed \in Nat /\ TypeOK /\ Ranges BY DEF IInv, TypeOK, ChainType
<1>1. CASE NextItem \/ ItemFails
  <2>1. /\ batch.next \in Tx /\ base < batch.next /\ batch.next <= landed
        /\ CompleteTo(batch.next - 1) /\ last # None
    BY <1>1, BatchItem DEF NextItem, ItemFails
  <2>2. Taken(batch.next) \/ Retried(batch.next)
    BY <1>0, <1>1, <2>1, ReturnsTakes, ThrowsRetries DEF NextItem, ItemFails
  <2>3. UNCHANGED <<landed, base>> BY <1>1 DEF NextItem, ItemFails
  <2> QED BY <2>1, <2>2, <2>3 DEF Works
<1>2. CASE HandleNote \/ HandleFails
  <2>1. /\ note \in Tx /\ base < note /\ note <= landed
        /\ CompleteTo(note - 1) /\ last # None
    BY <1>2, NoteItem DEF HandleNote, HandleFails
  <2>2. Taken(note) \/ Retried(note)
    BY <1>0, <1>2, <2>1, ReturnsTakes, ThrowsRetries DEF HandleNote, HandleFails
  <2>3. UNCHANGED <<landed, base>> BY <1>2 DEF HandleNote, HandleFails
  <2> QED BY <2>1, <2>2, <2>3 DEF Works
<1>3. CASE ~(NextItem \/ ItemFails \/ HandleNote \/ HandleFails \/ Anchor \/ Crash)
  <2>1. UNCHANGED <<last, cursor, recent, base, stored>>
    BY <1>3 DEF Next, vars, Land, SocketFails, Connecting, ConnectFails, Subscribe, StreamEnds,
         Closed, Reconnect, Deliver, WatchdogDrops, WatchdogSweeps, Working, List, ListFails,
         BatchDone, memory, kept
  <2>2. landed' \in {landed, landed + 1}
    BY <1>3 DEF Next, vars, Land, SocketFails, Connecting, ConnectFails, Subscribe, StreamEnds,
         Closed, Reconnect, Deliver, WatchdogDrops, WatchdogSweeps, Working, List, ListFails, BatchDone
  <2>3. skipped \subseteq skipped'
    BY <1>3 DEF Next, vars, Land, SocketFails, Connecting, ConnectFails, Subscribe, StreamEnds,
         Closed, Reconnect, Deliver, WatchdogDrops, WatchdogSweeps, Working, List, ListFails, BatchDone
  <2> QED BY <1>0, <2>1, <2>2, <2>3 DEF Handled
<1> QED BY <1>1, <1>2, <1>3

\* Handled transactions stay handled, and only Anchor moves the anchor.
LEMMA Monotone ==
  ASSUME IInv, [Next]_vars
  PROVE  /\ landed <= landed' /\ Handled \subseteq Handled'
         /\ base' = base \/ Anchor
<1>1. landed \in Nat BY DEF IInv, TypeOK, ChainType
<1>2. CASE Anchor \/ Crash BY <1>1, <1>2 DEF Anchor, Crash, Handled, kept
<1>3. ASSUME NEW t \in Tx, Works(t)
      PROVE  landed <= landed' /\ Handled \subseteq Handled' /\ base' = base
  BY <1>1, <1>3 DEF Works, Taken, Retried, Handled
<1> QED BY <1>2, <1>3, MemoryStep

\* A connection is only anchored when nothing is open, announced or in hand.
LEMMA AnchorIdle ==
  ASSUME IInv, Anchor
  PROVE  /\ inflight = {} /\ note = None /\ batch.phase = "none" /\ cursor = None
         /\ sock = "closed" /\ recent \in Seq(Tx) /\ last = None
<1>1. Control /\ Ranges /\ TypeOK BY DEF IInv
<1>2. running # "handle" /\ waiting # "handle" /\ ~Queued("catchUp") /\ ~Queued("sweep")
  BY <1>1 DEF Anchor, Control, Queued
<1> QED BY <1>1, <1>2 DEF Anchor, Control, Queued, Ranges, Bounds, TypeOK, StoreType

-----------------------------------------------------------------------------
(***************************************************************************)
(* Ranges: what the process remembers lies between the anchor and the tip. *)
(***************************************************************************)

LEMMA BoundsStep ==
  ASSUME IInv, [Next]_vars
  PROVE  Bounds' /\ RecentHandled'
<1>0. /\ Bounds /\ RecentHandled
      /\ landed \in Nat /\ base \in Nat /\ last \in Nat /\ cursor \in Nat
  BY DEF IInv, Ranges, TypeOK, ChainType, StoreType
<1>1. CASE /\ UNCHANGED <<last, cursor, recent, base, stored>>
           /\ landed <= landed' /\ Handled \subseteq Handled'
  <2>1. landed' \in Nat
    BY ChainTypeStep DEF ChainType
  <2> QED BY <1>0, <1>1, <2>1 DEF Bounds, RecentHandled
<1>2. CASE Anchor
  <2>1. Handled' = Handled BY <1>2 DEF Anchor, Handled, kept
  <2> QED BY <1>0, <1>2, <2>1, AnchorIdle DEF Anchor, Bounds, RecentHandled, kept
<1>3. CASE Crash
  <2>1. DOMAIN recent' = {} BY <1>3 DEF Crash
  <2> QED BY <1>0, <1>3, <2>1 DEF Crash, Bounds, RecentHandled, kept
<1>4. ASSUME NEW t \in Tx, Works(t)
      PROVE  Bounds' /\ RecentHandled'
  <2>1. Bounds'
    <3>1. last' \in {last, t} /\ cursor' \in {cursor, t} /\ (cursor' = None => stored' = stored)
      BY <1>4 DEF Works, Taken, Retried
    <3>2. base < t /\ t <= landed /\ landed' = landed /\ base' = base /\ last # None /\ t \in Nat
      BY <1>4 DEF Works
    <3> QED BY <1>0, <3>1, <3>2 DEF Bounds
  <2>2. RecentHandled' BY <1>0, <1>4 DEF Works, Taken, Retried, RecentHandled, Handled
  <2> QED BY <2>1, <2>2
<1> QED BY <1>1, <1>2, <1>3, <1>4, MemoryStep

LEMMA UnreadStep ==
  ASSUME IInv, [Next]_vars
  PROVE  Unread'
<1>0. Unread /\ landed \in Nat /\ landed' \in Nat /\ base \in Nat /\ inflight \subseteq Tx
      /\ note \in Nat /\ base <= landed
  BY ChainTypeStep DEF IInv, Ranges, Bounds, TypeOK, ChainType
<1>1. CASE Land
  <2>1. inflight' \subseteq inflight \cup {landed'} /\ note' = note /\ base' = base /\ landed' = landed + 1
    BY <1>1 DEF Land
  <2> QED BY <1>0, <2>1 DEF Unread
<1>2. CASE Anchor
  BY <1>2, AnchorIdle DEF Anchor, Unread, net
<1>3. CASE inflight' \cup {note'} \subseteq inflight \cup {note, None} /\ ~Anchor
  <2>1. base' = base /\ landed <= landed' BY <1>3, Monotone
  <2>2. \A n \in inflight' \cup {note'} : n # None => base < n /\ n <= landed /\ n \in Nat
    <3>1. \A n \in inflight' \cup {note'} : n # None => n \in inflight \cup {note} BY <1>3
    <3>2. \A n \in inflight \cup {note} : n \in Nat BY <1>0
    <3>3. \A n \in inflight \cup {note} : n # None => base < n /\ n <= landed BY <1>0 DEF Unread
    <3> HIDE DEF None
    <3> QED BY <3>1, <3>2, <3>3
  <2> QED BY <1>0, <2>1, <2>2 DEF Unread
<1>4. Land \/ Anchor \/ inflight' \cup {note'} \subseteq inflight \cup {note, None}
  <2>1. CASE BatchDone BY <2>1 DEF BatchDone, InBatch, Finish, net
  <2>2. CASE ListFails \/ ItemFails BY <2>2 DEF ListFails, ItemFails, InBatch, Fail, Abort, net
  <2>3. CASE HandleNote \/ HandleFails BY <2>3 DEF HandleNote, HandleFails, Fail, Finish, Abort, net
  <2>4. CASE Crash \/ NextItem \/ List BY <2>4 DEF Crash, NextItem, List, net
  <2>5. CASE Connecting /\ ~Anchor
    BY <2>5 DEF Connecting, ConnectFails, Subscribe, StreamEnds, Closed, Reconnect, Abort, net
  <2>6. ASSUME NEW n \in Tx, Deliver(n) PROVE inflight' \cup {note'} \subseteq inflight \cup {note, None}
    BY <2>6 DEF Deliver
  <2>7. ASSUME NEW how \in {"dead", "ended"}, SocketFails(how)
        PROVE  inflight' \cup {note'} \subseteq inflight \cup {note, None}
    BY <2>7 DEF SocketFails
  <2>8. CASE WatchdogDrops \/ WatchdogSweeps \/ UNCHANGED vars
    BY <2>8 DEF WatchdogDrops, WatchdogSweeps, Abort, vars, net
  <2> QED BY <2>1, <2>2, <2>3, <2>4, <2>5, <2>6, <2>7, <2>8 DEF Next, Working
<1> QED BY <1>1, <1>2, <1>3, <1>4

\* How a step can change the running batch.
LEMMA BatchSteps ==
  ASSUME IInv, [Next]_vars
  PROVE  \/ UNCHANGED <<batch, base>> \/ batch'.phase = "none"
         \/ batch' = Asking(last) /\ last # None /\ UNCHANGED <<last, base, landed, stored, skipped>>
         \/ List \/ NextItem
<1>1. CASE Anchor
  BY <1>1, AnchorIdle DEF Anchor
<1>2. CASE Subscribe
  <2>1. last # None BY <1>2 DEF Subscribe, IInv, Control
  <2> QED BY <1>2, <2>1 DEF Subscribe, memory, kept
<1>3. CASE WatchdogSweeps
  BY <1>3 DEF WatchdogSweeps, memory, kept
<1>4. CASE Crash
  BY <1>4 DEF Crash, NoBatch, Batch
<1>5. CASE ListFails \/ ItemFails \/ BatchDone
  <2>1. batch' = NoBatch BY <1>5 DEF ListFails, ItemFails, BatchDone, InBatch, Fail, Finish
  <2> QED BY <2>1 DEF NoBatch, Batch
<1>6. CASE HandleNote \/ HandleFails
  BY <1>6 DEF HandleNote, HandleFails, Fail, Finish
<1>7. \/ UNCHANGED <<batch, base>> \/ Anchor \/ Subscribe \/ WatchdogSweeps \/ Crash
      \/ ListFails \/ ItemFails \/ BatchDone \/ HandleNote \/ HandleFails \/ List \/ NextItem
  BY DEF Next, vars, Land, SocketFails, Connecting, ConnectFails, StreamEnds,
         Closed, Reconnect, Deliver, WatchdogDrops, Working
<1> QED BY <1>1, <1>2, <1>3, <1>4, <1>5, <1>6, <1>7

\* The first transaction a catch-up or sweep takes, and what it leaves out.
LEMMA ListFirst ==
  ASSUME IInv, List
  PROVE  \E first \in Nat :
           /\ batch.from < first
           /\ batch' = Batch("work", batch.from, first, landed)
           /\ skipped' = skipped \cup ((batch.from + 1) .. (first - 1))
           /\ UNCHANGED <<landed, base, stored, last, cursor, pc, inflight, sock, note>>
<1> DEFINE first == IF landed > batch.from + CatchUpCap
                    THEN landed - CatchUpCap + 1 ELSE batch.from + 1
<1>1. batch.from \in Nat /\ landed \in Nat
  BY DEF IInv, TypeOK, ChainType, BatchType
<1>2. first \in Nat /\ batch.from < first BY <1>1
<1>3. /\ batch' = Batch("work", batch.from, first, landed)
      /\ skipped' = skipped \cup ((batch.from + 1) .. (first - 1))
  BY DEF List
<1>4. UNCHANGED <<landed, base, stored, last, cursor, pc, inflight, sock, note>>
  BY DEF List, memory, kept, net
<1> HIDE DEF first
<1> QED BY <1>2, <1>3, <1>4

LEMMA BatchBoundsStep ==
  ASSUME IInv, [Next]_vars
  PROVE  BatchBounds'
<1>0. /\ BatchBounds /\ Bounds /\ landed \in Nat /\ base \in Nat
      /\ batch.from \in Nat /\ batch.next \in Nat /\ batch.upto \in Nat
  BY DEF IInv, Ranges, TypeOK, ChainType, BatchType
<1>1. CASE UNCHANGED <<batch, base>>
  <2>1. landed <= landed' /\ landed' \in Nat BY Monotone, ChainTypeStep DEF ChainType
  <2> QED BY <1>0, <1>1, <2>1 DEF BatchBounds
<1>2. CASE batch'.phase = "none"
  BY <1>2 DEF BatchBounds
<1>3. CASE batch' = Asking(last) /\ last # None /\ UNCHANGED <<last, base, landed, stored, skipped>>
  BY <1>0, <1>3 DEF Asking, Batch, Bounds, BatchBounds
<1>4. CASE List
  <2>1. PICK first \in Nat :
          /\ batch.from < first
          /\ batch' = Batch("work", batch.from, first, landed)
          /\ UNCHANGED <<landed, base>>
    BY <1>4, ListFirst
  <2>2. base <= batch.from BY <1>0, <1>4 DEF List, BatchBounds
  <2> QED BY <1>0, <2>1, <2>2 DEF Batch, BatchBounds
<1>5. CASE NextItem
  <2>1. base < batch.next /\ UNCHANGED <<landed, base>> BY <1>5, BatchItem DEF NextItem
  <2> QED BY <1>0, <1>5, <2>1 DEF NextItem, Batch, BatchBounds
<1> QED BY <1>1, <1>2, <1>3, <1>4, <1>5, BatchSteps

-----------------------------------------------------------------------------
(***************************************************************************)
(* Complete: the points a reader starts from have no gap behind them.      *)
(***************************************************************************)

LEMMA GapFreeStep ==
  ASSUME IInv, [Next]_vars
  PROVE  NoSilentGap' /\ CursorComplete'
<1>0. /\ CompleteTo(last) /\ CompleteTo(cursor)
      /\ landed \in Nat /\ base \in Nat /\ last \in Nat /\ cursor \in Nat
      /\ base <= landed
  BY DEF IInv, Complete, NoSilentGap, CursorComplete, Ranges, Bounds, TypeOK, ChainType, StoreType
<1>1. CASE UNCHANGED <<last, cursor, base>> /\ Handled \subseteq Handled'
  BY <1>0, <1>1 DEF CompleteTo, NoSilentGap, CursorComplete
<1>2. CASE Anchor
  <2>1. last' = base' /\ base' \in Nat /\ cursor' = None
    BY <1>0, <1>2, AnchorIdle DEF Anchor, kept
  <2> QED BY <2>1 DEF CompleteTo, NoSilentGap, CursorComplete
<1>3. CASE Crash
  <2>1. last' = cursor /\ cursor' = cursor /\ base' = base /\ Handled' = Handled
    BY <1>3 DEF Crash, Handled, kept
  <2> QED BY <1>0, <2>1 DEF CompleteTo, NoSilentGap, CursorComplete
<1>4. ASSUME NEW t \in Tx, Works(t)
      PROVE  NoSilentGap' /\ CursorComplete'
  <2>1. Handled \subseteq Handled' /\ base' = base /\ CompleteTo(t - 1)
    BY <1>4 DEF Works, Taken, Retried, Handled
  <2>2. t \in Handled' => CompleteTo(t)'
    BY <2>1 DEF CompleteTo
  <2>3. last' = last \/ (last' = t /\ t \in Handled')
    <3>1. CASE Taken(t)
      <4>1. last' \in {last, t} /\ Handled' = Handled \cup {t} BY <3>1 DEF Taken
      <4> QED BY <4>1
    <3>2. CASE Retried(t) BY <3>2 DEF Retried
    <3> QED BY <1>4, <3>1, <3>2 DEF Works
  <2>4. cursor' = cursor \/ (cursor' = t /\ t \in Handled')
    <3>1. CASE Taken(t)
      <4>1. cursor' \in {cursor, t} /\ Handled' = Handled \cup {t} BY <3>1 DEF Taken
      <4> QED BY <4>1
    <3>2. CASE Retried(t)
      <4>1. cursor' = cursor \/ (cursor' = t /\ t \in stored') BY <3>2 DEF Retried
      <4> QED BY <4>1 DEF Handled
    <3> QED BY <1>4, <3>1, <3>2 DEF Works
  <2>5. CompleteTo(last)' BY <1>0, <2>1, <2>2, <2>3 DEF CompleteTo
  <2>6. CompleteTo(cursor)' BY <1>0, <2>1, <2>2, <2>4 DEF CompleteTo
  <2> QED BY <2>5, <2>6 DEF NoSilentGap, CursorComplete
<1> QED BY <1>1, <1>2, <1>3, <1>4, MemoryStep

LEMMA BatchCompleteStep ==
  ASSUME IInv, [Next]_vars
  PROVE  BatchComplete'
<1>0. /\ BatchComplete /\ CompleteTo(last) /\ Handled \subseteq Handled'
      /\ base \in Nat /\ last \in Nat /\ batch.from \in Nat /\ batch.next \in Nat
  <2>1. Complete /\ ChainType /\ StoreType /\ BatchType BY DEF IInv, TypeOK
  <2>2. base \in Nat /\ last \in Nat BY <2>1, BoundAssumption DEF ChainType, StoreType
  <2>3. batch.from \in Nat /\ batch.next \in Nat BY <2>1, BoundAssumption DEF BatchType
  <2> QED BY <2>1, <2>2, <2>3, Monotone DEF Complete, NoSilentGap
<1>1. CASE UNCHANGED <<batch, base>>
  BY <1>0, <1>1 DEF CompleteTo, BatchComplete
<1>2. CASE batch'.phase = "none"
  BY <1>2 DEF BatchComplete
<1>3. CASE batch' = Asking(last) /\ last # None /\ UNCHANGED <<last, base, landed, stored, skipped>>
  <2>1. batch'.phase = "ask" /\ batch'.from = last BY <1>3 DEF Asking, Batch
  <2> QED BY <1>0, <1>3, <2>1 DEF CompleteTo, BatchComplete
<1>4. CASE List
  <2>1. PICK first \in Nat :
          /\ batch.from < first
          /\ batch' = Batch("work", batch.from, first, landed)
          /\ skipped' = skipped \cup ((batch.from + 1) .. (first - 1))
          /\ base' = base
    BY <1>4, ListFirst
  <2>2. CompleteTo(batch.from) BY <1>0, <1>4 DEF List, BatchComplete
  <2>3. \A t \in Tx : base < t /\ t <= first - 1 => t \in Handled'
    BY <1>0, <2>1, <2>2 DEF CompleteTo, Handled
  <2>4. batch'.phase = "work" /\ batch'.next = first BY <2>1 DEF Batch
  <2> QED BY <2>1, <2>3, <2>4 DEF CompleteTo, BatchComplete
<1>5. CASE NextItem
  <2>1. /\ batch.next \in Tx /\ CompleteTo(batch.next - 1)
    BY <1>5, BatchItem DEF NextItem
  <2>2. Taken(batch.next)
    BY <1>5, BatchItem, ReturnsTakes DEF NextItem, IInv
  <2>3. batch'.phase = "work" /\ batch'.next = batch.next + 1 /\ base' = base
    BY <1>5 DEF NextItem, Batch
  <2>4. batch.next \in Handled' BY <2>2 DEF Taken
  <2>5. \A t \in Tx : base < t /\ t <= batch.next => t \in Handled'
    BY <1>0, <2>1, <2>4 DEF CompleteTo
  <2> QED BY <1>0, <2>3, <2>5 DEF CompleteTo, BatchComplete
<1> QED BY <1>1, <1>2, <1>3, <1>4, <1>5, BatchSteps

\* The loop takes the oldest notification of a stream that keeps its order, when
\* everything older has been dealt with.
LEMMA NoteCompleteStep ==
  ASSUME Reliable, IInv, [Next]_vars
  PROVE  NoteComplete'
<1>0. NoteComplete /\ note \in Nat /\ Handled \subseteq Handled' /\ base \in Nat
  BY Monotone DEF IInv, Complete, TypeOK, ChainType
<1>1. CASE note' = None
  BY <1>1 DEF NoteComplete
<1>2. CASE UNCHANGED <<note, base>>
  BY <1>0, <1>2 DEF NoteComplete, CompleteTo
<1>3. ASSUME NEW n \in Tx, Deliver(n)
      PROVE  NoteComplete'
  <2>1. note = None /\ pc = "live" /\ note' = n /\ base' = base /\ n \in inflight
    BY <1>3 DEF Deliver, IInv, Control, Queued
  <2>2. \A m \in inflight : n <= m BY <1>3 DEF Deliver
  <2>3. \A t \in Tx : base < t /\ t < n => t \in Handled \cup inflight
    BY <2>1 DEF IInv, Covered, Announced, Pending
  <2>4. \A t \in Tx : base < t /\ t <= n - 1 => t \in Handled'
    BY <1>0, <2>2, <2>3
  <2> QED BY <2>1, <2>4 DEF NoteComplete, CompleteTo
<1>4. note' = None \/ UNCHANGED <<note, base>> \/ \E n \in Tx : Deliver(n)
  <2>1. CASE Anchor BY <2>1, AnchorIdle DEF Anchor
  <2>2. CASE BatchDone BY <2>2 DEF BatchDone, InBatch, Finish
  <2>3. CASE ListFails \/ ItemFails BY <2>3 DEF ListFails, ItemFails, InBatch, Fail
  <2>4. CASE HandleNote \/ HandleFails BY <2>4 DEF HandleNote, HandleFails, Fail, Finish
  <2>5. CASE ~(Anchor \/ BatchDone \/ ListFails \/ ItemFails \/ HandleNote \/ HandleFails)
    BY <2>5 DEF Next, vars, Land, SocketFails, Connecting, ConnectFails, Subscribe, StreamEnds,
         Closed, Reconnect, WatchdogDrops, WatchdogSweeps, Working, List, NextItem, Crash
  <2> QED BY <2>1, <2>2, <2>3, <2>4, <2>5
<1> QED BY <1>1, <1>2, <1>3, <1>4

-----------------------------------------------------------------------------
(***************************************************************************)
(* Covered: what comes before an announcement is dealt with or in hand.    *)
(***************************************************************************)

\* An aborted connection announces nothing, so nothing needs to be covered.
LEMMA ClosedAnnouncesNothing ==
  ASSUME sock' = "closed", inflight' = {}
  PROVE  Covered'
  BY DEF Covered, Announced

\* Nothing that counts as covered is lost while the announcements stay the same.
LEMMA CoveredStays ==
  ASSUME IInv, [Next]_vars, base' = base,
         Announced' \subseteq Announced,
         inflight \cup {note} \cup Pending \subseteq
           Handled' \cup inflight' \cup {note'} \cup Pending' \cup {None}
  PROVE  Covered'
<1>1. Covered /\ Handled \subseteq Handled' BY Monotone DEF IInv
<1> QED BY <1>1 DEF Covered

LEMMA CoveredStep ==
  ASSUME Reliable, IInv, [Next]_vars
  PROVE  Covered'
<1>0. /\ Covered /\ Control /\ landed \in Nat /\ inflight \subseteq Tx /\ note \in Nat
      /\ base \in Nat /\ landed <= MaxTx
  BY DEF IInv, TypeOK, ChainType
<1>1. CASE Land
  <2>1. /\ landed' = landed + 1 /\ base' = base /\ Handled' = Handled /\ note' = note
        /\ Pending' = Pending
    BY <1>1 DEF Land, Handled, Pending, kept
  <2>2. CASE sock = "open"
    <3>1. inflight' = inflight \cup {landed + 1} /\ sock' = "open"
      BY <1>1, <2>2 DEF Land
    <3>2. \A n \in Announced', t \in Tx :
            t < n => t = landed + 1 \/ \E m \in Announced : t < m
      <4>1. \A n \in Announced' : n \in Announced \/ n = landed + 2
        BY <2>1, <2>2, <3>1, <1>0 DEF Announced
      <4>2. landed + 1 \in Announced BY <2>2 DEF Announced
      <4> QED BY <4>1, <4>2, <1>0
    <3> QED BY <1>0, <2>1, <3>1, <3>2 DEF Covered
  <2>3. CASE sock # "open"
    <3>1. inflight' = inflight /\ sock' = sock BY <1>1, <2>3 DEF Land
    <3>2. Announced' = Announced BY <2>3, <3>1 DEF Announced
    <3> QED BY <1>0, <2>1, <3>1, <3>2 DEF Covered
  <2> QED BY <2>2, <2>3
<1>2. ASSUME NEW how \in {"dead", "ended"}, SocketFails(how)
      PROVE  Covered'
  <2>1. /\ base' = base /\ Handled' = Handled /\ note' = note /\ Pending' = Pending
        /\ sock' # "open"
    BY <1>2 DEF SocketFails, Handled, Pending, kept
  <2>2. PICK k \in 0 .. MaxTx : inflight' = {t \in inflight : t <= k} BY <1>2 DEF SocketFails
  <2>3. \A n \in Announced', t \in Tx : t < n /\ t \in inflight => t \in inflight'
    BY <1>0, <2>1, <2>2 DEF Announced
  <2>4. Announced' \subseteq Announced BY <2>1, <2>2 DEF Announced
  <2> QED BY <1>0, <2>1, <2>3, <2>4 DEF Covered
<1>3. CASE Anchor
  BY <1>3, AnchorIdle, ClosedAnnouncesNothing DEF Anchor, net
<1>4. CASE ConnectFails \/ Closed \/ Reconnect
  <2>1. pc # "catchUp" /\ pc' # "catchUp"
    BY <1>4 DEF ConnectFails, Closed, Reconnect, Start
  <2>2. Announced' = Announced /\ Pending' = Pending /\ inflight' = inflight /\ note' = note /\ base' = base
    BY <1>4, <2>1 DEF ConnectFails, Closed, Reconnect, Announced, Pending, net
  <2> QED BY <2>2, CoveredStays
<1>5. CASE Subscribe
  <2>1. last # None BY <1>0, <1>5 DEF Subscribe, Control
  <2>2. Pending' = Tx BY <1>5, <2>1 DEF Subscribe, Asking, Batch, Pending
  <2> QED BY <2>2 DEF Covered
<1>6. CASE StreamEnds \/ WatchdogDrops \/ Crash
  BY <1>6, ClosedAnnouncesNothing DEF StreamEnds, WatchdogDrops, Abort, Crash
<1>7. ASSUME NEW n \in Tx, Deliver(n)
      PROVE  Covered'
  <2>1. note = None /\ Pending = {} BY <1>0, <1>7 DEF Deliver, Control, Queued, Pending
  <2>2. inflight = inflight' \cup {note'} /\ base' = base /\ Announced' \subseteq Announced
    BY <1>7 DEF Deliver, Announced
  <2> QED BY <2>1, <2>2, CoveredStays
<1>8. CASE WatchdogSweeps
  <2>1. pc # "catchUp" BY <1>0, <1>8 DEF WatchdogSweeps, Control
  <2>2. Announced' = Announced /\ Pending' = Pending /\ inflight' = inflight /\ note' = note /\ base' = base
    BY <1>8, <2>1 DEF WatchdogSweeps, Announced, Pending, net
  <2> QED BY <2>2, CoveredStays
<1>9. CASE List
  <2>1. PICK first \in Nat :
          /\ batch.from < first
          /\ batch' = Batch("work", batch.from, first, landed)
          /\ skipped' = skipped \cup ((batch.from + 1) .. (first - 1))
          /\ UNCHANGED <<landed, base, stored, last, cursor, pc, inflight, sock, note>>
    BY <1>9, ListFirst
  <2>2. Announced' = Announced BY <2>1 DEF Announced
  <2>3. CASE pc # "catchUp"
    <3>1. Pending' = Pending BY <2>1, <2>3 DEF Pending
    <3> QED BY <2>1, <2>2, <3>1, CoveredStays
  <2>4. CASE pc = "catchUp"
    <3>1. Pending' = {t \in Tx : first <= t /\ t <= landed}
      BY <2>1, <2>4 DEF Pending, Batch
    <3>2. CompleteTo(batch.from) /\ batch.from \in Nat
      BY <1>9 DEF List, IInv, Complete, BatchComplete, TypeOK, BatchType
    <3>3. \A t \in Tx : base < t /\ t < first => t \in Handled'
      BY <1>0, <2>1, <3>2 DEF CompleteTo, Handled
    <3>4. \A n \in Announced : n <= landed + 1
      BY <1>0 DEF Announced, IInv, Ranges, Unread
    <3>5. \A n \in Announced, t \in Tx : t < n => t <= landed
      <4>1. \A n \in Announced : n \in Nat BY <1>0 DEF Announced
      <4> QED BY <1>0, <3>4, <4>1
    <3>6. \A t \in Tx : t < first \/ first <= t BY <2>1
    <3> QED BY <2>1, <2>2, <3>1, <3>3, <3>5, <3>6 DEF Covered
  <2> QED BY <2>3, <2>4
<1>10. CASE NextItem
  <2>1. Taken(batch.next) /\ batch.next \in Tx
    BY <1>10, BatchItem, ReturnsTakes DEF NextItem, IInv
  <2>2. UNCHANGED <<pc, sock, inflight, landed, note, base>> BY <1>10 DEF NextItem, net
  <2>3. batch' = Batch("work", batch.from, batch.next + 1, batch.upto) /\ batch.phase = "work"
    BY <1>10 DEF NextItem
  <2>4. Announced' = Announced BY <2>2 DEF Announced
  <2>5. Pending \subseteq Pending' \cup {batch.next}
    BY <2>1, <2>2, <2>3 DEF Pending, Batch
  <2>6. batch.next \in Handled' BY <2>1 DEF Taken
  <2> QED BY <2>2, <2>4, <2>5, <2>6, CoveredStays
<1>11. CASE ListFails \/ ItemFails
  <2>1. CASE running = "catchUp"
    BY <1>11, <2>1, ClosedAnnouncesNothing DEF ListFails, ItemFails, Fail, Abort
  <2>2. CASE running = "sweep"
    <3>1. UNCHANGED <<pc, sock, inflight, landed, note, base>>
      BY <1>11, <2>2 DEF ListFails, ItemFails, Fail, net
    <3>2. pc # "catchUp" BY <1>0, <2>2 DEF Control, Queued
    <3>3. Announced' = Announced /\ Pending' = Pending BY <3>1, <3>2 DEF Announced, Pending
    <3> QED BY <3>1, <3>3, CoveredStays
  <2> QED BY <1>11, <2>1, <2>2 DEF ListFails, ItemFails, InBatch
<1>12. CASE BatchDone
  <2>1. UNCHANGED <<sock, inflight, landed, note, base>>
    BY <1>12 DEF BatchDone, InBatch, Finish, net
  <2>2. Pending = {}
    <3>1. batch.next \in Nat /\ batch.upto \in Nat BY DEF IInv, TypeOK, BatchType
    <3> QED BY <1>12, <3>1 DEF BatchDone, Pending
  <2>3. Announced' = Announced BY <2>1 DEF Announced
  <2> QED BY <2>1, <2>2, <2>3, CoveredStays
<1>13. CASE HandleNote
  <2>1. note \in Handled' BY <1>13, NoteItem, ReturnsTakes DEF HandleNote, IInv, Taken
  <2>2. UNCHANGED <<sock, inflight, landed, base>>
    BY <1>13 DEF HandleNote, Finish, net
  <2>3. pc # "catchUp" BY <1>0, <1>13 DEF HandleNote, Control, Queued
  <2>4. Pending = {} /\ Announced' = Announced BY <2>2, <2>3 DEF Pending, Announced
  <2> QED BY <2>1, <2>2, <2>4, CoveredStays
<1>14. CASE HandleFails
  BY <1>14, ClosedAnnouncesNothing DEF HandleFails, Fail, Abort
<1>15. CASE UNCHANGED vars
  <2>1. Announced' = Announced /\ Pending' = Pending /\ inflight' = inflight /\ note' = note /\ base' = base
    BY <1>15 DEF vars, Announced, Pending, net
  <2> QED BY <2>1, CoveredStays
<1> QED BY <1>1, <1>2, <1>3, <1>4, <1>5, <1>6, <1>7, <1>8, <1>9, <1>10, <1>11, <1>12,
           <1>13, <1>14, <1>15 DEF Next, Connecting, Working

LEMMA StepInv ==
  ASSUME Reliable, IInv, [Next]_vars
  PROVE  IInv'
<1>1. TypeOK' BY LoopTypeStep, ChainTypeStep, BatchTypeStep, StoreTypeStep DEF TypeOK
<1>2. Ranges' BY BoundsStep, UnreadStep, BatchBoundsStep DEF Ranges
<1>3. Complete' BY GapFreeStep, BatchCompleteStep, NoteCompleteStep DEF Complete
<1> QED BY <1>1, <1>2, <1>3, ControlStep, CoveredStep DEF IInv

-----------------------------------------------------------------------------
(***************************************************************************)
(* The theorems.                                                           *)
(***************************************************************************)

\* The inductive invariant holds of every behaviour of runIndexer over a reliable
\* stream and a program that had a transaction to anchor at.
THEOREM Invariance ==
  ASSUME Reliable, InitialTx # None
  PROVE  Spec => []IInv
<1>1. Init => IInv BY InitInv
<1>2. IInv /\ [Next]_vars => IInv' BY StepInv
<1> QED BY <1>1, <1>2, PTL DEF Spec

\* runIndexer's state keeps its type: no count of failed reads reaches READ_ATTEMPTS,
\* and nothing outside the chain is ever remembered or stored.
THEOREM TypeCorrect ==
  ASSUME Reliable, InitialTx # None
  PROVE  Spec => []TypeOK
<1>1. IInv => TypeOK BY DEF IInv
<1> QED BY <1>1, Invariance, PTL

\* `last` never moves past a transaction that was neither stored nor logged as not
\* indexed: a dropped socket, a failed read or a full queue is not a silent gap.
THEOREM NoGap ==
  ASSUME Reliable, InitialTx # None
  PROVE  Spec => []NoSilentGap
<1>1. IInv => NoSilentGap BY DEF IInv, Complete
<1> QED BY <1>1, Invariance, PTL

\* Nor does the cursor in the database, at whatever point the process dies.
THEOREM CursorHasNoGap ==
  ASSUME Reliable, InitialTx # None
  PROVE  Spec => []CursorComplete
<1>1. IInv => CursorComplete BY DEF IInv, Complete
<1> QED BY <1>1, Invariance, PTL

\* onLive's promise: while the socket of a live connection works, every transaction
\* after the anchor is dealt with, announced, or in hand.
THEOREM LiveIsComplete ==
  ASSUME Reliable, InitialTx # None
  PROVE  Spec => []LiveMissesNothing
<1>1. IInv => LiveMissesNothing
  <2> SUFFICES ASSUME IInv, live, sock = "open", NEW t \in Tx, base < t, t <= landed
               PROVE  t \in Handled \cup inflight \cup {note}
    BY DEF LiveMissesNothing
  <2>1. Pending = {} BY DEF IInv, Control, Pending
  <2>2. landed + 1 \in Announced BY DEF Announced
  <2>3. t < landed + 1 BY DEF IInv, TypeOK, ChainType
  <2> QED BY <2>1, <2>2, <2>3 DEF IInv, Covered
<1> QED BY <1>1, Invariance, PTL

-----------------------------------------------------------------------------
(***************************************************************************)
(* The loop implements LogFollower.                                        *)
(***************************************************************************)

\* What one call of handle does to the feed and the reports.
LEMMA HandleEffect ==
  ASSUME NEW t \in Tx, Returns(t) \/ Throws(t)
  PROVE  \/ UNCHANGED <<stored, skipped>>
         \/ stored' = stored \cup {t} /\ skipped' = skipped
         \/ stored' = stored /\ skipped' = skipped \cup {t}
  BY DEF Returns, Throws, AlreadyHandled, ReadAndStored, NotServed, GivenUp, Refused,
         ReadFailed, SinkFailed, Write, kept

\* A call of handle for the next transaction is a step of the follower, or none.
LEMMA HandleFollows ==
  ASSUME NEW t \in Tx, base < t, t <= landed, CompleteTo(t - 1),
         UNCHANGED <<landed, base>>, Returns(t) \/ Throws(t), base \in Nat
  PROVE  [Follower!Next]_Follower!logVars
<1> USE DEF Follower!Tx
<1>1. Follower!ReachedUpTo(t)
  BY DEF Follower!ReachedUpTo, CompleteTo, Handled
<1>2. CASE UNCHANGED <<stored, skipped>>
  BY <1>2 DEF Follower!logVars
<1>3. CASE stored' = stored \cup {t} /\ skipped' = skipped
  BY <1>1, <1>3 DEF Follower!Next, Follower!Index
<1>4. CASE stored' = stored /\ skipped' = skipped \cup {t}
  <2>1. skipped' \ stored' = (skipped \ stored) \cup ((t .. t) \ stored) BY <1>4
  <2> QED BY <1>1, <1>4, <2>1 DEF Follower!Next, Follower!Report
<1> QED BY <1>2, <1>3, <1>4, HandleEffect

LEMMA StepFollows ==
  ASSUME IInv, [Next]_vars
  PROVE  [Follower!Next]_Follower!logVars
<1> USE DEF Follower!Tx
<1>0. landed \in Nat /\ base \in Nat /\ landed <= MaxTx BY DEF IInv, TypeOK, ChainType
<1>1. CASE Land
  BY <1>1 DEF Land, Follower!Next, Follower!Grow, kept
<1>2. CASE Anchor
  <2>1. stored = {} BY <1>2, AnchorIdle DEF IInv, Ranges, Bounds
  <2> QED BY <1>2, <2>1 DEF Anchor, Follower!Next, Follower!AnchorAgain, kept
<1>3. CASE List
  <2>1. PICK first \in Nat :
          /\ batch.from < first
          /\ batch' = Batch("work", batch.from, first, landed)
          /\ skipped' = skipped \cup ((batch.from + 1) .. (first - 1))
          /\ UNCHANGED <<landed, base, stored>>
          /\ first - 1 <= landed \/ first = batch.from + 1
    <3> DEFINE f == IF landed > batch.from + CatchUpCap
                    THEN landed - CatchUpCap + 1 ELSE batch.from + 1
    <3>1. batch.from \in Nat BY DEF IInv, TypeOK, BatchType
    <3>2. f \in Nat /\ batch.from < f /\ (f - 1 <= landed \/ f = batch.from + 1) BY <1>0, <3>1
    <3>3. /\ batch' = Batch("work", batch.from, f, landed)
          /\ skipped' = skipped \cup ((batch.from + 1) .. (f - 1))
          /\ UNCHANGED <<landed, base, stored>>
      BY <1>3 DEF List, kept
    <3> HIDE DEF f
    <3> QED BY <3>2, <3>3
  <2>2. base <= batch.from /\ CompleteTo(batch.from) /\ batch.from \in Nat
    BY <1>3 DEF List, IInv, Ranges, BatchBounds, Complete, BatchComplete, TypeOK, BatchType
  <2>3. CASE first = batch.from + 1
    <3>1. skipped' = skipped BY <2>1, <2>2, <2>3
    <3> QED BY <2>1, <3>1 DEF Follower!logVars
  <2>4. CASE first # batch.from + 1
    <3>1. batch.from + 1 \in Tx /\ first - 1 \in Tx /\ first - 1 <= landed
      BY <1>0, <2>1, <2>2, <2>4
    <3>2. Follower!ReachedUpTo(batch.from + 1)
      BY <2>2 DEF Follower!ReachedUpTo, CompleteTo, Handled
    <3>3. skipped' \ stored' = (skipped \ stored) \cup (((batch.from + 1) .. (first - 1)) \ stored)
      BY <2>1
    <3>4. Follower!Report(batch.from + 1, first - 1)
      BY <1>0, <2>1, <2>2, <3>1, <3>2, <3>3 DEF Follower!Report
    <3> QED BY <3>1, <3>4 DEF Follower!Next
  <2> QED BY <2>3, <2>4
<1>4. CASE NextItem \/ ItemFails
  <2>1. Returns(batch.next) \/ Throws(batch.next) BY <1>4 DEF NextItem, ItemFails
  <2>2. UNCHANGED <<landed, base>> BY <1>4 DEF NextItem, ItemFails
  <2>3. /\ batch.next \in Tx /\ base < batch.next /\ batch.next <= landed
        /\ CompleteTo(batch.next - 1)
    BY <1>4, BatchItem DEF NextItem, ItemFails
  <2> QED BY <1>0, <2>1, <2>2, <2>3, HandleFollows
<1>5. CASE HandleNote \/ HandleFails
  <2>1. Returns(note) \/ Throws(note) BY <1>5 DEF HandleNote, HandleFails
  <2>2. UNCHANGED <<landed, base>> BY <1>5 DEF HandleNote, HandleFails
  <2>3. /\ note \in Tx /\ base < note /\ note <= landed
        /\ CompleteTo(note - 1)
    BY <1>5, NoteItem DEF HandleNote, HandleFails
  <2> QED BY <1>0, <2>1, <2>2, <2>3, HandleFollows
<1>6. CASE ~(Land \/ Anchor \/ List \/ NextItem \/ ItemFails \/ HandleNote \/ HandleFails)
  <2>1. UNCHANGED <<landed, base, stored, skipped>>
    BY <1>6 DEF Next, vars, SocketFails, Connecting, ConnectFails, Subscribe, StreamEnds,
         Closed, Reconnect, Deliver, WatchdogDrops, WatchdogSweeps, Working, ListFails,
         BatchDone, Crash, kept
  <2> QED BY <2>1 DEF Follower!logVars
<1> QED BY <1>1, <1>2, <1>3, <1>4, <1>5, <1>6

\* The loop implements the follower of a log: after the anchor every transaction is
\* taken in order, into the feed or into the report of what was not indexed.
THEOREM ImplementsFollower ==
  ASSUME Reliable, InitialTx # None
  PROVE  Spec => Follows
<1>1. Init => Follower!Init BY DEF Init, Follower!Init
<1>2. IInv /\ [Next]_vars => [Follower!Next]_Follower!logVars BY StepFollows
<1> QED BY <1>1, <1>2, Invariance, PTL DEF Spec, Follows, Follower!Spec
=============================================================================
