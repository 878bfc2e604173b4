---------------------------- MODULE IndexerLoop ----------------------------
(***************************************************************************)
(* The indexer's log loop (apps/indexer/src/subscribe.ts): a websocket     *)
(* subscription, the catch-up that runs after every reconnect, the         *)
(* watchdog that sweeps the node's history while the connection is live,   *)
(* the queue that runs their work one task at a time, and the sink that    *)
(* stores a transaction together with the cursor.                          *)
(*                                                                         *)
(* A transaction is its position in the program's history, 1 the oldest;   *)
(* position 0 stands for `null`, "no transaction".                         *)
(***************************************************************************)
EXTENDS Naturals, Sequences

CONSTANTS
  MaxTx,          \* bound: transactions that ever land
  InitialTx,      \* transactions on the chain before the indexer first runs
  Slot,           \* the slot of each transaction; several may share one
  Bad,            \* transactions the node or the decoder never yields
  ReadAttempts,   \* READ_ATTEMPTS
  CatchUpCap,     \* CATCH_UP_PAGE * CATCH_UP_MAX_PAGES
  RecentCap,      \* capacity of RecentSignatures
  MaxFaults,      \* bound: failures of the environment and crashes
  Reliable        \* the stream drops nothing in the middle and keeps the order

None == 0
Tx   == 1 .. MaxTx

ASSUME BoundAssumption ==
  /\ MaxTx \in Nat
  /\ InitialTx \in 0 .. MaxTx
  /\ MaxFaults \in Nat
  /\ ReadAttempts \in Nat \ {0}
  /\ CatchUpCap \in Nat \ {0}
  /\ RecentCap \in Nat \ {0}

ASSUME ChainAssumption ==
  /\ Slot \in [Tx -> Nat]
  /\ \A t, u \in Tx : t <= u => Slot[t] <= Slot[u]
  /\ Bad \subseteq Tx
  /\ Reliable \in BOOLEAN

VARIABLES
  landed,        \* the newest confirmed transaction of the program
  sock,          \* the subscription: "closed", "open", "dead" (silent), "ended"
  inflight,      \* notifications sent and not yet taken by the loop
  pc,            \* where runIndexer's main loop is
  aborted,       \* connection.signal.aborted
  watch,         \* the watchdog: "off", "pausing", "sweeping"
  running,       \* serialQueue: the task being run, or "none"
  waiting,       \* serialQueue: the task behind it, or "none"
  batch,         \* the catch-up or sweep that is running or waiting
  note,          \* the notification the loop is handling, or None
  last,          \* newest transaction handled
  recent,        \* RecentSignatures
  readFailures,  \* failed reads per transaction
  sweptOnly,     \* found by a sweep and not yet delivered by the stream
  live,          \* what onLive was told
  stored,        \* transactions committed by the sink
  cursor,        \* the persisted cursor, or None
  base,          \* history: the anchor completeness counts from
  skipped,       \* history: transactions logged as not indexed
  against,       \* history: what speaks against indexing each transaction
  faults         \* history: faults so far

net    == <<sock, inflight>>
memory == <<last, recent, readFailures>>
kept   == <<stored, cursor, against>>
queue  == <<running, waiting>>
vars   == <<landed, net, pc, aborted, watch, queue, batch, note, memory,
            sweptOnly, live, kept, base, skipped, faults>>

Tasks   == {"none", "catchUp", "sweep", "handle"}
Handled == stored \cup skipped
Batch(phase, from, next, upto) ==
  [phase |-> phase, from |-> from, next |-> next, upto |-> upto]
NoBatch    == Batch("none", None, 0, 0)
Asking(from) == Batch("ask", from, 0, 0)

\* A failure of the environment, of which a behaviour has at most MaxFaults.
Fault == faults < MaxFaults /\ faults' = faults + 1

LoopType ==
  /\ sock \in {"closed", "open", "dead", "ended"}
  /\ pc \in {"anchor", "open", "catchUp", "live", "handling", "closing", "backoff"}
  /\ aborted \in BOOLEAN /\ live \in BOOLEAN
  /\ watch \in {"off", "pausing", "sweeping"}
  /\ running \in Tasks /\ waiting \in Tasks

ChainType ==
  /\ landed \in 0 .. MaxTx /\ base \in 0 .. MaxTx
  /\ note \in 0 .. MaxTx
  /\ inflight \subseteq Tx /\ sweptOnly \subseteq Tx

BatchType ==
  batch \in [phase : {"none", "ask", "work"}, from : 0 .. MaxTx,
             next : Nat, upto : 0 .. MaxTx]

StoreType ==
  /\ last \in 0 .. MaxTx /\ cursor \in 0 .. MaxTx
  /\ recent \in Seq(Tx)
  /\ readFailures \in [Tx -> 0 .. ReadAttempts - 1]
  /\ stored \subseteq Tx /\ skipped \subseteq Tx
  /\ against \in [Tx -> 0 .. ReadAttempts]
  /\ faults \in 0 .. MaxFaults

TypeOK == LoopType /\ ChainType /\ BatchType /\ StoreType

\* Where an iteration of the main loop starts.
Start(from) == IF from = None THEN "anchor" ELSE "open"

Init ==
  /\ landed = InitialTx
  /\ sock = "closed" /\ inflight = {}
  /\ pc = Start(None)
  /\ aborted = FALSE
  /\ watch = "off"
  /\ running = "none" /\ waiting = "none"
  /\ batch = NoBatch
  /\ note = None
  /\ last = None
  /\ recent = <<>>
  /\ readFailures = [t \in Tx |-> 0]
  /\ sweptOnly = {}
  /\ live = FALSE
  /\ stored = {} /\ cursor = None
  /\ base = InitialTx
  /\ skipped = {}
  /\ against = [t \in Tx |-> 0]
  /\ faults = 0

-----------------------------------------------------------------------------
(***************************************************************************)
(* The node and its socket (external).                                     *)
(***************************************************************************)

\* A transaction of the program is confirmed; an open socket announces it. An
\* unreliable stream may drop this one announcement and carry on.
Land ==
  /\ landed < MaxTx
  /\ landed' = landed + 1
  /\ \/ /\ sock = "open"
        /\ inflight' = inflight \cup {landed + 1}
     \/ /\ sock # "open" \/ ~Reliable
        /\ UNCHANGED inflight
  /\ UNCHANGED <<sock, pc, aborted, watch, queue, batch, note, memory,
                 sweptOnly, live, kept, base, skipped, faults>>

\* The socket goes silent ("dead") or goes away ("ended"); what it had sent last
\* may be lost with it.
SocketFails(how) ==
  /\ sock \in {"open", "dead"} \ {how}
  /\ Fault
  /\ sock' = how
  /\ \E k \in 0 .. MaxTx : inflight' = {t \in inflight : t <= k}
  /\ UNCHANGED <<landed, pc, aborted, watch, queue, batch, note, memory,
                 sweptOnly, live, kept, base, skipped>>

-----------------------------------------------------------------------------
(***************************************************************************)
(* handle(item): what one call can do. Each alternative gives the next     *)
(* value of memory, kept, skipped and faults.                                *)
(***************************************************************************)
Known(t) == \E i \in DOMAIN recent : recent[i] = t

\* RecentSignatures.add and the update of `last`.
Remember(t) ==
  /\ recent' = LET grown == Append(recent, t)
               IN  IF Len(grown) > RecentCap THEN Tail(grown) ELSE grown
  /\ last' = IF last = None THEN t
             ELSE IF Slot[t] >= Slot[last] THEN t ELSE last

\* store.write: the feed rows and the cursor in one database transaction.
Write(t) ==
  /\ stored' = stored \cup {t}
  /\ cursor' = IF cursor = None THEN t
               ELSE IF Slot[cursor] <= Slot[t] THEN t ELSE cursor
  /\ UNCHANGED against

ForgetFailures(t) == readFailures' = [readFailures EXCEPT ![t] = 0]

\* History: one more failed read, or as much as READ_ATTEMPTS of them.
Counted(t)      == against' = [against EXCEPT ![t] = IF @ < ReadAttempts THEN @ + 1 ELSE @]
Decisive(those) == against' = [t \in Tx |-> IF t \in those THEN ReadAttempts ELSE against[t]]

\* A read that fails costs a fault unless the transaction is one that cannot be read.
ReadError(t) == IF t \in Bad THEN UNCHANGED faults ELSE Fault

AlreadyHandled(t) == Known(t) /\ UNCHANGED <<memory, kept, skipped, faults>>

ReadAndStored(t) ==
  /\ ~Known(t) /\ t \notin Bad
  /\ Write(t) /\ Remember(t) /\ ForgetFailures(t)
  /\ UNCHANGED <<skipped, faults>>

\* Ten answers of `null`: the node does not serve it, and may never have.
NotServed(t) ==
  /\ ~Known(t) /\ ReadError(t)
  /\ skipped' = skipped \cup {t}
  /\ Remember(t) /\ ForgetFailures(t)
  /\ Decisive({t})
  /\ UNCHANGED <<stored, cursor>>

\* The last of READ_ATTEMPTS errors that are not HTTP refusals.
GivenUp(t) ==
  /\ ~Known(t) /\ readFailures[t] + 1 = ReadAttempts
  /\ ReadError(t)
  /\ skipped' = skipped \cup {t}
  /\ Remember(t) /\ ForgetFailures(t)
  /\ Counted(t)
  /\ UNCHANGED <<stored, cursor>>

Returns(t) == AlreadyHandled(t) \/ ReadAndStored(t) \/ NotServed(t) \/ GivenUp(t)

\* Mutant of Refused: a rate limit is taken for an unreadable transaction.
RefusedGivesUp(t) ==
  /\ ~Known(t) /\ Fault
  /\ skipped' = skipped \cup {t}
  /\ Remember(t) /\ ForgetFailures(t)
  /\ UNCHANGED kept

\* The node refuses the read (429, 5xx): not counted against the transaction.
Refused(t) == ~Known(t) /\ Fault /\ UNCHANGED <<memory, kept, skipped>>

\* Mutant of ReadFailed: the count has no limit.
ReadFailedUnlimited(t) ==
  /\ ~Known(t)
  /\ ReadError(t)
  /\ readFailures' = [readFailures EXCEPT ![t] = @ + 1]
  /\ Counted(t)
  /\ UNCHANGED <<last, recent, stored, cursor, skipped>>

\* An error that is counted, below the limit.
ReadFailed(t) ==
  /\ ~Known(t) /\ readFailures[t] + 1 < ReadAttempts
  /\ ReadError(t)
  /\ readFailures' = [readFailures EXCEPT ![t] = @ + 1]
  /\ Counted(t)
  /\ UNCHANGED <<last, recent, stored, cursor, skipped>>

\* Mutant of SinkFailed: the item is remembered before the sink is awaited.
SinkFailedRemembered(t) ==
  /\ ~Known(t) /\ t \notin Bad /\ Fault
  /\ ForgetFailures(t) /\ Remember(t)
  /\ Write(t) \/ UNCHANGED kept
  /\ UNCHANGED skipped

\* The sink throws: the database transaction rolled back, or it committed and
\* the answer was lost.
SinkFailed(t) ==
  /\ ~Known(t) /\ t \notin Bad /\ Fault
  /\ ForgetFailures(t)
  /\ Write(t) \/ UNCHANGED kept
  /\ UNCHANGED <<last, recent, skipped>>

Throws(t) == Refused(t) \/ ReadFailed(t) \/ SinkFailed(t)

-----------------------------------------------------------------------------
(***************************************************************************)
(* The main loop.                                                          *)
(***************************************************************************)

\* serialQueue: the loop and the watchdog each await their task, so there is one
\* place to run in and one to wait in.
Enqueue(task) ==
  IF running = "none" THEN running' = task /\ UNCHANGED waiting
                      ELSE waiting' = task /\ UNCHANGED running

Dequeue == running' = waiting /\ waiting' = "none"

\* connection.abort(): the subscription closes and a pausing watchdog returns;
\* one whose sweep is queued or running returns when that sweep ends.
Abort ==
  /\ aborted' = TRUE
  /\ sock' = "closed" /\ inflight' = {}

WatchAfterAbort == IF watch = "sweeping" THEN "sweeping" ELSE "off"

\* The newest transaction becomes the anchor when there is nothing to resume from.
Anchor ==
  /\ pc = "anchor"
  /\ last' = landed
  /\ base' = landed
  /\ pc' = "open"
  /\ UNCHANGED <<landed, net, aborted, watch, queue, batch, note, recent,
                 readFailures, sweptOnly, live, kept, skipped, faults>>

\* The anchor cannot be read, or the subscription is refused or misses its deadline.
ConnectFails ==
  /\ pc \in {"anchor", "open"}
  /\ Fault
  /\ pc' = "backoff"
  /\ UNCHANGED <<landed, net, aborted, watch, queue, batch, note, memory,
                 sweptOnly, live, kept, base, skipped>>

\* The connection is live and its watchdog starts.
GoLive ==
  /\ pc' = "live"
  /\ live' = TRUE
  /\ watch' = "pausing"
  /\ sweptOnly' = {}

\* Mutant of Subscribe: no catch-up after a reconnect.
SubscribeWithoutCatchUp ==
  /\ pc = "open"
  /\ sock' = "open" /\ inflight' = {}
  /\ aborted' = FALSE
  /\ GoLive /\ UNCHANGED <<queue, batch>>
  /\ UNCHANGED <<landed, note, memory, kept, base, skipped, faults>>

\* The subscription is open; the catch-up follows when there is somewhere to start.
Subscribe ==
  /\ pc = "open"
  /\ sock' = "open" /\ inflight' = {}
  /\ aborted' = FALSE
  /\ IF last = None
     THEN GoLive /\ UNCHANGED <<queue, batch>>
     ELSE /\ pc' = "catchUp"
          /\ Enqueue("catchUp")
          /\ batch' = Asking(last)
          /\ UNCHANGED <<live, watch, sweptOnly>>
  /\ UNCHANGED <<landed, note, memory, kept, base, skipped, faults>>

\* The loop takes the next notification and queues its handling.
Deliver(n) ==
  /\ pc = "live" /\ ~aborted
  /\ n \in inflight
  /\ Reliable => \A m \in inflight : n <= m
  /\ inflight' = inflight \ {n}
  /\ sweptOnly' = sweptOnly \ {n}
  /\ note' = n
  /\ Enqueue("handle")
  /\ pc' = "handling"
  /\ UNCHANGED <<landed, sock, aborted, watch, batch, memory, live, kept, base,
                 skipped, faults>>

\* The iterator is done: the socket ended, or the connection was aborted.
StreamEnds ==
  /\ pc = "live"
  /\ aborted \/ (sock = "ended" /\ inflight = {})
  /\ pc' = "closing"
  /\ Abort
  /\ watch' = WatchAfterAbort
  /\ UNCHANGED <<landed, queue, batch, note, memory, sweptOnly, live, kept, base,
                 skipped, faults>>

\* The watchdog has returned: onLive(false), then the reconnect delay.
Closed ==
  /\ pc = "closing" /\ watch = "off"
  /\ pc' = "backoff"
  /\ live' = FALSE
  /\ UNCHANGED <<landed, net, aborted, watch, queue, batch, note, memory,
                 sweptOnly, kept, base, skipped, faults>>

Reconnect ==
  /\ pc = "backoff"
  /\ pc' = Start(last)
  /\ UNCHANGED <<landed, net, aborted, watch, queue, batch, note, memory,
                 sweptOnly, live, kept, base, skipped, faults>>

-----------------------------------------------------------------------------
(***************************************************************************)
(* The watchdog's timer.                                                   *)
(***************************************************************************)

\* An interval has passed since the last sweep ended, so every entry of
\* sweptOnly is overdue.
WatchdogDrops ==
  /\ watch = "pausing" /\ ~aborted
  /\ sweptOnly # {}
  /\ Abort
  /\ watch' = "off"
  /\ UNCHANGED <<landed, pc, queue, batch, note, memory, sweptOnly, live, kept,
                 base, skipped, faults>>

WatchdogSweeps ==
  /\ watch = "pausing" /\ ~aborted
  /\ sweptOnly = {} /\ last # None
  /\ watch' = "sweeping"
  /\ Enqueue("sweep")
  /\ batch' = Asking(last)
  /\ UNCHANGED <<landed, net, pc, aborted, note, memory, sweptOnly, live, kept,
                 base, skipped, faults>>

-----------------------------------------------------------------------------
(***************************************************************************)
(* The serial queue: steps of the task at its head.                        *)
(***************************************************************************)

InBatch == running \in {"catchUp", "sweep"}

\* How a task that finished or threw leaves the queue, and who was waiting for it.
Finish(task) ==
  /\ Dequeue
  /\ CASE task = "catchUp" -> GoLive /\ batch' = NoBatch /\ UNCHANGED <<net, aborted, note>>
       [] task = "sweep"   -> /\ watch' = IF aborted THEN "off" ELSE "pausing"
                              /\ batch' = NoBatch
                              /\ UNCHANGED <<net, aborted, note, pc, live, sweptOnly>>
       [] task = "handle"  -> /\ pc' = "live" /\ note' = None
                              /\ UNCHANGED <<net, aborted, watch, batch, live, sweptOnly>>

\* Mutant of Fail: the loop swallows what handle threw and stays live.
FailSwallowed(task) ==
  /\ Dequeue
  /\ UNCHANGED <<live, net, aborted>>
  /\ CASE task = "sweep" -> /\ watch' = IF aborted THEN "off" ELSE "pausing"
                            /\ batch' = NoBatch
                            /\ UNCHANGED <<note, pc>>
       [] OTHER          -> /\ pc' = IF task = "handle" THEN "live" ELSE "closing"
                            /\ UNCHANGED watch
                            /\ note' = None
                            /\ batch' = IF task = "catchUp" THEN NoBatch ELSE batch

\* Mutant of Fail: a sweep that throws ends the watchdog.
FailEndsWatchdog(task) ==
  /\ Dequeue
  /\ UNCHANGED live
  /\ CASE task = "sweep" -> /\ watch' = "off"
                            /\ batch' = NoBatch
                            /\ UNCHANGED <<net, aborted, note, pc>>
       [] OTHER          -> /\ pc' = "closing"
                            /\ Abort
                            /\ watch' = WatchAfterAbort
                            /\ note' = None
                            /\ batch' = IF task = "catchUp" THEN NoBatch ELSE batch

Fail(task) ==
  /\ Dequeue
  /\ UNCHANGED live
  /\ CASE task = "sweep" -> /\ watch' = IF aborted THEN "off" ELSE "pausing"
                            /\ batch' = NoBatch
                            /\ UNCHANGED <<net, aborted, note, pc>>
       [] OTHER          -> /\ pc' = "closing"
                            /\ Abort
                            /\ watch' = WatchAfterAbort
                            /\ note' = None
                            /\ batch' = IF task = "catchUp" THEN NoBatch ELSE batch

\* signaturesSince(until = from): at most CatchUpCap of the newest; a longer gap is
\* logged, and its oldest part is left unindexed.
List ==
  /\ InBatch /\ batch.phase = "ask"
  /\ LET first == IF landed > batch.from + CatchUpCap
                  THEN landed - CatchUpCap + 1 ELSE batch.from + 1
     IN  /\ batch' = Batch("work", batch.from, first, landed)
         /\ skipped' = skipped \cup ((batch.from + 1) .. (first - 1))
         /\ Decisive((batch.from + 1) .. (first - 1))
  /\ UNCHANGED <<landed, net, pc, aborted, watch, queue, note, memory, sweptOnly,
                 live, stored, cursor, base, faults>>

ListFails ==
  /\ InBatch /\ batch.phase = "ask"
  /\ Fault
  /\ Fail(running)
  /\ UNCHANGED <<landed, memory, sweptOnly, kept, base, skipped>>

\* Mutant of Found: asked after the item was handled, when recent already knows it.
FoundAfterHandling(task, t) ==
  sweptOnly' = IF task = "sweep" /\ t \notin Handled \cup {t} THEN sweptOnly \cup {t}
               ELSE sweptOnly

\* sweep.found(item), before the item is handled.
Found(task, t) ==
  sweptOnly' = IF task = "sweep" /\ ~Known(t) THEN sweptOnly \cup {t} ELSE sweptOnly

\* Mutant of NextItem: the missed transactions are handled newest first.
NextItemNewestFirst ==
  /\ InBatch /\ batch.phase = "work" /\ batch.next <= batch.upto
  /\ Returns(batch.upto)
  /\ Found(running, batch.upto)
  /\ batch' = Batch("work", batch.from, batch.next, batch.upto - 1)
  /\ UNCHANGED <<landed, net, pc, aborted, watch, queue, note, live, base>>

NextItem ==
  /\ InBatch /\ batch.phase = "work" /\ batch.next <= batch.upto
  /\ Returns(batch.next)
  /\ Found(running, batch.next)
  /\ batch' = Batch("work", batch.from, batch.next + 1, batch.upto)
  /\ UNCHANGED <<landed, net, pc, aborted, watch, queue, note, live, base>>

ItemFails ==
  /\ InBatch /\ batch.phase = "work" /\ batch.next <= batch.upto
  /\ Throws(batch.next)
  /\ Found(running, batch.next)
  /\ Fail(running)
  /\ UNCHANGED <<landed, base>>

BatchDone ==
  /\ InBatch /\ batch.phase = "work" /\ batch.next > batch.upto
  /\ Finish(running)
  /\ UNCHANGED <<landed, memory, kept, base, skipped, faults>>

HandleNote ==
  /\ running = "handle"
  /\ Returns(note)
  /\ Finish("handle")
  /\ UNCHANGED <<landed, base>>

HandleFails ==
  /\ running = "handle"
  /\ Throws(note)
  /\ Fail("handle")
  /\ UNCHANGED <<landed, sweptOnly, base>>

-----------------------------------------------------------------------------
\* The process dies or is stopped at any point and starts again from the cursor.
Crash ==
  /\ Fault
  /\ sock' = "closed" /\ inflight' = {}
  /\ pc' = Start(cursor)
  /\ aborted' = FALSE /\ watch' = "off" /\ live' = FALSE
  /\ running' = "none" /\ waiting' = "none" /\ batch' = NoBatch /\ note' = None
  /\ last' = cursor /\ recent' = <<>> /\ readFailures' = [t \in Tx |-> 0]
  /\ sweptOnly' = {}
  /\ UNCHANGED <<landed, kept, base, skipped>>

Connecting == Anchor \/ ConnectFails \/ Subscribe \/ StreamEnds \/ Closed \/ Reconnect
Working    == List \/ ListFails \/ NextItem \/ ItemFails \/ BatchDone
                \/ HandleNote \/ HandleFails

Next ==
  \/ Land
  \/ SocketFails("dead") \/ SocketFails("ended")
  \/ Connecting
  \/ \E n \in Tx : Deliver(n)
  \/ WatchdogDrops \/ WatchdogSweeps
  \/ Working
  \/ Crash

Spec == Init /\ [][Next]_vars

(***************************************************************************)
(* The event loop runs every task, timer and socket callback it is due;    *)
(* nothing obliges transactions to land or faults to happen.               *)
(***************************************************************************)
Fairness ==
  /\ WF_vars(Anchor) /\ WF_vars(Subscribe) /\ WF_vars(StreamEnds)
  /\ WF_vars(Closed) /\ WF_vars(Reconnect)
  /\ WF_vars(\E n \in Tx : Deliver(n))
  /\ WF_vars(WatchdogDrops) /\ WF_vars(WatchdogSweeps)
  /\ WF_vars(Working)

FairSpec == Spec /\ Fairness

-----------------------------------------------------------------------------
(***************************************************************************)
(* What the loop promises.                                                 *)
(***************************************************************************)

\* Every transaction after the anchor and up to n is stored or was logged as not indexed.
CompleteTo(n) == \A t \in Tx : base < t /\ t <= n => t \in Handled

\* "A dropped socket must not be a silent gap": runIndexer moves `last`, the point
\* every later catch-up and sweep starts from, only over transactions it has dealt with.
NoSilentGap == CompleteTo(last)

\* The persisted cursor, the point a restart resumes from, has no unstored and
\* unreported transaction behind it, whatever crashed in between.
CursorComplete == CompleteTo(cursor)

\* onLive(true): "from then on every new transaction reaches the sink". While the
\* socket of a live connection works, every transaction is dealt with, announced, or in hand.
LiveMissesNothing ==
  live /\ sock = "open" =>
    \A t \in Tx : base < t /\ t <= landed => t \in Handled \cup inflight \cup {note}

\* "A network blip must not cost an event": every transaction after the anchor is stored
\* in the end, through dead sockets, refused reads, a failing database and restarts, or was
\* reported for one of the code's three reasons: READ_ATTEMPTS failed reads were counted
\* against it, the node answered `null` ten times, or a catch-up at its cap left it out. A
\* restart with no cursor anchors anew.
EveryTransactionHandled ==
  \A t \in Tx :
    (base < t /\ t <= landed)
      ~> \/ t \in stored \/ t <= base
         \/ t \in skipped /\ against[t] = ReadAttempts

\* A live connection whose socket died silently is dropped once it has missed a transaction.
DeadSocketReplaced ==
  (live /\ sock = "dead" /\ \E t \in Tx :
     base < t /\ t <= landed /\ t \notin Handled \cup inflight \cup {note})
    ~> (sock # "dead")

\* Both: what failed is made good again.
Recovers == EveryTransactionHandled /\ DeadSocketReplaced

-----------------------------------------------------------------------------
(***************************************************************************)
(* Why NoSilentGap and CursorComplete hold: the inductive invariant of a   *)
(* reliable stream over a chain that had a transaction to anchor at.       *)
(***************************************************************************)

\* Control: what the queue holds decides where the loop and the watchdog wait.
Queued(task) == running = task \/ waiting = task

Control ==
  /\ running = "none" => waiting = "none"
  /\ running = waiting => running = "none"
  /\ Queued("catchUp") => waiting = "none"
  /\ (pc = "catchUp") <=> Queued("catchUp")
  /\ (pc = "handling") <=> Queued("handle")
  /\ (note # None) <=> Queued("handle")
  /\ (watch = "sweeping") <=> Queued("sweep")
  /\ (batch.phase = "none") <=> ~(Queued("catchUp") \/ Queued("sweep"))
  /\ watch = "sweeping" => pc \in {"live", "handling", "closing"}
  /\ watch = "pausing" => pc \in {"live", "handling"}
  /\ live => pc \in {"live", "handling", "closing"}
  /\ pc \in {"anchor", "open", "closing", "backoff"} \/ aborted =>
       sock = "closed" /\ inflight = {}
  /\ pc = "closing" => aborted
  /\ pc = "catchUp" => ~aborted
  /\ aborted => watch # "pausing"
  /\ last = None => pc \in {"anchor", "backoff"}
  /\ pc = "anchor" => last = None

\* Everything the process remembers lies between the anchor and the chain's tip.
Bounds ==
  /\ 0 < base /\ base <= landed
  /\ last # None => base <= last
  /\ cursor # None => base <= cursor /\ last # None
  /\ last <= landed /\ cursor <= landed
  /\ cursor = None => stored = {}

Unread == \A n \in inflight \cup {note} : n # None => base < n /\ n <= landed

BatchBounds ==
  /\ batch.phase = "ask" => base <= batch.from /\ batch.from <= landed
  /\ batch.phase = "work" => base < batch.next /\ batch.upto <= landed

RecentHandled == \A i \in DOMAIN recent : recent[i] \in Handled

Ranges == Bounds /\ Unread /\ BatchBounds /\ RecentHandled

\* What a running catch-up still owes.
Pending ==
  IF pc # "catchUp" THEN {}
  ELSE IF batch.phase = "ask" THEN Tx
  ELSE {t \in Tx : batch.next <= t /\ t <= batch.upto}

\* What the stream has said or will say; a working socket will announce the next one.
Announced == inflight \cup (IF sock = "open" THEN {landed + 1} ELSE {})

Covered ==
  \A n \in Announced, t \in Tx :
    base < t /\ t < n => t \in Handled \cup inflight \cup {note} \cup Pending

BatchComplete ==
  /\ batch.phase = "ask" => CompleteTo(batch.from)
  /\ batch.phase = "work" => CompleteTo(batch.next - 1)

NoteComplete == note # None => CompleteTo(note - 1)

Complete == NoSilentGap /\ CursorComplete /\ BatchComplete /\ NoteComplete

IInv == TypeOK /\ Control /\ Ranges /\ Covered /\ Complete

-----------------------------------------------------------------------------
(***************************************************************************)
(* The loop implements a log that is followed in order and without gaps.   *)
(***************************************************************************)
Follower == INSTANCE LogFollower WITH indexed <- stored, reported <- skipped \ stored

Follows == Follower!Spec
=============================================================================
