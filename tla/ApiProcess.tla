----------------------------- MODULE ApiProcess -----------------------------
(***************************************************************************)
(* The API's process from start to exit (apps/api index.ts): migrations    *)
(* under a lock (migrate.ts), the indexer in the same process, the server, *)
(* and a shutdown by a signal or by a dead indexer (supervise.ts). The     *)
(* host starts processes that overlap: a deployment, a rollback, a restart.*)
(*                                                                         *)
(* A release is the number of migrations it carries.                       *)
(***************************************************************************)
EXTENDS Naturals, FiniteSets

CONSTANTS
  MaxRelease,     \* bound: releases
  MaxStarts,      \* bound: processes ever started
  MaxStreams      \* bound: streams that are ever opened

ASSUME ProcessBounds == {MaxRelease, MaxStarts, MaxStreams} \subseteq Nat

VARIABLES
  schema,         \* migrations recorded in the database
  applied,        \* history: how often each was applied
  lock,           \* the process whose session holds the advisory lock; 0: none
  proc,           \* the processes
  opened          \* bound: streams opened so far

processVars == <<schema, applied, lock, proc, opened>>

Starts == 1 .. MaxStarts

\* `last`: the migrations it found recorded. `asking`: a request for a stream that came
\* and was not answered yet. `stuck`: streams in a write to a client that does not drain, `told`
\* those of them that were told to end. `late`: a stream that was opened after that.
Process(release, at) ==
  [release |-> release, at |-> at, last |-> 0, indexer |-> "none", asking |-> FALSE,
   streams |-> 0, stuck |-> 0, told |-> 0, late |-> FALSE]

ProcessInit ==
  /\ schema = 0 /\ applied = [m \in 1 .. MaxRelease |-> 0]
  /\ lock = 0
  /\ proc = [p \in Starts |-> Process(0, "none")]
  /\ opened = 0

At(p, at)     == proc[p].at = at
Goes(p, at)   == proc' = [proc EXCEPT ![p].at = at]
Starting      == {"locking", "looking", "applying", "unlocking", "indexing"}
Stopping      == {"draining", "unlistening", "halting", "disconnecting"}
Up(p)         == proc[p].at \in Starting \cup {"serving"} \cup Stopping
Exits(p)      == proc' = [proc EXCEPT ![p] = Process(0, "exited")]

-----------------------------------------------------------------------------
\* The host: at most two run at once.
HostStarts(p) ==
  /\ At(p, "none") /\ \A q \in Starts : q < p => ~At(q, "none")
  /\ Cardinality({q \in Starts : Up(q)}) < 2
  /\ \E release \in 1 .. MaxRelease : proc' = [proc EXCEPT ![p] = Process(release, "locking")]
  /\ UNCHANGED <<schema, applied, lock, opened>>

LocksAnyhow(p) == lock' = p

\* migrateDatabase, on one session.
Locks(p) == lock = 0 /\ lock' = p

TakesLockIfFree(p) ==
  /\ At(p, "locking")
  /\ IF lock = 0 THEN lock' = p /\ Goes(p, "looking") ELSE Goes(p, "indexing") /\ UNCHANGED lock
  /\ UNCHANGED <<schema, applied, opened>>

TakesLock(p) ==
  /\ At(p, "locking")
  /\ Locks(p)
  /\ Goes(p, "looking")
  /\ UNCHANGED <<schema, applied, opened>>

\* The migrator looks first and applies in a transaction of its own.
Looks(p) ==
  /\ At(p, "looking")
  /\ proc' = [proc EXCEPT ![p].at = "applying", ![p].last = schema]
  /\ UNCHANGED <<schema, applied, lock, opened>>

Pending(p) == proc[p].last + 1 .. proc[p].release

Applies(p) ==
  /\ At(p, "applying")
  /\ schema' = IF proc[p].release > schema THEN proc[p].release ELSE schema
  /\ applied' = [m \in DOMAIN applied |-> IF m \in Pending(p) THEN applied[m] + 1 ELSE applied[m]]
  /\ Goes(p, "unlocking")
  /\ UNCHANGED <<lock, opened>>

UnlocksNot(p) ==
  /\ At(p, "unlocking")
  /\ Goes(p, "indexing")
  /\ UNCHANGED <<schema, applied, lock, opened>>

Unlocks(p) ==
  /\ At(p, "unlocking")
  /\ lock' = IF lock = p THEN 0 ELSE lock
  /\ Goes(p, "indexing")
  /\ UNCHANGED <<schema, applied, opened>>

\* The indexer first, then the server, the listener and the handlers, at once.
Serves(p) ==
  /\ At(p, "indexing")
  /\ proc' = [proc EXCEPT ![p].at = "serving", ![p].indexer = "running"]
  /\ UNCHANGED <<schema, applied, lock, opened>>

\* Whatever throws during the start ends the process, and with it the lock's session;
\* a signal does the same while there is no handler of it, and a kill at any time.
Dies(p) ==
  /\ Up(p)
  /\ Exits(p)
  /\ lock' = IF lock = p THEN 0 ELSE lock
  /\ UNCHANGED <<schema, applied, opened>>

-----------------------------------------------------------------------------
Asks(p) ==
  /\ At(p, "serving") /\ ~proc[p].asking /\ opened < MaxStreams
  /\ opened' = opened + 1
  /\ proc' = [proc EXCEPT ![p].asking = TRUE]
  /\ UNCHANGED <<schema, applied, lock>>

\* A request that came before the shutdown is still answered, after it too.
Subscribes(p) ==
  /\ proc[p].asking
  /\ proc' = [proc EXCEPT ![p].asking = FALSE, ![p].streams = @ + 1,
                           ![p].late = @ \/ proc[p].at # "serving"]
  /\ UNCHANGED <<schema, applied, lock, opened>>

\* A client goes, stops reading what is written to it, or reads on: a stream that was told
\* to end in the meantime then does.
Leaves(p) ==
  /\ \/ proc[p].streams > 0 /\ proc' = [proc EXCEPT ![p].streams = @ - 1]
     \/ proc[p].stuck > 0 /\ proc' = [proc EXCEPT ![p].stuck = @ - 1]
     \/ proc[p].told > 0 /\ proc' = [proc EXCEPT ![p].told = @ - 1]
  /\ UNCHANGED <<schema, applied, lock, opened>>

Stalls(p) ==
  /\ At(p, "serving") /\ proc[p].streams > 0         \* a late one keeps the process anyway
  /\ proc' = [proc EXCEPT ![p].streams = @ - 1, ![p].stuck = @ + 1]
  /\ UNCHANGED <<schema, applied, lock, opened>>

Drains(p) ==
  /\ \/ proc[p].stuck > 0 /\ proc' = [proc EXCEPT ![p].stuck = @ - 1, ![p].streams = @ + 1]
     \/ proc[p].told > 0 /\ proc' = [proc EXCEPT ![p].told = @ - 1]
  /\ UNCHANGED <<schema, applied, lock, opened>>

StreamsKept(p) == proc[p].streams

\* hub.close: every stream is told to end, and does at its next turn.
StreamsEnded(p) == 0

\* Once: a second reason to stop is nothing. A stream in the middle of a write hears of it
\* when the write is over.
Shutdown(p) ==
  /\ At(p, "serving")
  /\ proc' = [proc EXCEPT ![p].at = "draining", ![p].streams = StreamsEnded(p),
                           ![p].stuck = 0, ![p].told = proc[p].stuck]

Signal(p) == Shutdown(p) /\ UNCHANGED <<schema, applied, lock, opened>>

\* A failure the loop does not reconnect through; its promise settles a little later.
IndexerFails(p) ==
  /\ Up(p) /\ proc[p].indexer = "running"
  /\ proc' = [proc EXCEPT ![p].indexer = "failed"]
  /\ UNCHANGED <<schema, applied, lock, opened>>

OnFatal(p) == Shutdown(p)

Supervises(p) ==
  /\ proc[p].indexer = "failed" /\ At(p, "serving")
  /\ OnFatal(p)
  /\ UNCHANGED <<schema, applied, lock, opened>>

\* server.close waits for every connection.
Drained(p) ==
  /\ At(p, "draining")
  /\ ~proc[p].asking /\ proc[p].streams + proc[p].stuck + proc[p].told = 0
  /\ Goes(p, "unlistening")
  /\ UNCHANGED <<schema, applied, lock, opened>>

\* listener, indexer, database, each awaited; what fails among them goes to the exit.
Unlistens(p) == At(p, "unlistening") /\ Goes(p, "halting") /\ UNCHANGED <<schema, applied, lock, opened>>

Halts(p) ==
  /\ At(p, "halting")
  /\ proc' = [proc EXCEPT ![p].at = "disconnecting", ![p].indexer = "none"]
  /\ UNCHANGED <<schema, applied, lock, opened>>

Quits(p) ==
  /\ At(p, "disconnecting") \/ (proc[p].at \in Stopping /\ ~At(p, "draining"))
  /\ Exits(p)
  /\ UNCHANGED <<schema, applied, lock, opened>>

\* What the process does by itself.
Works(p) ==
  \/ TakesLock(p) \/ Looks(p) \/ Applies(p) \/ Unlocks(p) \/ Serves(p)
  \/ Subscribes(p) \/ Supervises(p) \/ Drained(p) \/ Unlistens(p) \/ Halts(p) \/ Quits(p)

ProcessNext ==
  \E p \in Starts :
    \/ HostStarts(p) \/ Dies(p) \/ Signal(p) \/ IndexerFails(p)
    \/ Asks(p) \/ Leaves(p) \/ Stalls(p) \/ Drains(p) \/ Works(p)

-----------------------------------------------------------------------------
\* Processes that overlap, or die in the middle, apply every migration once.
AppliedOnce == \A m \in DOMAIN applied : applied[m] = IF m <= schema THEN 1 ELSE 0

\* Nothing reads or writes an older schema than it was written for (migrate.ts:10-13).
NeverOnOlder ==
  \A p \in Starts : At(p, "indexing") \/ At(p, "serving") \/ proc[p].at \in Stopping =>
    schema >= proc[p].release

\* Every start serves or ends: nobody waits for a lock forever.
EveryStartEnds == \A p \in Starts : proc[p].at \in Starting ~> proc[p].at \in {"serving", "exited"}

\* An API without its indexer does not go on: the process ends, and so does every stop
\* (supervise.ts:5-8, index.ts:255), as soon as no client holds a stream in a write it does
\* not read, and unless a stream was opened after they were told to end.
StopsEnd ==
  \A p \in Starts :
    (proc[p].at \in Stopping \/ (At(p, "serving") /\ proc[p].indexer = "failed")) /\ proc[p].told = 0 ~>
      At(p, "exited") \/ proc[p].late \/ proc[p].told > 0

-----------------------------------------------------------------------------
(***************************************************************************)
(* Why the schema holds.                                                   *)
(***************************************************************************)

ProcessTypeOK ==
  /\ schema \in 0 .. MaxRelease /\ applied \in [1 .. MaxRelease -> Nat]
  /\ lock \in 0 .. MaxStarts
  /\ proc \in [Starts ->
       [release : 0 .. MaxRelease,
        at : {"none", "serving", "exited"} \cup Starting \cup Stopping,
        last : 0 .. MaxRelease, indexer : {"none", "running", "failed"},
        asking : BOOLEAN, streams : Nat, stuck : Nat, told : Nat, late : BOOLEAN]]
  /\ opened \in 0 .. MaxStreams

\* Who migrates holds the lock, and who holds it migrates.
LockHeld ==
  \A p \in Starts : lock = p <=> proc[p].at \in {"looking", "applying", "unlocking"}

\* So what it found recorded is what is recorded when it applies the rest.
LookHolds == \A p \in Starts : At(p, "applying") => proc[p].last = schema

Migrated == \A p \in Starts : At(p, "unlocking") => schema >= proc[p].release

ProcessInv ==
  ProcessTypeOK /\ LockHeld /\ LookHolds /\ Migrated /\ AppliedOnce /\ NeverOnOlder
=============================================================================
