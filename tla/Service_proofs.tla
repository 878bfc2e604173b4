--------------------------- MODULE Service_proofs ---------------------------
(***************************************************************************)
(* Service, proved for every number of releases, starts, clients and       *)
(* messages, and every limit, window and age: overlapping starts leave one *)
(* schema, a client is never admitted above its limit, and a signature     *)
(* buys one token. And what a page tells of a wallet (History), for every  *)
(* number of workers and events, every limit of a page and every age of    *)
(* what is kept: the events of a transaction, the pages of the events and  *)
(* the list of the permissions.                                            *)
(***************************************************************************)
EXTENDS Service, History, FiniteSetTheorems, WellFoundedInduction, TLAPS

(***************************************************************************)
(* The process.                                                            *)
(***************************************************************************)

ProcessRow ==
  [release : 0 .. MaxRelease, at : {"none", "serving", "exited"} \cup Starting \cup Stopping,
   last : 0 .. MaxRelease, indexer : {"none", "running", "failed"},
   asking : BOOLEAN, streams : Nat, stuck : Nat, told : Nat, late : BOOLEAN]

\* What a step makes of its own process and of the others.
LEMMA ProcessTypeStep ==
  ASSUME ProcessTypeOK, [ProcessNext]_processVars
  PROVE  ProcessTypeOK'
<1>1. /\ schema \in 0 .. MaxRelease /\ applied \in [1 .. MaxRelease -> Nat]
      /\ lock \in 0 .. MaxStarts /\ proc \in [Starts -> ProcessRow] /\ opened \in 0 .. MaxStreams
      /\ MaxRelease \in Nat /\ MaxStarts \in Nat /\ MaxStreams \in Nat
  BY ProcessBounds DEF ProcessTypeOK, ProcessRow
<1>2. CASE UNCHANGED processVars
  BY <1>1, <1>2 DEF ProcessTypeOK, processVars, ProcessRow
<1>3. ASSUME NEW p \in Starts,
             HostStarts(p) \/ Dies(p) \/ Signal(p) \/ IndexerFails(p) \/ Asks(p) \/ Works(p)
               \/ Leaves(p) \/ Stalls(p) \/ Drains(p)
      PROVE  ProcessTypeOK'
  <2>1. p \in 1 .. MaxStarts /\ proc[p] \in ProcessRow
    BY <1>1, <1>3 DEF Starts
  <2>2. \A release \in 0 .. MaxRelease, at \in {"none", "serving", "exited"} \cup Starting \cup Stopping :
          Process(release, at) \in ProcessRow
    BY <1>1 DEF Process, ProcessRow
  <2>3. ASSUME NEW new \in ProcessRow, proc' = [proc EXCEPT ![p] = new],
               lock' \in {lock, p, 0}, UNCHANGED <<schema, applied>>, opened' \in 0 .. MaxStreams
        PROVE  ProcessTypeOK'
    BY <1>1, <2>1, <2>3 DEF ProcessTypeOK, ProcessRow
  <2>4. CASE HostStarts(p)
    <3>1. PICK release \in 1 .. MaxRelease : proc' = [proc EXCEPT ![p] = Process(release, "locking")]
      BY <2>4 DEF HostStarts
    <3>2. Process(release, "locking") \in ProcessRow
      BY <1>1, <2>2 DEF Starting
    <3>3. QED
      BY <1>1, <2>3, <2>4, <3>1, <3>2 DEF HostStarts
  <2>5. CASE Dies(p) \/ Quits(p)
    <3>1. Process(0, "exited") \in ProcessRow
      BY <1>1, <2>2
    <3>2. QED
      BY <1>1, <2>3, <2>5, <3>1 DEF Dies, Quits, Exits
  <2>6. CASE Applies(p)
    <3>1. schema' \in 0 .. MaxRelease
      BY <1>1, <2>1, <2>6 DEF Applies, ProcessRow
    <3>2. applied' \in [1 .. MaxRelease -> Nat]
      BY <1>1, <2>6 DEF Applies
    <3>3. proc' \in [Starts -> ProcessRow]
      BY <1>1, <2>1, <2>6 DEF Applies, Goes, ProcessRow, Starting
    <3>4. QED
      BY <1>1, <2>6, <3>1, <3>2, <3>3 DEF Applies, ProcessTypeOK, ProcessRow
  <2>7. CASE \/ TakesLock(p) \/ Looks(p) \/ Unlocks(p) \/ Serves(p) \/ Supervises(p) \/ Drained(p)
             \/ Unlistens(p) \/ Halts(p) \/ Signal(p) \/ IndexerFails(p)
    <3>1. /\ UNCHANGED <<schema, applied, opened>> /\ lock' \in {lock, p, 0}
      BY <2>7 DEF TakesLock, Locks, Looks, Unlocks, Serves, Supervises, Drained, Unlistens, Halts,
        Signal, IndexerFails
    <3>2. proc' \in [Starts -> ProcessRow]
      <4>1. ASSUME NEW at \in Starting \cup {"serving"} \cup Stopping, Goes(p, at)
            PROVE  proc' \in [Starts -> ProcessRow]
        BY <1>1, <2>1, <4>1 DEF Goes, ProcessRow
      <4>2. CASE TakesLock(p) \/ Unlocks(p)
        BY <4>1, <4>2 DEF TakesLock, Unlocks, Starting
      <4>3. CASE Drained(p) \/ Unlistens(p)
        BY <4>1, <4>3 DEF Drained, Unlistens, Stopping
      <4>4. CASE Looks(p)
        <5>1. proc' = [proc EXCEPT ![p] = [proc[p] EXCEPT !.at = "applying", !.last = schema]]
          BY <1>1, <2>1, <4>4 DEF Looks
        <5>2. [proc[p] EXCEPT !.at = "applying", !.last = schema] \in ProcessRow
          BY <1>1, <2>1 DEF ProcessRow, Starting
        <5>3. QED
          BY <1>1, <5>1, <5>2
      <4>5. CASE Serves(p)
        <5>1. proc' = [proc EXCEPT ![p] = [proc[p] EXCEPT !.at = "serving", !.indexer = "running"]]
          BY <1>1, <2>1, <4>5 DEF Serves
        <5>2. [proc[p] EXCEPT !.at = "serving", !.indexer = "running"] \in ProcessRow
          BY <2>1 DEF ProcessRow
        <5>3. QED
          BY <1>1, <5>1, <5>2
      <4>5a. CASE IndexerFails(p)
        <5>1. proc' = [proc EXCEPT ![p] = [proc[p] EXCEPT !.indexer = "failed"]]
          BY <1>1, <2>1, <4>5a DEF IndexerFails
        <5>2. [proc[p] EXCEPT !.indexer = "failed"] \in ProcessRow
          BY <2>1 DEF ProcessRow
        <5>3. QED
          BY <1>1, <5>1, <5>2
      <4>6. CASE Halts(p)
        BY <1>1, <2>1, <4>6 DEF Halts, ProcessRow, Stopping
      <4>7. CASE Supervises(p) \/ Signal(p)
        <5>1. proc' = [proc EXCEPT ![p] = [proc[p] EXCEPT !.at = "draining", !.streams = 0,
                         !.stuck = 0, !.told = proc[p].stuck]]
          BY <1>1, <2>1, <4>7 DEF Supervises, Signal, OnFatal, Shutdown, StreamsEnded
        <5>2. [proc[p] EXCEPT !.at = "draining", !.streams = 0, !.stuck = 0, !.told = proc[p].stuck]
                \in ProcessRow
          BY <2>1 DEF ProcessRow, Stopping
        <5>3. QED
          BY <1>1, <5>1, <5>2
      <4>8. QED
        BY <2>7, <4>2, <4>3, <4>4, <4>5, <4>5a, <4>6, <4>7
    <3>3. QED
      BY <1>1, <2>1, <3>1, <3>2 DEF ProcessTypeOK, ProcessRow
  <2>8. CASE Asks(p) \/ Subscribes(p) \/ Leaves(p) \/ Stalls(p) \/ Drains(p)
    <3>1. UNCHANGED <<schema, applied, lock>> /\ opened' \in 0 .. MaxStreams
      BY <1>1, <2>8 DEF Asks, Subscribes, Leaves, Stalls, Drains
    <3>2. proc' \in [Starts -> ProcessRow]
      <4>1. proc[p].streams \in Nat /\ proc[p].late \in BOOLEAN
        BY <2>1 DEF ProcessRow
      <4>2. CASE Asks(p)
        BY <1>1, <2>1, <4>2 DEF Asks, ProcessRow
      <4>3. CASE Subscribes(p)
        <5>1. /\ (proc[p].late \/ proc[p].at # "serving") \in BOOLEAN /\ proc[p].streams + 1 \in Nat
          BY <4>1
        <5>2. PICK late \in BOOLEAN : late = (proc[p].late \/ proc[p].at # "serving")
          BY <5>1
        <5>3. proc' = [proc EXCEPT ![p] = [proc[p] EXCEPT !.asking = FALSE,
                         !.streams = proc[p].streams + 1, !.late = late]]
          BY <1>1, <2>1, <4>3, <5>2 DEF Subscribes
        <5>4. [proc[p] EXCEPT !.asking = FALSE, !.streams = proc[p].streams + 1, !.late = late] \in ProcessRow
          BY <2>1, <5>1, <5>2 DEF ProcessRow
        <5>5. QED
          BY <1>1, <5>3, <5>4
      <4>4. CASE Leaves(p) \/ Stalls(p) \/ Drains(p)
        <5>1. proc[p].streams \in Nat /\ proc[p].stuck \in Nat /\ proc[p].told \in Nat
          BY <2>1 DEF ProcessRow
        <5>2. CASE proc[p].streams > 0 /\ proc' = [proc EXCEPT ![p].streams = @ - 1]
          <6>1. proc' = [proc EXCEPT ![p] = [proc[p] EXCEPT !.streams = proc[p].streams - 1]]
            BY <1>1, <2>1, <5>1, <5>2 DEF ProcessRow
          <6>2. proc[p].streams - 1 \in Nat
            BY <5>1, <5>2
          <6>3. [proc[p] EXCEPT !.streams = proc[p].streams - 1] \in ProcessRow
            BY <2>1, <6>2 DEF ProcessRow
          <6>4. QED
            BY <1>1, <6>1, <6>3
        <5>3. CASE proc[p].stuck > 0 /\ proc' = [proc EXCEPT ![p].stuck = @ - 1]
          <6>1. proc' = [proc EXCEPT ![p] = [proc[p] EXCEPT !.stuck = proc[p].stuck - 1]]
            BY <1>1, <2>1, <5>1, <5>3 DEF ProcessRow
          <6>2. proc[p].stuck - 1 \in Nat
            BY <5>1, <5>3
          <6>3. [proc[p] EXCEPT !.stuck = proc[p].stuck - 1] \in ProcessRow
            BY <2>1, <6>2 DEF ProcessRow
          <6>4. QED
            BY <1>1, <6>1, <6>3
        <5>4. CASE proc[p].told > 0 /\ proc' = [proc EXCEPT ![p].told = @ - 1]
          <6>1. proc' = [proc EXCEPT ![p] = [proc[p] EXCEPT !.told = proc[p].told - 1]]
            BY <1>1, <2>1, <5>1, <5>4 DEF ProcessRow
          <6>2. proc[p].told - 1 \in Nat
            BY <5>1, <5>4
          <6>3. [proc[p] EXCEPT !.told = proc[p].told - 1] \in ProcessRow
            BY <2>1, <6>2 DEF ProcessRow
          <6>4. QED
            BY <1>1, <6>1, <6>3
        <5>5. CASE proc[p].streams > 0 /\ proc' = [proc EXCEPT ![p].streams = @ - 1, ![p].stuck = @ + 1]
          <6>1. proc' = [proc EXCEPT ![p] = [proc[p] EXCEPT !.streams = proc[p].streams - 1, !.stuck = proc[p].stuck + 1]]
            BY <1>1, <2>1, <5>1, <5>5 DEF ProcessRow
          <6>2. proc[p].streams - 1 \in Nat /\ proc[p].stuck + 1 \in Nat
            BY <5>1, <5>5
          <6>3. [proc[p] EXCEPT !.streams = proc[p].streams - 1, !.stuck = proc[p].stuck + 1] \in ProcessRow
            BY <2>1, <6>2 DEF ProcessRow
          <6>4. QED
            BY <1>1, <6>1, <6>3
        <5>6. CASE proc[p].stuck > 0 /\ proc' = [proc EXCEPT ![p].stuck = @ - 1, ![p].streams = @ + 1]
          <6>1. proc' = [proc EXCEPT ![p] = [proc[p] EXCEPT !.stuck = proc[p].stuck - 1, !.streams = proc[p].streams + 1]]
            BY <1>1, <2>1, <5>1, <5>6 DEF ProcessRow
          <6>2. proc[p].stuck - 1 \in Nat /\ proc[p].streams + 1 \in Nat
            BY <5>1, <5>6
          <6>3. [proc[p] EXCEPT !.stuck = proc[p].stuck - 1, !.streams = proc[p].streams + 1] \in ProcessRow
            BY <2>1, <6>2 DEF ProcessRow
          <6>4. QED
            BY <1>1, <6>1, <6>3
        <5>7. QED
          BY <4>4, <5>2, <5>3, <5>4, <5>5, <5>6 DEF Leaves, Stalls, Drains
      <4>5. QED
        BY <2>8, <4>2, <4>3, <4>4
    <3>3. QED
      BY <1>1, <3>1, <3>2 DEF ProcessTypeOK, ProcessRow
  <2>9. QED
    BY <1>3, <2>4, <2>5, <2>6, <2>7, <2>8 DEF Works
<1>4. QED
  BY <1>2, <1>3 DEF ProcessNext

\* Where a step leaves its process, what it read, and the lock.
LEMMA WhereTo ==
  ASSUME ProcessTypeOK, NEW p \in Starts, ~Applies(p),
         HostStarts(p) \/ Dies(p) \/ Signal(p) \/ IndexerFails(p) \/ Asks(p) \/ Works(p)
               \/ Leaves(p) \/ Stalls(p) \/ Drains(p)
  PROVE  /\ UNCHANGED <<schema, applied>>
         /\ \A q \in Starts \ {p} : proc'[q] = proc[q]
         /\ \/ UNCHANGED <<lock, proc[p].at, proc[p].release, proc[p].last>>
            \/ proc[p].at = "none" /\ proc'[p].at = "locking" /\ UNCHANGED lock
            \/ proc'[p].at = "exited" /\ lock' = (IF lock = p THEN 0 ELSE lock)
            \/ proc[p].at = "locking" /\ lock = 0 /\ lock' = p /\ proc'[p].at = "looking"
            \/ /\ proc[p].at = "looking" /\ UNCHANGED lock /\ proc'[p].at = "applying"
               /\ proc'[p].last = schema
            \/ /\ proc[p].at = "unlocking" /\ lock' = (IF lock = p THEN 0 ELSE lock)
               /\ proc'[p].at = "indexing" /\ proc'[p].release = proc[p].release
            \/ /\ proc[p].at \in {"indexing", "serving"} \cup Stopping /\ UNCHANGED lock
               /\ \/ proc'[p].at = "exited"
                  \/ proc'[p].at \in {"serving"} \cup Stopping /\ proc'[p].release = proc[p].release
<1>1. proc \in [Starts -> ProcessRow]
  BY DEF ProcessTypeOK, ProcessRow
<1>2. /\ UNCHANGED <<schema, applied>>
      /\ \A q \in Starts \ {p} : proc'[q] = proc[q]
  BY <1>1 DEF HostStarts, Dies, Signal, IndexerFails, Asks, Leaves, Stalls, Drains, Works, Exits, Goes,
    TakesLock, Looks, Unlocks, Serves, Subscribes, Supervises, Drained, Unlistens, Halts, Quits,
    Shutdown, OnFatal
<1>3. CASE HostStarts(p) \/ Dies(p)
  BY <1>1, <1>2, <1>3 DEF HostStarts, Dies, Exits, Process, At
<1>4. CASE IndexerFails(p) \/ Asks(p) \/ Leaves(p) \/ Stalls(p) \/ Drains(p) \/ Subscribes(p)
  BY <1>1, <1>2, <1>4 DEF IndexerFails, Asks, Leaves, Stalls, Drains, Subscribes, ProcessRow
<1>5. CASE TakesLock(p) \/ Looks(p) \/ Unlocks(p)
  BY <1>1, <1>2, <1>5 DEF TakesLock, Locks, Looks, Unlocks, Goes, At, ProcessRow
<1>6. CASE Serves(p) \/ Drained(p) \/ Unlistens(p) \/ Halts(p)
  BY <1>1, <1>2, <1>6 DEF Serves, Drained, Unlistens, Halts, Goes, At, Stopping, ProcessRow
<1>7. CASE Supervises(p) \/ Signal(p)
  BY <1>1, <1>2, <1>7 DEF Supervises, Signal, OnFatal, Shutdown, At, Stopping, ProcessRow
<1>8. CASE Quits(p)
  BY <1>1, <1>2, <1>8 DEF Quits, Exits, Process, At, Stopping
<1>9. QED
  BY <1>3, <1>4, <1>5, <1>6, <1>7, <1>8 DEF Works

LEMMA ProcessStep == ProcessInv /\ [ProcessNext]_processVars => ProcessInv'
<1> SUFFICES ASSUME ProcessInv, [ProcessNext]_processVars PROVE ProcessInv'
  OBVIOUS
<1>1. ProcessTypeOK /\ ProcessTypeOK'
  BY ProcessTypeStep DEF ProcessInv
<1>2. /\ schema \in 0 .. MaxRelease /\ MaxRelease \in Nat
      /\ applied \in [1 .. MaxRelease -> Nat]
      /\ proc \in [Starts -> ProcessRow]
      /\ \A q \in Starts : q # 0
      /\ \A q \in Starts : proc[q].release \in Nat /\ proc[q].release <= MaxRelease
  <2>1. /\ schema \in 0 .. MaxRelease /\ MaxRelease \in Nat /\ MaxStarts \in Nat
        /\ applied \in [1 .. MaxRelease -> Nat] /\ proc \in [Starts -> ProcessRow]
    BY <1>1, ProcessBounds DEF ProcessTypeOK, ProcessRow
  <2>2. \A q \in Starts : q # 0
    BY <2>1 DEF Starts
  <2>3. ASSUME NEW q \in Starts PROVE proc[q].release \in Nat /\ proc[q].release <= MaxRelease
    <3>1. proc[q] \in ProcessRow
      BY <2>1
    <3>2. QED
      BY <2>1, <3>1 DEF ProcessRow
  <2>4. QED
    BY <2>1, <2>2, <2>3
<1>3. CASE UNCHANGED processVars
  BY <1>1, <1>3 DEF ProcessInv, LockHeld, LookHolds, Migrated, AppliedOnce, NeverOnOlder, At,
    processVars, Stopping
<1>4. ASSUME NEW p \in Starts, Applies(p)
      PROVE  ProcessInv'
  <2>1. /\ At(p, "applying") /\ proc[p].last = schema /\ lock' = lock
        /\ schema' = (IF proc[p].release > schema THEN proc[p].release ELSE schema)
        /\ applied' = [m \in DOMAIN applied |->
             IF m \in Pending(p) THEN applied[m] + 1 ELSE applied[m]]
        /\ proc'[p].at = "unlocking" /\ proc'[p].release = proc[p].release
        /\ \A q \in Starts \ {p} : proc'[q] = proc[q]
    BY <1>2, <1>4 DEF ProcessInv, LookHolds, Applies, Goes, ProcessRow
  <2>2. schema' >= schema /\ schema' >= proc[p].release /\ schema' \in Nat
    BY <1>2, <2>1
  <2>3. \A q \in Starts \ {p} : ~(proc[q].at \in {"looking", "applying", "unlocking"})
    BY <2>1 DEF ProcessInv, LockHeld, At
  <2>4. AppliedOnce'
    <3>1. ASSUME NEW m \in 1 .. MaxRelease
          PROVE  applied'[m] = IF m <= schema' THEN 1 ELSE 0
      <4>1. applied[m] = (IF m <= schema THEN 1 ELSE 0)
        BY <1>2 DEF ProcessInv, AppliedOnce
      <4>2. m \in Pending(p) <=> schema < m /\ m <= proc[p].release
        BY <1>2, <2>1 DEF Pending
      <4>3. QED
        BY <1>2, <2>1, <4>1, <4>2
    <3>2. DOMAIN applied' = 1 .. MaxRelease
      BY <1>2, <2>1
    <3>3. QED
      BY <3>1, <3>2 DEF AppliedOnce
  <2>5. LockHeld' /\ LookHolds' /\ Migrated'
    <3>1. LockHeld'
      BY <2>1 DEF ProcessInv, LockHeld, At
    <3>2. LookHolds'
      BY <2>1, <2>3 DEF LookHolds, At
    <3>3. Migrated'
      BY <2>1, <2>2, <2>3 DEF Migrated, At
    <3>4. QED
      BY <3>1, <3>2, <3>3
  <2>6. NeverOnOlder'
    <3>1. ASSUME NEW q \in Starts \ {p},
                 proc'[q].at \in {"indexing", "serving"} \cup Stopping
          PROVE  schema' >= proc'[q].release
      <4>1. proc[q].release \in Nat /\ schema \in Nat /\ schema >= proc[q].release
        BY <1>2, <2>1, <3>1 DEF ProcessInv, NeverOnOlder, At
      <4>2. QED
        BY <2>1, <2>2, <4>1
    <3>2. ~(proc'[p].at \in {"indexing", "serving"} \cup Stopping)
      BY <2>1 DEF Stopping
    <3>3. QED
      BY <3>1, <3>2 DEF NeverOnOlder, At
  <2>7. QED
    BY <1>1, <2>4, <2>5, <2>6 DEF ProcessInv
<1>5. ASSUME NEW p \in Starts, ~Applies(p),
             HostStarts(p) \/ Dies(p) \/ Signal(p) \/ IndexerFails(p) \/ Asks(p) \/ Works(p)
               \/ Leaves(p) \/ Stalls(p) \/ Drains(p)
      PROVE  ProcessInv'
  <2>1. /\ UNCHANGED <<schema, applied>>
        /\ \A q \in Starts \ {p} : proc'[q] = proc[q]
        /\ \/ UNCHANGED <<lock, proc[p].at, proc[p].release, proc[p].last>>
           \/ proc[p].at = "none" /\ proc'[p].at = "locking" /\ UNCHANGED lock
           \/ proc'[p].at = "exited" /\ lock' = (IF lock = p THEN 0 ELSE lock)
           \/ proc[p].at = "locking" /\ lock = 0 /\ lock' = p /\ proc'[p].at = "looking"
           \/ /\ proc[p].at = "looking" /\ UNCHANGED lock /\ proc'[p].at = "applying"
              /\ proc'[p].last = schema
           \/ /\ proc[p].at = "unlocking" /\ lock' = (IF lock = p THEN 0 ELSE lock)
              /\ proc'[p].at = "indexing" /\ proc'[p].release = proc[p].release
           \/ /\ proc[p].at \in {"indexing", "serving"} \cup Stopping /\ UNCHANGED lock
              /\ \/ proc'[p].at = "exited"
                 \/ proc'[p].at \in {"serving"} \cup Stopping /\ proc'[p].release = proc[p].release
    BY <1>1, <1>5, WhereTo
  <2>2. /\ LockHeld /\ LookHolds /\ Migrated /\ AppliedOnce /\ NeverOnOlder
    BY DEF ProcessInv
  <2>3. AppliedOnce'
    BY <2>1, <2>2 DEF AppliedOnce
  <2>4. LockHeld'
    BY <1>2, <2>1, <2>2 DEF LockHeld, Stopping
  <2>5. LookHolds' /\ Migrated' /\ NeverOnOlder'
    BY <1>2, <2>1, <2>2 DEF LookHolds, Migrated, NeverOnOlder, At, Stopping
  <2>6. QED
    BY <1>1, <2>3, <2>4, <2>5 DEF ProcessInv
<1>6. QED
  BY <1>3, <1>4, <1>5 DEF ProcessNext, Works

(***************************************************************************)
(* The windows.                                                            *)
(***************************************************************************)

\* Every set of numbers has a least one.
LEMMA Least ==
  ASSUME NEW T \in SUBSET Nat, T # {}
  PROVE  \E x \in T : \A y \in T : x <= y
<1>1. PICK x \in T : \A y \in T : ~(<<y, x>> \in OpToRel(<, Nat))
  BY WFMin, NatLessThanWellFounded, Zenon
<1>2. ASSUME NEW y \in T PROVE ~(y < x)
  <2>1. y \in Nat /\ x \in Nat
    BY <1>1
  <2>2. QED
    BY <1>1, <2>1, Zenon DEF OpToRel
<1>3. \A y \in T : x <= y
  BY <1>2
<1>4. QED
  BY <1>1, <1>3

\* Rounding up to whole units loses nothing.
LEMMA RoundedUp ==
  ASSUME NEW left \in Nat, NEW unit \in Nat \ {0}
  PROVE  ((left + unit - 1) \div unit) * unit \in Nat /\ ((left + unit - 1) \div unit) * unit >= left
<1>1. \A a \in Nat : a \div unit \in Nat /\ a = unit * (a \div unit) + (a % unit) /\ a % unit \in 0 .. unit - 1
  OBVIOUS
<1>2. PICK a \in Nat : a = left + unit - 1
  OBVIOUS
<1> DEFINE q == a \div unit
<1>3. q \in Nat /\ a = unit * q + (a % unit) /\ a % unit \in 0 .. unit - 1
  BY <1>1
<1> HIDE DEF q
<1>4. unit * q \in Nat /\ unit * q = q * unit
  BY <1>3
<1>5. unit * q >= left
  BY <1>2, <1>3, <1>4
<1>6. QED
  BY <1>2, <1>3, <1>4, <1>5 DEF q

LEMMA Marks ==
  ASSUME NEW s \in Seq(Nat)
  PROVE  Len(s) \in Nat /\ DOMAIN s = 1 .. Len(s) /\ \A i \in 1 .. Len(s) : s[i] \in Nat
OBVIOUS

\* What pruning leaves of the marks: all but some at the front that are too old to count.
LEMMA AliveFacts ==
  ASSUME clock \in Nat, NEW s \in Seq(Nat)
  PROVE  \E d \in 0 .. Len(s) :
           /\ Alive(s) \in Seq(Nat) /\ Len(Alive(s)) = Len(s) - d
           /\ \A i \in 1 .. Len(s) - d : Alive(s)[i] = s[d + i]
           /\ \A i \in 1 .. d : s[i] <= clock - Span
           /\ d < Len(s) => s[d + 1] > clock - Span
<1>1. /\ Len(s) \in Nat /\ DOMAIN s = 1 .. Len(s) /\ Span \in Nat
      /\ \A i \in 1 .. Len(s) : s[i] \in Nat
  BY Marks, GateAssumption
<1>2. CASE \A i \in DOMAIN s : ~(s[i] > clock - Span)
  <2>1. Alive(s) = <<>>
    BY <1>2 DEF Alive
  <2>2. \A i \in 1 .. Len(s) : s[i] <= clock - Span
    BY <1>1, <1>2
  <2>3. Len(s) \in 0 .. Len(s) /\ Len(s) - Len(s) = 0 /\ <<>> \in Seq(Nat) /\ Len(<<>>) = 0
    BY <1>1
  <2>4. QED
    BY <2>1, <2>2, <2>3
<1>3. CASE \E i \in DOMAIN s : s[i] > clock - Span
  <2> DEFINE live == {i \in 1 .. Len(s) : s[i] > clock - Span}
             isFirst(i) == s[i] > clock - Span /\ \A j \in 1 .. i - 1 : s[j] <= clock - Span
  <2>1. \E f \in DOMAIN s : isFirst(f)
    <3>1. live \in SUBSET Nat /\ live # {}
      BY <1>1, <1>3
    <3>2. PICK f \in live : \A i \in live : f <= i
      BY <3>1, Least
    <3>3. ASSUME NEW j \in 1 .. f - 1 PROVE s[j] <= clock - Span
      <4>1. j \in 1 .. Len(s) /\ j \notin live
        BY <1>1, <3>2
      <4>2. QED
        BY <1>1, <4>1
    <3>4. QED
      BY <1>1, <3>2, <3>3
  <2>2. FirstAlive(s) \in DOMAIN s /\ isFirst(FirstAlive(s))
    BY <2>1 DEF FirstAlive
  <2> HIDE DEF isFirst, live
  <2>3. PICK f \in 1 .. Len(s) : f = FirstAlive(s)
    BY <1>1, <2>2
  <2>4. Alive(s) = SubSeq(s, f, Len(s))
    BY <1>3, <2>3 DEF Alive
  <2>5. /\ Alive(s) \in Seq(Nat) /\ Len(Alive(s)) = Len(s) - (f - 1)
        /\ \A i \in 1 .. Len(s) - (f - 1) : Alive(s)[i] = s[(f - 1) + i]
    BY <1>1, <2>4
  <2>6. /\ f - 1 \in 0 .. Len(s) /\ (f - 1) + 1 = f /\ s[f] > clock - Span
        /\ \A i \in 1 .. f - 1 : s[i] <= clock - Span
    BY <1>1, <2>2, <2>3 DEF isFirst
  <2>7. QED
    BY <2>5, <2>6
<1>4. QED
  BY <1>2, <1>3

\* A window and what its client was admitted, as WindowKept relates them.
Kept(w, a) ==
  /\ Len(w) <= Limit /\ Len(w) <= Len(a) /\ Len(a) <= Limit + 1
  /\ \A i \in 1 .. Len(w) : w[i] = a[Len(a) - Len(w) + i]
  /\ \A i \in 1 .. Len(a) - Len(w) : a[i] <= clock - Span

LEMMA PruneKeeps ==
  ASSUME clock \in Nat, NEW w \in Seq(Nat), NEW a \in Seq(Nat), Kept(w, a)
  PROVE  /\ Kept(Alive(w), a) /\ Alive(w) \in Seq(Nat)
         /\ Len(Alive(w)) \in Nat /\ Len(Alive(w)) <= Len(w)
         /\ Len(Alive(w)) = Limit =>
              Len(w) = Limit /\ Alive(w)[1] = w[1] /\ w[1] \in Nat /\ w[1] > clock - Span
<1>1. /\ Len(w) \in Nat /\ Len(a) \in Nat /\ Limit \in Nat \ {0} /\ Span \in Nat
      /\ \A i \in 1 .. Len(a) : a[i] \in Nat
  BY Marks, GateAssumption
<1>2. PICK d \in 0 .. Len(w) :
        /\ Alive(w) \in Seq(Nat) /\ Len(Alive(w)) = Len(w) - d
        /\ \A i \in 1 .. Len(w) - d : Alive(w)[i] = w[d + i]
        /\ \A i \in 1 .. d : w[i] <= clock - Span
        /\ d < Len(w) => w[d + 1] > clock - Span
  BY AliveFacts
<1>3. ASSUME NEW i \in 1 .. Len(w) - d
      PROVE  Alive(w)[i] = a[Len(a) - (Len(w) - d) + i]
  <2>1. d + i \in 1 .. Len(w) /\ Len(a) - Len(w) + (d + i) = Len(a) - (Len(w) - d) + i
    BY <1>1
  <2>2. w[d + i] = a[Len(a) - Len(w) + (d + i)]
    BY <2>1 DEF Kept
  <2>3. QED
    BY <1>2, <2>1, <2>2
<1>4. ASSUME NEW i \in 1 .. Len(a) - (Len(w) - d)
      PROVE  a[i] <= clock - Span
  <2>1. CASE i \in 1 .. Len(a) - Len(w)
    BY <2>1 DEF Kept
  <2>2. CASE i \notin 1 .. Len(a) - Len(w)
    <3>1. PICK j \in 1 .. d : i = Len(a) - Len(w) + j
      <4>1. i - (Len(a) - Len(w)) \in 1 .. d /\ i = Len(a) - Len(w) + (i - (Len(a) - Len(w)))
        BY <1>1, <2>2 DEF Kept
      <4>2. QED
        BY <4>1
    <3>2. j \in 1 .. Len(w) /\ w[j] <= clock - Span
      <4>1. w[j] <= clock - Span
        BY <1>2
      <4>2. j \in 1 .. Len(w)
        BY <1>1
      <4>3. QED
        BY <4>1, <4>2
    <3>3. w[j] = a[Len(a) - Len(w) + j]
      BY <3>2 DEF Kept
    <3>4. QED
      BY <3>1, <3>2, <3>3
  <2>3. QED
    BY <2>1, <2>2
<1>5. Kept(Alive(w), a)
  <2>1. /\ Len(w) - d <= Limit /\ Len(w) - d <= Len(a) /\ Len(a) <= Limit + 1
        /\ Len(Alive(w)) = Len(w) - d
    BY <1>1, <1>2, SMTT(40) DEF Kept
  <2>2. QED
    BY <1>3, <1>4, <2>1 DEF Kept
<1>6. ASSUME Len(Alive(w)) = Limit
      PROVE  Len(w) = Limit /\ Alive(w)[1] = w[1] /\ w[1] \in Nat /\ w[1] > clock - Span
  <2>1. Len(w) <= Limit /\ Len(w) - d = Limit
    BY <1>2, <1>6 DEF Kept
  <2>2. d = 0 /\ Len(w) = Limit /\ 1 \in 1 .. Len(w) - d /\ d + 1 = 1 /\ d < Len(w) /\ 1 \in 1 .. Len(w)
    BY <1>1, <2>1
  <2>3. Alive(w)[1] = w[d + 1] /\ w[d + 1] > clock - Span
    BY <1>2, <2>2
  <2>4. QED
    BY <2>2, <2>3, Marks
<1>7. QED
  BY <1>1, <1>2, <1>5, <1>6

LEMMA AdmitKeeps ==
  ASSUME clock \in Nat, NEW w \in Seq(Nat), NEW a \in Seq(Nat), Kept(w, a), Len(w) < Limit,
         NEW b, b = IF Len(a) <= Limit THEN Append(a, clock) ELSE Append(Tail(a), clock)
  PROVE  /\ Kept(Append(w, clock), b)
         /\ Append(w, clock) \in Seq(Nat) /\ b \in Seq(Nat)
         /\ Len(b) > Limit => b[Limit + 1] - b[1] >= Span
<1>1. /\ Len(w) \in Nat /\ Len(a) \in Nat /\ Limit \in Nat \ {0} /\ Span \in Nat
      /\ \A i \in 1 .. Len(a) : a[i] \in Nat
  BY Marks, GateAssumption
<1>2. /\ Append(w, clock) \in Seq(Nat) /\ Len(Append(w, clock)) = Len(w) + 1
      /\ \A i \in 1 .. Len(w) : Append(w, clock)[i] = w[i]
      /\ Append(w, clock)[Len(w) + 1] = clock
  BY <1>1
<1>3. PICK s \in {0, 1} :
        /\ b \in Seq(Nat) /\ Len(b) = Len(a) + 1 - s /\ Len(b) <= Limit + 1 /\ s <= Len(a)
        /\ s = 1 => Len(a) = Limit + 1
        /\ \A i \in 1 .. Len(a) - s : b[i] = a[i + s]
        /\ b[Len(a) + 1 - s] = clock
  <2>1. CASE Len(a) <= Limit
    <3>1. b = Append(a, clock)
      BY <2>1
    <3>2. /\ b \in Seq(Nat) /\ Len(b) = Len(a) + 1 /\ b[Len(a) + 1] = clock
          /\ \A i \in 1 .. Len(a) : b[i] = a[i]
      BY <1>1, <3>1
    <3>3. /\ Len(b) = Len(a) + 1 - 0 /\ Len(b) <= Limit + 1 /\ 0 <= Len(a) /\ b[Len(a) + 1 - 0] = clock
          /\ \A i \in 1 .. Len(a) - 0 : b[i] = a[i + 0]
      BY <1>1, <2>1, <3>2
    <3>4. QED
      BY <3>2, <3>3
  <2>2. CASE Len(a) > Limit
    <3>1. b = Append(Tail(a), clock) /\ Len(a) = Limit + 1
      BY <1>1, <2>2 DEF Kept
    <3>2. /\ Tail(a) \in Seq(Nat) /\ Len(Tail(a)) = Len(a) - 1
          /\ \A i \in 1 .. Len(a) - 1 : Tail(a)[i] = a[i + 1]
      BY <1>1, <3>1
    <3>3. /\ b \in Seq(Nat) /\ Len(b) = Len(a) + 1 - 1 /\ b[Len(a) + 1 - 1] = clock
          /\ \A i \in 1 .. Len(a) - 1 : b[i] = Tail(a)[i]
      BY <1>1, <3>1, <3>2
    <3>4. QED
      BY <1>1, <3>1, <3>2, <3>3
  <2>3. QED
    BY <1>1, <2>1, <2>2
<1> DEFINE n == Len(w)
           k == Len(a)
           l == Len(b)
<1>lengths. /\ n \in Nat /\ k \in Nat /\ l \in Nat /\ s \in Nat /\ s <= 1 /\ l = k + 1 - s /\ l <= Limit + 1
      /\ s <= k /\ (s = 1 => k = Limit + 1) /\ n < Limit /\ n <= k /\ k <= Limit + 1
      /\ Limit \in Nat \ {0}
  BY <1>1, <1>3 DEF Kept
<1>suffix. \A i \in 1 .. n : w[i] = a[k - n + i]
  BY DEF Kept
<1>old. \A i \in 1 .. k - n : a[i] <= clock - Span
  BY DEF Kept
<1>shifted. \A i \in 1 .. k - s : b[i] = a[i + s]
  BY <1>3
<1>last. b[l] = clock
  BY <1>3
<1> HIDE DEF n, k, l
<1>4. \A i \in 1 .. n + 1 : Append(w, clock)[i] = b[l - (n + 1) + i]
  <2>1. ASSUME NEW i \in 1 .. n
        PROVE  Append(w, clock)[i] = b[l - (n + 1) + i]
    <3>1. w[i] = a[k - n + i] /\ Append(w, clock)[i] = w[i]
      BY <1>2, <1>suffix DEF n
    <3>2. PICK j \in 1 .. k - s : j = l - (n + 1) + i
      <4>1. l - (n + 1) + i \in 1 .. k - s
        BY <1>lengths
      <4>2. QED
        BY <4>1
    <3>3. b[j] = a[j + s]
      BY <1>shifted
    <3>4. j + s = k - n + i
      BY <1>lengths, <3>2
    <3>5. QED
      BY <3>1, <3>2, <3>3, <3>4
  <2>2. Append(w, clock)[n + 1] = b[l - (n + 1) + (n + 1)]
    <3>1. l - (n + 1) + (n + 1) = l
      BY <1>lengths
    <3>2. QED
      BY <1>2, <1>last, <3>1 DEF n
  <2>3. ASSUME NEW i \in 1 .. n + 1 PROVE i \in 1 .. n \/ i = n + 1
    BY <1>lengths
  <2>4. QED
    BY <2>1, <2>2, <2>3
<1>5. \A i \in 1 .. l - (n + 1) : b[i] <= clock - Span
  <2>1. SUFFICES ASSUME NEW i \in 1 .. l - (n + 1) PROVE b[i] <= clock - Span
    OBVIOUS
  <2>2. i \in 1 .. k - s /\ i + s \in 1 .. k - n
    BY <1>lengths
  <2>3. b[i] = a[i + s] /\ a[i + s] <= clock - Span
    BY <1>old, <1>shifted, <2>2
  <2>4. QED
    BY <2>3
<1>6. Kept(Append(w, clock), b)
  <2>1. Len(Append(w, clock)) = n + 1 /\ Len(b) = l
    BY <1>2 DEF n, l
  <2>2. n + 1 <= Limit /\ n + 1 <= l /\ l <= Limit + 1
    BY <1>lengths
  <2>3. QED
    BY <1>4, <1>5, <2>1, <2>2 DEF Kept
<1>7. ASSUME Len(b) > Limit PROVE b[Limit + 1] - b[1] >= Span
  <2>0. l > Limit
    BY <1>7 DEF l
  <2>1. l = Limit + 1 /\ l - (n + 1) \in Nat /\ l - (n + 1) >= 1 /\ 1 \in 1 .. l
    BY <1>lengths, <2>0
  <2>first. 1 \in 1 .. l - (n + 1)
    BY <2>1
  <2>firstOld. b[1] <= clock - Span
    BY <1>5, <2>first
  <2>2. b[1] <= clock - Span /\ b[Limit + 1] = clock
    BY <1>last, <2>1, <2>firstOld
  <2>3. b[1] \in Nat /\ Span \in Nat
    BY <1>1, <1>3, <2>1, Marks DEF l
  <2>4. \A x \in Nat : x <= clock - Span => clock - x >= Span
    BY <2>3
  <2>5. QED
    BY <2>2, <2>3, <2>4
<1>8. QED
  BY <1>2, <1>3, <1>6, <1>7

LEMMA GateTypes ==
  ASSUME GateInv
  PROVE  /\ clock \in Nat \ {0} /\ MaxClock \in Nat /\ clock <= MaxClock
         /\ Limit \in Nat \ {0} /\ Span \in Nat /\ Second \in Nat \ {0} /\ SweepEvery \in Nat \ {0}
         /\ MaxAge \in Nat \ {0} /\ TokenLife \in Nat \ {0} /\ Owner \in Merchant
         /\ GateTypeOK
         /\ \A c \in Client : /\ windows[c] \in Seq(Nat) /\ admitted[c] \in Seq(Nat) /\ retry[c] \in Nat
                              /\ Kept(windows[c], admitted[c])
<1>1. GateTypeOK /\ WindowKept
  BY DEF GateInv
<1>2. /\ MaxClock \in Nat \ {0} /\ Limit \in Nat \ {0} /\ Span \in Nat /\ Second \in Nat \ {0}
      /\ SweepEvery \in Nat \ {0} /\ MaxAge \in Nat \ {0} /\ TokenLife \in Nat \ {0}
      /\ Owner \in Merchant
  BY GateAssumption
<1>3. clock \in Nat \ {0} /\ clock <= MaxClock
  BY <1>1, <1>2 DEF GateTypeOK
<1>4. \A c \in Client : windows[c] \in Seq(Nat) /\ admitted[c] \in Seq(Nat) /\ retry[c] \in Nat
  BY <1>1 DEF GateTypeOK
<1>5. \A c \in Client : Kept(windows[c], admitted[c])
  BY <1>1 DEF WindowKept, Kept
<1>6. QED
  BY <1>1, <1>2, <1>3, <1>4, <1>5

\* One request: its own window, and what a sweep leaves of the others'.
LEMMA RequestKeeps ==
  ASSUME GateInv, NEW c \in Client, Request(c)
  PROVE  /\ windows' \in [Client -> Seq(Nat)] /\ admitted' \in [Client -> Seq(Nat)]
         /\ retry' \in [Client -> Nat] /\ sinceSweep' \in 0 .. SweepEvery - 1
         /\ WindowKept' /\ NeverOverLimit' /\ RetryTold'
<1>1. /\ clock \in Nat \ {0} /\ Limit \in Nat \ {0} /\ Span \in Nat /\ Second \in Nat \ {0}
      /\ \A e \in Client : /\ windows[e] \in Seq(Nat) /\ admitted[e] \in Seq(Nat) /\ retry[e] \in Nat
                           /\ Kept(windows[e], admitted[e])
      /\ windows \in [Client -> Seq(Nat)] /\ admitted \in [Client -> Seq(Nat)]
      /\ retry \in [Client -> Nat]
  BY GateTypes DEF GateTypeOK
<1>2. clock' = clock
  BY DEF Request
<1>3. sinceSweep' \in 0 .. SweepEvery - 1
  <2>0. SweepEvery \in Nat \ {0} /\ GateTypeOK
    BY GateTypes
  <2>1. SweepEvery \in Nat \ {0} /\ sinceSweep + 1 \in Nat
    BY <2>0 DEF GateTypeOK
  <2>2. sinceSweep' = (sinceSweep + 1) % SweepEvery
    BY DEF Request
  <2>3. QED
    BY <2>1, <2>2
<1>4. \A e \in Client :
        /\ Alive(windows[e]) \in Seq(Nat) /\ Kept(Alive(windows[e]), admitted[e])
        /\ Len(Alive(windows[e])) \in Nat /\ Len(Alive(windows[e])) <= Len(windows[e])
        /\ Len(Alive(windows[e])) = Limit =>
             /\ Len(windows[e]) = Limit /\ Alive(windows[e])[1] = windows[e][1]
             /\ windows[e][1] \in Nat /\ windows[e][1] > clock - Span
  BY <1>1, PruneKeeps
<1> DEFINE alive == Alive(windows[c])
           base  == IF sinceSweep' = 0 THEN Swept ELSE windows
<1>5. /\ base \in [Client -> Seq(Nat)]
      /\ \A e \in Client : base[e] \in {windows[e], Alive(windows[e])}
  BY <1>1, <1>4 DEF Swept
<1>6. windows' = [base EXCEPT ![c] = Recorded(c)]
  BY DEF Request
<1> HIDE DEF base
<1>7. \A e \in Client \ {c} :
        /\ windows'[e] \in Seq(Nat) /\ Kept(windows'[e], admitted[e])
        /\ Len(windows'[e]) = Limit => Len(windows[e]) = Limit /\ windows'[e][1] = windows[e][1]
  BY <1>1, <1>4, <1>5, <1>6
<1>8. \A e \in Client \ {c} : admitted'[e] = admitted[e] /\ retry'[e] = retry[e]
  BY <1>1 DEF Request
<1>9. /\ \A e \in Client : RetryTold /\ retry[e] # 0 /\ Len(windows[e]) = Limit => windows[e][1] + Span <= retry[e]
      /\ \A e \in Client : Len(admitted[e]) > Limit => admitted[e][Limit + 1] - admitted[e][1] >= Span
      /\ RetryTold
  BY DEF GateInv, RetryTold, NeverOverLimit
\* What remains is the client itself.
<1>10. SUFFICES ASSUME TRUE
       PROVE  /\ Recorded(c) \in Seq(Nat) /\ admitted' \in [Client -> Seq(Nat)] /\ retry' \in [Client -> Nat]
              /\ Kept(Recorded(c), admitted'[c])
              /\ Len(admitted'[c]) > Limit => admitted'[c][Limit + 1] - admitted'[c][1] >= Span
              /\ retry'[c] # 0 /\ Len(Recorded(c)) = Limit => Recorded(c)[1] + Span <= retry'[c]
  <2>1. windows' \in [Client -> Seq(Nat)] /\ windows'[c] = Recorded(c)
    BY <1>5, <1>6, <1>10
  <2>2. \A e \in Client : Kept(windows'[e], admitted'[e])
    BY <1>7, <1>8, <1>10, <2>1
  <2>3. WindowKept'
    BY <1>2, <2>2 DEF WindowKept, Kept
  <2>4. NeverOverLimit'
    BY <1>8, <1>9, <1>10 DEF NeverOverLimit
  <2>5. RetryTold'
    BY <1>7, <1>8, <1>9, <1>10, <2>1 DEF RetryTold
  <2>6. QED
    BY <1>3, <1>10, <2>1, <2>3, <2>4, <2>5
<1>11. CASE Admits(c)
  <2>1. /\ Len(alive) < Limit /\ Recorded(c) = Append(alive, clock)
        /\ admitted' = [admitted EXCEPT ![c] = IF Len(admitted[c]) <= Limit THEN Append(admitted[c], clock)
                                               ELSE Append(Tail(admitted[c]), clock)]
        /\ retry' = [retry EXCEPT ![c] = 0]
    BY <1>1, <1>4, <1>11, SMTT(40) DEF Admits, Recorded, Request
  <2>2. /\ admitted'[c] = (IF Len(admitted[c]) <= Limit THEN Append(admitted[c], clock)
                           ELSE Append(Tail(admitted[c]), clock))
        /\ retry'[c] = 0 /\ retry' \in [Client -> Nat]
    BY <1>1, <2>1
  <2>3. /\ Kept(Append(alive, clock), admitted'[c])
        /\ Append(alive, clock) \in Seq(Nat) /\ admitted'[c] \in Seq(Nat)
        /\ Len(admitted'[c]) > Limit => admitted'[c][Limit + 1] - admitted'[c][1] >= Span
    BY <1>1, <1>4, <2>1, <2>2, AdmitKeeps
  <2>4. admitted' \in [Client -> Seq(Nat)]
    BY <1>1, <2>1, <2>2, <2>3
  <2>5. QED
    BY <2>1, <2>2, <2>3, <2>4
<1>12. CASE ~Admits(c)
  <2>1. /\ Len(alive) = Limit /\ Recorded(c) = alive /\ admitted' = admitted
        /\ retry' = [retry EXCEPT ![c] = IF retry[c] = 0 THEN clock + ResetSeconds(c) * Second ELSE retry[c]]
    <3>1. ~(Len(alive) < Limit)
      BY <1>12 DEF Admits
    <3>2. Len(alive) \in Nat /\ Len(alive) <= Limit
      BY <1>4 DEF Kept
    <3>3. Len(alive) = Limit /\ Recorded(c) = alive
      BY <1>1, <3>1, <3>2 DEF Recorded
    <3>4. QED
      BY <1>12, <3>3 DEF Request
  <2>2. /\ Len(windows[c]) = Limit /\ alive[1] = windows[c][1]
        /\ windows[c][1] \in Nat /\ windows[c][1] > clock - Span
    BY <1>4, <2>1
  <2>3. /\ ResetSeconds(c) * Second \in Nat
        /\ clock + ResetSeconds(c) * Second >= windows[c][1] + Span
    <3>1. PICK left \in Nat : left = alive[1] + Span - clock
      <4>1. alive[1] + Span - clock \in Nat
        BY <1>1, <2>2
      <4>2. QED
        BY <4>1
    <3>2. ResetSeconds(c) = (left + Second - 1) \div Second
      BY <3>1 DEF ResetSeconds
    <3>3. ResetSeconds(c) * Second \in Nat /\ ResetSeconds(c) * Second >= left
      BY <1>1, <3>2, RoundedUp
    <3>4. PICK wait \in Nat : wait = ResetSeconds(c) * Second
      BY <3>3
    <3>5. wait >= left /\ clock + wait >= windows[c][1] + Span
      BY <1>1, <2>2, <3>1, <3>3, <3>4, SMTT(40)
    <3>6. QED
      BY <3>3, <3>4, <3>5
  <2>4. retry' \in [Client -> Nat] /\ retry'[c] >= windows[c][1] + Span
    <3>1. CASE retry[c] = 0
      BY <1>1, <2>1, <2>3, <3>1
    <3>2. CASE retry[c] # 0
      BY <1>1, <1>9, <2>1, <2>2, <3>2
    <3>3. QED
      BY <3>1, <3>2
  <2>5. QED
    BY <1>1, <1>4, <1>9, <2>1, <2>2, <2>4
<1>13. QED
  BY <1>11, <1>12

(***************************************************************************)
(* Sign-in, and the name of the plan.                                      *)
(***************************************************************************)

Message == [wallet : Merchant, by : Merchant, at : Nat]

LEMMA SignTypes ==
  ASSUME GateInv
  PROVE  /\ signed \in Seq(Message) /\ Len(signed) \in Nat /\ DOMAIN signed = 1 .. Len(signed)
         /\ \A m \in DOMAIN signed : signed[m] \in Message /\ signed[m].at \in Nat /\ m \in Messages
         /\ Len(signed) <= MaxSigned
         /\ nonces \in [Messages -> Nat] /\ verifying \in [Messages -> Nat]
         /\ firstUsed \in [Messages -> Nat] /\ bought \in [Messages -> Nat]
         /\ token \in [Merchant -> Nat]
         /\ naming \in [merchant : Merchant, terms : Int] /\ row \in [merchant : Merchant, terms : Int]
<1>1. signed \in Seq(Message)
  BY DEF GateInv, GateTypeOK, Message
<1>2. Len(signed) \in Nat /\ DOMAIN signed = 1 .. Len(signed) /\ \A m \in DOMAIN signed : signed[m] \in Message
  BY <1>1
<1>3. \A m \in DOMAIN signed : signed[m].at \in Nat
  BY <1>2 DEF Message
<1>4. Len(signed) <= MaxSigned /\ MaxSigned \in Nat
  BY GateAssumption DEF GateInv, GateTypeOK
<1>5. \A m \in DOMAIN signed : m \in Messages
  BY <1>2, <1>4 DEF Messages
<1>6. QED
  BY <1>1, <1>2, <1>3, <1>4, <1>5 DEF GateInv, GateTypeOK

\* A new message stands behind the others.
LEMMA SignAppends ==
  ASSUME GateInv, Sign
  PROVE  /\ signed' \in Seq(Message) /\ Len(signed') <= MaxSigned
         /\ DOMAIN signed \subseteq DOMAIN signed'
         /\ DOMAIN signed' \subseteq DOMAIN signed \cup {Len(signed) + 1}
         /\ Len(signed) + 1 \notin DOMAIN signed
         /\ \A m \in DOMAIN signed : signed'[m] = signed[m]
         /\ \A m \in DOMAIN signed' : signed'[m].at \in Nat
<1>1. PICK wallet \in Merchant, by \in Merchant, skew \in {-1, 0, 1} :
        signed' = Append(signed, [wallet |-> wallet, by |-> by, at |-> clock + skew])
  BY DEF Sign
<1>2. clock + skew \in Nat
  BY GateTypes
<1>3. PICK new \in Message : signed' = Append(signed, new)
  BY <1>1, <1>2 DEF Message
<1>4. /\ signed \in Seq(Message) /\ Len(signed) \in Nat /\ DOMAIN signed = 1 .. Len(signed)
      /\ \A m \in DOMAIN signed : signed[m].at \in Nat
  BY SignTypes
<1>5. /\ signed' \in Seq(Message) /\ DOMAIN signed' = 1 .. Len(signed) + 1
      /\ Len(signed') = Len(signed) + 1
      /\ \A m \in 1 .. Len(signed) : signed'[m] = signed[m]
      /\ signed'[Len(signed) + 1] = new
  BY <1>3, <1>4
<1>6. new.at \in Nat
  BY DEF Message
<1>7. Len(signed') <= MaxSigned
  <2>1. Len(signed) < MaxSigned /\ MaxSigned \in Nat
    BY GateAssumption DEF Sign
  <2>2. QED
    BY <1>4, <1>5, <2>1
<1>8. QED
  BY <1>4, <1>5, <1>6, <1>7

\* A message that was presented stays used for as long as it is fresh.
LEMMA NoncesKeep ==
  ASSUME GateInv, Sign \/ \E m \in Messages : SignIn(m) \/ Verified(m)
  PROVE  /\ nonces' \in [Messages -> Nat] /\ verifying' \in [Messages -> Nat]
         /\ firstUsed' \in [Messages -> Nat] /\ bought' \in [Messages -> Nat]
         /\ NonceKept'
<1>1. /\ clock \in Nat \ {0} /\ MaxAge \in Nat \ {0} /\ NonceKept
  BY GateTypes DEF GateInv
<1>2. /\ nonces \in [Messages -> Nat] /\ verifying \in [Messages -> Nat]
      /\ firstUsed \in [Messages -> Nat] /\ bought \in [Messages -> Nat]
      /\ \A m \in DOMAIN signed : signed[m].at \in Nat
  BY SignTypes
<1>3. CASE Sign
  <2>1. /\ UNCHANGED <<clock, nonces, verifying, firstUsed, bought>>
        /\ DOMAIN signed \subseteq DOMAIN signed' /\ \A m \in DOMAIN signed : signed'[m] = signed[m]
    BY <1>3, SignAppends DEF Sign
  <2>2. QED
    BY <1>1, <1>2, <2>1 DEF NonceKept
<1>4. ASSUME NEW m \in Messages, SignIn(m)
      PROVE  /\ nonces' \in [Messages -> Nat] /\ verifying' \in [Messages -> Nat]
             /\ firstUsed' \in [Messages -> Nat] /\ bought' = bought
             /\ NonceKept'
  <2>1. /\ m \in DOMAIN signed /\ Distance(m) <= MaxAge /\ UNCHANGED <<clock, signed, bought>>
        /\ firstUsed' = [firstUsed EXCEPT ![m] = IF firstUsed[m] = 0 THEN clock ELSE firstUsed[m]]
    BY <1>4 DEF SignIn, Fresh
  <2>2. \/ /\ Forgotten[m] = 0 /\ nonces' = [Forgotten EXCEPT ![m] = clock + MaxAge]
           /\ verifying' = [verifying EXCEPT ![m] = verifying[m] + 1]
        \/ Forgotten[m] # 0 /\ nonces' = Forgotten /\ verifying' = verifying
    BY <1>4 DEF SignIn, Claim
  <2>3. Forgotten \in [Messages -> Nat] /\ \A e \in Messages : Forgotten[e] = IF nonces[e] <= clock THEN 0 ELSE nonces[e]
    BY <1>2 DEF Forgotten
  <2>4. /\ nonces' \in [Messages -> Nat] /\ verifying' \in [Messages -> Nat] /\ firstUsed' \in [Messages -> Nat]
        /\ firstUsed'[m] = (IF firstUsed[m] = 0 THEN clock ELSE firstUsed[m])
        /\ \A e \in Messages \ {m} : /\ nonces'[e] = Forgotten[e] /\ verifying'[e] = verifying[e]
                                     /\ firstUsed'[e] = firstUsed[e]
    <3>1. /\ firstUsed' \in [Messages -> Nat]
          /\ firstUsed'[m] = (IF firstUsed[m] = 0 THEN clock ELSE firstUsed[m])
          /\ \A e \in Messages \ {m} : firstUsed'[e] = firstUsed[e]
      BY <1>1, <1>2, <2>1
    <3>2. /\ nonces' \in [Messages -> Nat] /\ \A e \in Messages \ {m} : nonces'[e] = Forgotten[e]
      BY <1>1, <2>2, <2>3
    <3>3. /\ verifying' \in [Messages -> Nat] /\ \A e \in Messages \ {m} : verifying'[e] = verifying[e]
      BY <1>2, <2>2
    <3>4. QED
      BY <3>1, <3>2, <3>3
  <2>5. ASSUME NEW e \in Messages \ {m}
        PROVE  /\ firstUsed'[e] <= clock'
               /\ firstUsed'[e] = 0 => nonces'[e] = 0 /\ verifying'[e] = 0 /\ bought'[e] = 0
               /\ firstUsed'[e] # 0 =>
                    /\ e \in DOMAIN signed'
                    /\ signed'[e].at < firstUsed'[e] =>
                         /\ bought'[e] + verifying'[e] <= 1
                         /\ nonces'[e] = firstUsed'[e] + MaxAge \/ clock' >= firstUsed'[e] + MaxAge
    <3>1. nonces[e] \in Nat /\ firstUsed[e] \in Nat
      BY <1>2
    <3>2. nonces'[e] = IF nonces[e] <= clock THEN 0 ELSE nonces[e]
      BY <2>3, <2>4
    <3>3. QED
      BY <1>1, <2>1, <2>4, <3>1, <3>2 DEF NonceKept
  \* Presented first: its nonce is taken. Again: it is refused while the nonce is known, and
  \* not fresh after that.
  <2>6. /\ firstUsed'[m] <= clock' /\ firstUsed'[m] # 0
        /\ signed[m].at < firstUsed'[m] =>
             /\ bought[m] + verifying'[m] <= 1
             /\ nonces'[m] = firstUsed'[m] + MaxAge \/ clock >= firstUsed'[m] + MaxAge
    <3>1. /\ nonces[m] \in Nat /\ firstUsed[m] \in Nat /\ verifying[m] \in Nat /\ bought[m] \in Nat
          /\ signed[m].at \in Nat
      BY <1>2, <2>1
    <3>2. CASE firstUsed[m] = 0
      <4>1. nonces[m] = 0 /\ verifying[m] = 0 /\ bought[m] = 0 /\ Forgotten[m] = 0
        BY <1>1, <2>3, <3>2 DEF NonceKept
      <4>2. nonces'[m] = clock + MaxAge /\ verifying'[m] = 1
        BY <1>2, <2>2, <2>3, <4>1
      <4>3. QED
        BY <1>1, <2>1, <2>4, <3>2, <4>1, <4>2
    <3>3. CASE firstUsed[m] # 0
      <4>1. firstUsed'[m] = firstUsed[m] /\ firstUsed[m] <= clock
        BY <1>1, <2>4, <3>3 DEF NonceKept
      <4>2. SUFFICES ASSUME signed[m].at < firstUsed[m]
                     PROVE  /\ bought[m] + verifying'[m] <= 1
                            /\ nonces'[m] = firstUsed[m] + MaxAge \/ clock >= firstUsed[m] + MaxAge
        BY <2>1, <3>3, <4>1
      <4>3. /\ bought[m] + verifying[m] <= 1
            /\ nonces[m] = firstUsed[m] + MaxAge \/ clock >= firstUsed[m] + MaxAge
        BY <1>1, <3>3, <4>2 DEF NonceKept
      <4>4. clock - signed[m].at <= MaxAge
        BY <1>1, <2>1, <3>1, <4>1, <4>2 DEF Distance
      <4>5. clock < firstUsed[m] + MaxAge
        BY <1>1, <3>1, <4>2, <4>4
      <4>6. nonces[m] = firstUsed[m] + MaxAge /\ ~(nonces[m] <= clock) /\ nonces[m] # 0
        BY <1>1, <3>1, <4>3, <4>5
      <4>7. Forgotten[m] = nonces[m]
        BY <2>3, <4>6
      <4>8. nonces'[m] = nonces[m] /\ verifying' = verifying
        BY <2>2, <4>6, <4>7
      <4>9. QED
        BY <4>3, <4>6, <4>8
    <3>4. QED
      BY <3>2, <3>3
  <2>7. NonceKept'
    BY <2>1, <2>5, <2>6 DEF NonceKept
  <2>8. QED
    BY <2>1, <2>4, <2>7
<1>5. ASSUME NEW m \in Messages, Verified(m)
      PROVE  /\ verifying' \in [Messages -> Nat] /\ bought' \in [Messages -> Nat]
             /\ UNCHANGED <<nonces, firstUsed>> /\ NonceKept'
  <2>1. /\ verifying[m] > 0 /\ verifying' = [verifying EXCEPT ![m] = verifying[m] - 1]
        /\ bought' = bought \/ bought' = [bought EXCEPT ![m] = bought[m] + 1]
        /\ UNCHANGED <<clock, signed, nonces, firstUsed>>
    BY <1>5 DEF Verified
  <2>2. /\ verifying[m] \in Nat /\ bought[m] \in Nat /\ verifying[m] - 1 \in Nat
    BY <1>2, <2>1
  <2>3. /\ verifying' \in [Messages -> Nat] /\ bought' \in [Messages -> Nat]
        /\ verifying'[m] = verifying[m] - 1 /\ bought'[m] <= bought[m] + 1
        /\ \A e \in Messages \ {m} : verifying'[e] = verifying[e] /\ bought'[e] = bought[e]
    BY <1>2, <2>1, <2>2
  <2>4. firstUsed[m] # 0
    BY <1>1, <2>1, <2>2 DEF NonceKept
  <2>5. bought[m] + verifying[m] <= 1 => bought'[m] + verifying'[m] <= 1
    BY <1>2, <2>2, <2>3
  <2>6. ASSUME NEW e \in Messages
        PROVE  /\ firstUsed[e] <= clock
               /\ firstUsed[e] = 0 => nonces[e] = 0 /\ verifying'[e] = 0 /\ bought'[e] = 0
               /\ firstUsed[e] # 0 =>
                    /\ e \in DOMAIN signed
                    /\ signed[e].at < firstUsed[e] =>
                         /\ bought'[e] + verifying'[e] <= 1
                         /\ nonces[e] = firstUsed[e] + MaxAge \/ clock >= firstUsed[e] + MaxAge
    <3>1. CASE e = m
      BY <1>1, <2>4, <2>5, <3>1 DEF NonceKept
    <3>2. CASE e # m
      <4>1. verifying'[e] = verifying[e] /\ bought'[e] = bought[e]
        BY <2>3, <3>2
      <4>2. QED
        BY <1>1, <4>1 DEF NonceKept
    <3>3. QED
      BY <3>1, <3>2
  <2>7. NonceKept'
    BY <2>1, <2>6 DEF NonceKept
  <2>8. QED
    BY <2>1, <2>3, <2>7
<1>6. QED
  BY <1>2, <1>3, <1>4, <1>5 DEF Sign

\* Whoever names the plan holds a token it signed for, and is its owner.
LEMMA NamesKeep ==
  ASSUME GateInv,
         Sign \/ PlanChanges \/ NamePlan \/ ReadPlan \/ SavePlan \/ \E m \in Messages : SignIn(m) \/ Verified(m)
  PROVE  /\ signed' \in Seq(Message) /\ Len(signed') <= MaxSigned /\ token' \in [Merchant -> Nat]
         /\ naming' \in [merchant : Merchant, terms : Int] /\ row' \in [merchant : Merchant, terms : Int]
         /\ NamesVouched' /\ NamedByOwner'
<1>1. /\ clock \in Nat \ {0} /\ TokenLife \in Nat \ {0} /\ Owner \in Merchant /\ GateTypeOK
      /\ NamesVouched /\ NamedByOwner /\ NonceKept
  BY GateTypes DEF GateInv
<1>2. /\ signed \in Seq(Message) /\ Len(signed) <= MaxSigned /\ token \in [Merchant -> Nat]
      /\ naming \in [merchant : Merchant, terms : Int] /\ row \in [merchant : Merchant, terms : Int]
  BY SignTypes
<1>3. CASE Sign
  <2>1. /\ signed' \in Seq(Message) /\ Len(signed') <= MaxSigned /\ DOMAIN signed \subseteq DOMAIN signed'
        /\ \A m \in DOMAIN signed : signed'[m] = signed[m]
    BY <1>3, SignAppends
  <2>2. UNCHANGED <<token, naming, row>>
    BY <1>3 DEF Sign, nameVars
  <2>3. \A wallet : Vouched(wallet) => Vouched(wallet)'
    BY <2>1 DEF Vouched
  <2>4. NamedByOwner'
    BY <1>1, <2>1, <2>2 DEF NamedByOwner
  <2>5. NamesVouched'
    BY <1>1, <2>2, <2>3 DEF NamesVouched
  <2>6. QED
    BY <1>2, <2>1, <2>2, <2>4, <2>5
<1>4. CASE PlanChanges \/ \E m \in Messages : SignIn(m)
  <2>1. UNCHANGED <<signed, token, naming, row>>
    BY <1>4 DEF PlanChanges, SignIn, signVars, nameVars
  <2>2. QED
    BY <1>1, <1>2, <2>1 DEF NamesVouched, NamedByOwner, Vouched
<1>5. ASSUME NEW m \in Messages, Verified(m)
      PROVE  UNCHANGED <<signed, naming, row>> /\ token' \in [Merchant -> Nat] /\ NamesVouched' /\ NamedByOwner'
  <2>1. UNCHANGED <<signed, naming, row>> /\ verifying[m] > 0
    BY <1>5 DEF Verified, nameVars
  <2>2. m \in DOMAIN signed
    BY <1>1, <2>1 DEF NonceKept
  <2>3. signed[m].wallet \in Merchant
    BY <1>2, <2>2, SignTypes DEF Message
  <2>4. CASE token' = token
    BY <1>1, <1>2, <2>1, <2>4 DEF NamesVouched, NamedByOwner, Vouched
  <2>5. CASE /\ signed[m].wallet = signed[m].by
             /\ token' = [token EXCEPT ![signed[m].wallet] = clock + TokenLife]
    <3>1. Vouched(signed[m].wallet)
      BY <2>2, <2>5 DEF Vouched
    <3>2. /\ token' \in [Merchant -> Nat]
          /\ \A wallet \in Merchant : wallet # signed[m].wallet => token'[wallet] = token[wallet]
      BY <1>1, <1>2, <2>3, <2>5
    <3>3. \A wallet \in Merchant : token'[wallet] # 0 => Vouched(wallet)
      BY <1>1, <3>1, <3>2 DEF NamesVouched
    <3>4. QED
      BY <1>1, <2>1, <3>2, <3>3 DEF NamesVouched, NamedByOwner, Vouched
  <2>6. QED
    BY <1>5, <2>4, <2>5 DEF Verified
<1>6. CASE NamePlan
  <2>1. PICK merchant \in MerchantFromToken : naming' = [merchant |-> merchant, terms |-> 0]
    BY <1>6 DEF NamePlan
  <2>2. UNCHANGED <<signed, token, row>>
    BY <1>6 DEF NamePlan, signVars
  <2>3. merchant \in Merchant /\ Vouched(merchant)
    <3>1. merchant \in Merchant /\ token[merchant] \in Nat /\ token[merchant] > clock
      BY <1>2, <2>1 DEF MerchantFromToken
    <3>2. token[merchant] # 0
      BY <1>1, <3>1
    <3>3. QED
      BY <1>1, <3>1, <3>2 DEF NamesVouched
  <2>4. naming' \in [merchant : Merchant, terms : Int]
    BY <2>1, <2>3
  <2>5. naming'.merchant = merchant /\ naming'.terms = 0
    BY <2>1
  <2>6. QED
    BY <1>1, <1>2, <2>2, <2>3, <2>4, <2>5 DEF NamesVouched, NamedByOwner, Vouched
<1>7. CASE ReadPlan
  <2>1. /\ naming # NoNaming /\ plan \in Int /\ UNCHANGED <<signed, token, row>>
        /\ naming' = IF MayName(naming.merchant) THEN [naming EXCEPT !.terms = plan] ELSE NoNaming
    BY <1>1, <1>7 DEF ReadPlan, signVars, GateTypeOK
  <2>2. CASE naming' = NoNaming
    BY <1>1, <1>2, <2>1, <2>2 DEF NamesVouched, NamedByOwner, Vouched, NoNaming
  <2>3. CASE naming.merchant = Owner /\ naming' = [naming EXCEPT !.terms = plan] /\ plan \in Int
    <3>1. naming' \in [merchant : Merchant, terms : Int] /\ naming'.merchant = Owner
      BY <1>2, <2>3
    <3>2. Vouched(Owner)
      BY <1>1, <2>1, <2>3 DEF NamesVouched
    <3>3. QED
      BY <1>1, <1>2, <2>1, <3>1, <3>2 DEF NamesVouched, NamedByOwner, Vouched
  <2>4. QED
    BY <2>1, <2>2, <2>3 DEF MayName
<1>8. CASE SavePlan
  <2>1. /\ naming # NoNaming /\ naming.terms # 0 /\ row' = naming /\ naming' = NoNaming
        /\ UNCHANGED <<signed, token>>
    BY <1>8 DEF SavePlan, signVars
  <2>2. naming.merchant = Owner /\ Vouched(Owner)
    BY <1>1, <2>1 DEF NamesVouched
  <2>3. NoNaming \in [merchant : Merchant, terms : Int]
    BY <1>1 DEF NoNaming
  <2>4. QED
    BY <1>1, <1>2, <2>1, <2>2, <2>3 DEF NamesVouched, NamedByOwner, Vouched
<1>9. QED
  BY <1>2, <1>3, <1>4, <1>5, <1>6, <1>7, <1>8

(***************************************************************************)
(* The theorems.                                                           *)
(***************************************************************************)

\* Time passes: what was too old to count still is, what was remembered long enough too.
LEMMA TickKeeps == GateInv /\ Tick => GateInv'
<1> SUFFICES ASSUME GateInv, Tick PROVE GateInv'
  OBVIOUS
<1>1. /\ clock' = clock + 1 /\ clock < MaxClock /\ UNCHANGED <<limitVars, signVars, nameVars>>
      /\ clock \in Nat \ {0} /\ MaxClock \in Nat /\ Span \in Nat /\ MaxAge \in Nat \ {0}
  BY GateTypes DEF Tick
<1>2. GateTypeOK'
  BY <1>1, SMTT(40) DEF GateInv, GateTypeOK, limitVars, signVars, nameVars, Messages
<1>3. WindowKept'
  <2>1. SUFFICES ASSUME NEW c \in Client
                 PROVE  /\ Len(windows[c]) <= Limit /\ Len(windows[c]) <= Len(admitted[c])
                        /\ Len(admitted[c]) <= Limit + 1
                        /\ \A i \in 1 .. Len(windows[c]) :
                             windows[c][i] = admitted[c][Len(admitted[c]) - Len(windows[c]) + i]
                        /\ \A i \in 1 .. Len(admitted[c]) - Len(windows[c]) : admitted[c][i] <= clock' - Span
    BY <1>1 DEF WindowKept, limitVars
  <2>2. Kept(windows[c], admitted[c]) /\ admitted[c] \in Seq(Nat) /\ windows[c] \in Seq(Nat)
    BY GateTypes
  <2>3. ASSUME NEW i \in 1 .. Len(admitted[c]) - Len(windows[c]) PROVE admitted[c][i] <= clock' - Span
    <3>1. i \in 1 .. Len(admitted[c])
      BY <2>2, Marks
    <3>2. admitted[c][i] \in Nat /\ admitted[c][i] <= clock - Span
      BY <2>2, <3>1, Marks DEF Kept
    <3>3. QED
      BY <1>1, <3>2
  <2>4. QED
    BY <2>2, <2>3 DEF Kept
<1>4. NeverOverLimit' /\ RetryTold' /\ NamesVouched' /\ NamedByOwner'
  BY <1>1 DEF GateInv, NeverOverLimit, RetryTold, NamesVouched, NamedByOwner, Vouched, limitVars,
    signVars, nameVars
<1>5. NonceKept'
  <2>1. firstUsed \in [Messages -> Nat] /\ NonceKept
    BY SignTypes DEF GateInv
  <2>2. UNCHANGED <<signed, nonces, verifying, firstUsed, bought>>
    BY <1>1 DEF signVars
  <2>3. ASSUME NEW m \in Messages
        PROVE  /\ firstUsed[m] <= clock'
               /\ clock >= firstUsed[m] + MaxAge => clock' >= firstUsed[m] + MaxAge
    BY <1>1, <2>1 DEF NonceKept
  <2>4. QED
    BY <2>1, <2>2, <2>3 DEF NonceKept
<1>6. QED
  BY <1>2, <1>3, <1>4, <1>5 DEF GateInv

LEMMA GateStep == GateInv /\ [LimitNext \/ SignInNext]_gateVars => GateInv'
<1> SUFFICES ASSUME GateInv, [LimitNext \/ SignInNext]_gateVars PROVE GateInv'
  OBVIOUS
<1>1. CASE UNCHANGED gateVars
  BY <1>1 DEF GateInv, GateTypeOK, WindowKept, NeverOverLimit, RetryTold, NonceKept, NamesVouched,
    NamedByOwner, Vouched, gateVars, limitVars, signVars, nameVars
<1>2. CASE Tick
  BY <1>2, TickKeeps
<1>3. ASSUME NEW c \in Client, Request(c) PROVE GateInv'
  <2>1. /\ windows' \in [Client -> Seq(Nat)] /\ admitted' \in [Client -> Seq(Nat)]
        /\ retry' \in [Client -> Nat] /\ sinceSweep' \in 0 .. SweepEvery - 1
        /\ WindowKept' /\ NeverOverLimit' /\ RetryTold'
    BY <1>3, RequestKeeps
  <2>2. UNCHANGED <<clock, signVars, nameVars>>
    BY <1>3 DEF Request
  <2>3. GateTypeOK'
    BY <2>1, <2>2 DEF GateInv, GateTypeOK, signVars, nameVars
  <2>4. NonceKept' /\ NamesVouched' /\ NamedByOwner'
    BY <2>2 DEF GateInv, NonceKept, NamesVouched, NamedByOwner, Vouched, signVars, nameVars
  <2>5. QED
    BY <2>1, <2>3, <2>4 DEF GateInv
<1>4. ASSUME Sign \/ PlanChanges \/ NamePlan \/ ReadPlan \/ SavePlan
               \/ \E m \in Messages : SignIn(m) \/ Verified(m)
      PROVE  GateInv'
  <2>1. /\ signed' \in Seq(Message) /\ Len(signed') <= MaxSigned /\ token' \in [Merchant -> Nat]
        /\ naming' \in [merchant : Merchant, terms : Int] /\ row' \in [merchant : Merchant, terms : Int]
        /\ NamesVouched' /\ NamedByOwner'
    BY <1>4, NamesKeep
  <2>2. UNCHANGED <<clock, limitVars>>
    BY <1>4 DEF Sign, PlanChanges, NamePlan, ReadPlan, SavePlan, SignIn, Verified
  <2>3. /\ nonces' \in [Messages -> Nat] /\ verifying' \in [Messages -> Nat]
        /\ firstUsed' \in [Messages -> Nat] /\ bought' \in [Messages -> Nat] /\ NonceKept'
    <3>1. CASE Sign \/ \E m \in Messages : SignIn(m) \/ Verified(m)
      BY <3>1, NoncesKeep
    <3>2. CASE PlanChanges \/ NamePlan \/ ReadPlan \/ SavePlan
      <4>1. UNCHANGED <<clock, signVars>>
        BY <3>2 DEF PlanChanges, NamePlan, ReadPlan, SavePlan
      <4>2. QED
        BY <4>1, SignTypes DEF GateInv, NonceKept, signVars
    <3>3. QED
      BY <1>4, <3>1, <3>2
  <2>4. plan' \in Nat
    <3>1. plan \in Nat /\ MaxTerms \in Nat
      BY GateAssumption DEF GateInv, GateTypeOK
    <3>2. plan' = plan \/ plan' \in 1 .. MaxTerms \/ plan' = 0
      BY <1>4 DEF Sign, PlanChanges, NamePlan, ReadPlan, SavePlan, SignIn, Verified, nameVars
    <3>3. QED
      BY <3>1, <3>2
  <2>5. GateTypeOK'
    BY <2>1, <2>2, <2>3, <2>4 DEF GateInv, GateTypeOK, limitVars, Message
  <2>6. WindowKept' /\ NeverOverLimit' /\ RetryTold'
    BY <2>2 DEF GateInv, WindowKept, NeverOverLimit, RetryTold, limitVars
  <2>7. QED
    BY <2>1, <2>3, <2>5, <2>6 DEF GateInv
<1>5. QED
  BY <1>1, <1>2, <1>3, <1>4 DEF LimitNext, SignInNext

LEMMA ServiceInit == Init => ProcessInv /\ GateInv
<1> SUFFICES ASSUME Init PROVE ProcessInv /\ GateInv
  OBVIOUS
<1>1. ProcessInv
  <2>1. /\ schema = 0 /\ applied = [m \in 1 .. MaxRelease |-> 0] /\ lock = 0 /\ opened = 0
        /\ proc = [p \in Starts |-> Process(0, "none")]
        /\ MaxRelease \in Nat /\ MaxStarts \in Nat /\ MaxStreams \in Nat
    BY ProcessBounds DEF Init, ProcessInit
  <2>2. \A p \in Starts : proc[p] = Process(0, "none") /\ proc[p].at = "none" /\ p # 0
    BY <2>1 DEF Process, Starts
  <2>3. proc \in [Starts -> ProcessRow]
    BY <2>1 DEF Process, ProcessRow
  <2>4. ProcessTypeOK
    BY <2>1, <2>3 DEF ProcessTypeOK, ProcessRow
  <2>5. AppliedOnce
    BY <2>1 DEF AppliedOnce
  <2>6. LockHeld /\ LookHolds /\ Migrated /\ NeverOnOlder
    BY <2>1, <2>2 DEF LockHeld, LookHolds, Migrated, NeverOnOlder, At, Stopping
  <2>7. QED
    BY <2>4, <2>5, <2>6 DEF ProcessInv
<1>2. GateInv
  <2>1. GateInit /\ <<>> \in Seq(Nat) /\ <<>> \in Seq(Message) /\ Len(<<>>) = 0 /\ Owner \in Merchant
        /\ MaxClock \in Nat \ {0} /\ SweepEvery \in Nat \ {0} /\ Limit \in Nat \ {0}
    BY GateAssumption DEF Init
  <2>2. /\ \A c \in Client : windows[c] = <<>> /\ admitted[c] = <<>> /\ retry[c] = 0
        /\ \A m \in Messages : nonces[m] = 0 /\ verifying[m] = 0 /\ bought[m] = 0 /\ firstUsed[m] = 0
        /\ \A wallet \in Merchant : token[wallet] = 0
        /\ clock = 1 /\ naming = NoNaming /\ row = NoRow
    BY <2>1 DEF GateInit
  <2>3. GateTypeOK
    <3>1. clock \in 1 .. MaxClock /\ sinceSweep \in 0 .. SweepEvery - 1 /\ plan \in Nat
      BY <2>1, <2>2 DEF GateInit
    <3>2. windows \in [Client -> Seq(Nat)] /\ admitted \in [Client -> Seq(Nat)]
      BY <2>1 DEF GateInit
    <3>3. retry \in [Client -> Nat] /\ token \in [Merchant -> Nat]
      BY <2>1 DEF GateInit
    <3>4. {nonces, verifying, firstUsed, bought} \subseteq [Messages -> Nat]
      BY <2>1 DEF GateInit
    <3>5. signed = <<>> /\ MaxSigned \in Nat
      BY <2>1, GateAssumption DEF GateInit
    <3>6. signed \in Seq([wallet : Merchant, by : Merchant, at : Nat]) /\ Len(signed) <= MaxSigned
      BY <3>5
    <3>7. NoNaming \in [merchant : Merchant, terms : Int] /\ NoRow \in [merchant : Merchant, terms : Int]
      BY <2>1 DEF NoNaming, NoRow
    <3>8. QED
      BY <2>2, <3>1, <3>2, <3>3, <3>4, <3>6, <3>7 DEF GateTypeOK
  <2>4. WindowKept
    <3> SUFFICES ASSUME NEW c \in Client
                 PROVE  /\ Len(windows[c]) <= Limit /\ Len(windows[c]) <= Len(admitted[c])
                        /\ Len(admitted[c]) <= Limit + 1
                        /\ \A i \in 1 .. Len(windows[c]) :
                             windows[c][i] = admitted[c][Len(admitted[c]) - Len(windows[c]) + i]
                        /\ \A i \in 1 .. Len(admitted[c]) - Len(windows[c]) : admitted[c][i] <= clock - Span
      BY DEF WindowKept
    <3>1. Len(windows[c]) = 0 /\ Len(admitted[c]) = 0
      BY <2>1, <2>2
    <3>2. 1 .. 0 = {} /\ 1 .. 0 - 0 = {}
      OBVIOUS
    <3>3. QED
      BY <2>1, <3>1, <3>2
  <2>5. NeverOverLimit /\ RetryTold
    BY <2>1, <2>2 DEF NeverOverLimit, RetryTold
  <2>6. NonceKept /\ NamesVouched /\ NamedByOwner
    BY <2>2 DEF NonceKept, NamesVouched, NamedByOwner
  <2>7. QED
    BY <2>3, <2>4, <2>5, <2>6 DEF GateInv
<1>3. QED
  BY <1>1, <1>2

(* Whatever overlaps, dies or is asked at once: one session migrates at a  *)
(* time, a window holds the last admissions, a nonce outlives its message  *)
(* (migrate.ts, rateLimit.ts, auth.ts).                                    *)
THEOREM ServiceInvariance == Spec => [](ProcessInv /\ GateInv)
<1>1. ProcessInv /\ GateInv /\ [Next]_vars => (ProcessInv /\ GateInv)'
  <2> SUFFICES ASSUME ProcessInv, GateInv, [Next]_vars PROVE ProcessInv' /\ GateInv'
    OBVIOUS
  <2>1. [ProcessNext]_processVars /\ [LimitNext \/ SignInNext]_gateVars
    BY DEF Next, vars
  <2>2. QED
    BY <2>1, ProcessStep, GateStep
<1>2. QED
  BY <1>1, ServiceInit, PTL DEF Spec

(* Every migration is applied once and nothing runs on a schema older than *)
(* its own, however many processes start, overlap and die.                 *)
THEOREM SchemaIsOne == Spec => []SchemaHolds
<1>1. ProcessInv => SchemaHolds
  BY DEF ProcessInv, SchemaHolds
<1>2. QED
  BY <1>1, ServiceInvariance, PTL

(* No client is admitted above the limit in any window, one told when to   *)
(* come back is let in then, a signature buys one token, and the plan's    *)
(* name is its owner's.                                                    *)
THEOREM GateIsKept == Spec => []GateHolds
<1>1. GateInv => GateHolds
  <2> SUFFICES ASSUME GateInv PROVE GateHolds
    OBVIOUS
  <2>1. NeverOverLimit /\ NamedByOwner
    BY DEF GateInv
  <2>2. RetryKept
    <3>1. SUFFICES ASSUME NEW c \in Client, retry[c] # 0, clock >= retry[c]
                   PROVE  Len(Alive(windows[c])) < Limit
      BY DEF RetryKept, Admits
    <3>2. /\ clock \in Nat /\ Limit \in Nat /\ Span \in Nat
          /\ windows[c] \in Seq(Nat) /\ admitted[c] \in Seq(Nat) /\ retry[c] \in Nat
          /\ Kept(windows[c], admitted[c])
      BY GateTypes
    <3>3. /\ Len(Alive(windows[c])) \in Nat /\ Len(Alive(windows[c])) <= Len(windows[c])
          /\ Len(Alive(windows[c])) = Limit =>
               Len(windows[c]) = Limit /\ windows[c][1] \in Nat /\ windows[c][1] > clock - Span
      BY <3>2, PruneKeeps
    <3>4. Len(windows[c]) \in Nat /\ Len(windows[c]) <= Limit
      BY <3>2 DEF Kept
    <3>5. ASSUME Len(Alive(windows[c])) = Limit PROVE FALSE
      <4>1. windows[c][1] + Span <= retry[c]
        BY <3>1, <3>3, <3>5 DEF GateInv, RetryTold
      <4>2. QED
        BY <3>1, <3>2, <3>3, <3>5, <4>1
    <3>6. QED
      BY <3>2, <3>3, <3>4, <3>5
  <2>3. OneTokenEach
    <3>1. SUFFICES ASSUME NEW m \in DOMAIN signed, signed[m].at < firstUsed[m]
                   PROVE  bought[m] <= 1
      BY DEF OneTokenEach
    <3>2. /\ m \in Messages
          /\ signed[m].at \in Nat /\ firstUsed[m] \in Nat /\ bought[m] \in Nat /\ verifying[m] \in Nat
          /\ NonceKept
      BY <3>1, SignTypes DEF GateInv
    <3>3. firstUsed[m] # 0
      BY <3>1, <3>2
    <3>4. QED
      BY <3>1, <3>2, <3>3 DEF NonceKept
  <2>4. QED
    BY <2>1, <2>2, <2>3 DEF GateHolds
<1>2. QED
  BY <1>1, ServiceInvariance, PTL

-----------------------------------------------------------------------------
(***************************************************************************)
(* Sets of numbers, and the newest of some events.                         *)
(***************************************************************************)

\* Every set of numbers that has a bound has a greatest one.
LEMMA Greatest ==
  ASSUME NEW n \in Nat, NEW T \in SUBSET (0 .. n), T # {}
  PROVE  \E x \in T : \A y \in T : y <= x
<1> DEFINE U == {n - x : x \in T}
<1>1. U \in SUBSET Nat /\ U # {}
  <2>1. \A x \in T : x \in 0 .. n
    OBVIOUS
  <2>2. \A x \in T : n - x \in Nat
    BY <2>1
  <2> QED BY <2>2
<1>2. PICK u \in U : \A v \in U : u <= v
  BY <1>1, Least
<1>3. PICK x \in T : u = n - x
  BY <1>2
<1>4. ASSUME NEW y \in T PROVE y <= x
  <2>1. n - y \in U
    OBVIOUS
  <2> QED BY <1>2, <1>3, <2>1
<1> QED BY <1>4

\* The least and the greatest that are chosen are there.
LEMMA MinIs ==
  ASSUME NEW T \in SUBSET Nat, T # {}
  PROVE  Min(T) \in T /\ \A y \in T : Min(T) <= y
BY Least DEF Min

LEMMA MaxIs ==
  ASSUME NEW n \in Nat, NEW T \in SUBSET (0 .. n), T # {}
  PROVE  Max(T) \in T /\ \A y \in T : y <= Max(T)
<1>1. PICK x \in T : \A y \in T : y <= x
  BY Greatest
<1>2. \A y \in T : x >= y
  BY <1>1
<1>3. \A y \in T : Max(T) >= y
  BY <1>2 DEF Max
<1>4. Max(T) \in T
  BY <1>2 DEF Max
<1> QED BY <1>3, <1>4

\* The newest are some of them, and leave out none that is newer than one of them.
LEMMA NewestAbove ==
  ASSUME NEW n \in Nat, NEW s \in SUBSET (1 .. n), NEW k \in Nat,
         NEW i \in Newest(k, s), NEW j \in s, j > i
  PROVE  j \in Newest(k, s)
<1> DEFINE above(x) == {y \in s : y > x}
<1>1. IsFiniteSet(above(i)) /\ above(j) \in SUBSET above(i)
  <2>1. IsFiniteSet(1 .. n)
    BY FS_Interval
  <2>2. above(i) \in SUBSET (1 .. n)
    OBVIOUS
  <2>3. \A x \in 1 .. n : x > j => x > i
    BY DEF Newest
  <2> QED BY <2>1, <2>2, <2>3, FS_Subset
<1>2. /\ IsFiniteSet(above(j)) /\ Cardinality(above(j)) <= Cardinality(above(i))
      /\ Cardinality(above(i)) \in Nat /\ Cardinality(above(j)) \in Nat
  BY <1>1, FS_Subset, FS_CardinalityType
<1>3. Cardinality(above(i)) < k
  BY DEF Newest
<1>4. Cardinality(above(j)) < k
  BY <1>2, <1>3
<1> QED BY <1>4 DEF Newest

\* They are all when there are fewer, or when there is one too few of them.
LEMMA NewestAll ==
  ASSUME NEW n \in Nat, NEW s \in SUBSET (1 .. n), NEW k \in Nat, Cardinality(Newest(k, s)) < k
  PROVE  Newest(k, s) = s
<1>1. Newest(k, s) \in SUBSET s
  BY DEF Newest
<1>2. ASSUME s \ Newest(k, s) # {} PROVE FALSE
  <2>1. PICK i \in s \ Newest(k, s) : \A j \in s \ Newest(k, s) : j <= i
    <3> DEFINE rest == s \ Newest(k, s)
    <3>1. rest \in SUBSET (0 .. n) /\ rest # {}
      <4>1. \A x \in s : x \in 1 .. n
        OBVIOUS
      <4>2. \A x \in rest : x \in 0 .. n
        BY <4>1
      <4> QED BY <1>2, <4>2
    <3> HIDE DEF rest
    <3>2. PICK i \in rest : \A j \in rest : j <= i
      BY <3>1, Greatest
    <3> QED BY <3>2 DEF rest
  <2> DEFINE above == {y \in s : y > i}
  <2>2. above \in SUBSET Newest(k, s)
    <3>1. \A x \in s : x \in Nat /\ i \in Nat
      OBVIOUS
    <3>2. \A x \in above : x \in Newest(k, s)
      BY <2>1, <3>1
    <3> QED BY <3>2
  <2>3. IsFiniteSet(Newest(k, s))
    <3>1. IsFiniteSet(1 .. n)
      BY FS_Interval
    <3> QED BY <3>1, <1>1, FS_Subset
  <2>4. Cardinality(above) <= Cardinality(Newest(k, s)) /\ Cardinality(above) \in Nat
        /\ Cardinality(Newest(k, s)) \in Nat
    BY <2>2, <2>3, FS_Subset, FS_CardinalityType
  <2>5. Cardinality(above) < k
    BY <2>4
  <2> QED BY <2>1, <2>5 DEF Newest
<1> QED BY <1>1, <1>2

\* There are no more of them than were asked for.
LEMMA NewestFew ==
  ASSUME NEW n \in Nat, NEW s \in SUBSET (1 .. n), NEW k \in Nat, Cardinality(s) <= k
  PROVE  Newest(k, s) = s
<1>1. IsFiniteSet(s)
  <2>1. IsFiniteSet(1 .. n)
    BY FS_Interval
  <2> QED BY <2>1, FS_Subset
<1>2. ASSUME NEW i \in s PROVE i \in Newest(k, s)
  <2> DEFINE above == {y \in s : y > i}
  <2>1. above \in SUBSET s /\ i \in s /\ i \notin above
    OBVIOUS
  <2>2. /\ Cardinality(above) <= Cardinality(s) /\ Cardinality(above) \in Nat /\ Cardinality(s) \in Nat
        /\ Cardinality(above) # Cardinality(s)
    BY <1>1, <2>1, FS_Subset, FS_CardinalityType
  <2> QED BY <2>2 DEF Newest
<1> QED BY <1>2 DEF Newest

\* The newest of some is one of the first k.
LEMMA NewestSome ==
  ASSUME NEW n \in Nat, NEW s \in SUBSET (1 .. n), s # {}, NEW k \in Nat \ {0}
  PROVE  Newest(k, s) # {}
<1>1. PICK i \in s : \A j \in s : j <= i
  <2>1. \A x \in s : x \in 1 .. n
    OBVIOUS
  <2>2. s \in SUBSET (0 .. n)
    BY <2>1
  <2> QED BY <2>2, Greatest
<1>2. {j \in s : j > i} = {}
  <2>1. \A x \in s : x \in 1 .. n
    OBVIOUS
  <2>2. \A x \in s : x \in Int
    BY <2>1
  <2>3. \A x \in s : ~(x > i)
    BY <1>1, <2>2
  <2> QED BY <2>3
<1>3. i \in Newest(k, s)
  BY <1>2, FS_EmptySet DEF Newest
<1> QED BY <1>3

-----------------------------------------------------------------------------
(***************************************************************************)
(* The events that are stored, and what prunes them.                       *)
(***************************************************************************)

\* The bounds are positive numbers.
LEMMA FeedBounds ==
  /\ Days \in Nat \ {0} /\ Batch \in Nat \ {0} /\ PageLimit \in Nat \ {0}
  /\ MaxDay \in Nat \ {0} /\ MaxEvents \in Nat \ {0}
BY FeedAssumption

PassRow == [phase : {"idle", "deleting", "recording"}, now : 0 .. day]
RetentionRow == [keptSince : Int, ranAt : 0 .. day]
RequestRow == [phase : {"none", "creation", "rows", "oldest"}, got : Seq(PageType), pages : Nat,
               creation : Nat, rows : SUBSET Past]

\* The places of two keys do not meet.
LEMMA Times ==
  ASSUME NEW a \in Nat, NEW b \in Nat, NEW m \in Nat \ {0}
  PROVE  /\ a * m \in Nat /\ a <= a * m
         /\ a < b => a * m + m <= b * m
         /\ a <= b => a * m <= b * m
<1>1. \A x \in Nat : x * m \in Nat /\ x <= x * m
  OBVIOUS
<1>2. ASSUME a < b PROVE a * m + m <= b * m
  <2>1. PICK c \in Nat : b = a + 1 + c
    <3>1. b - a - 1 \in Nat /\ b = a + 1 + (b - a - 1)
      BY <1>2
    <3> QED BY <3>1
  <2>2. b * m = a * m + m + c * m
    BY <2>1
  <2>3. c * m \in Nat /\ a * m \in Nat
    BY <1>1
  <2> QED BY <2>2, <2>3
<1>3. a <= b => a * m <= b * m
  <2>1. CASE a = b
    BY <1>1, <2>1
  <2>2. CASE a < b
    BY <1>1, <1>2, <2>2
  <2> QED BY <2>1, <2>2
<1> QED BY <1>1, <1>2, <1>3

\* What the state of the pages is made of.
LEMMA Typed ==
  ASSUME FeedTypeOK
  PROVE  /\ day \in Nat \ {0} /\ start \in Nat \ {0} /\ Len(log) \in Nat /\ DOMAIN log = 1 .. Len(log)
         /\ log \in Seq(Happening) /\ stored \subseteq Past /\ filed \in [Past -> 1 .. Len(log)]
         /\ \A n \in 1 .. Len(log) :
              /\ log[n].kind \in {"created", "charged", "revoked"} /\ log[n].at \in Nat \ {0}
              /\ log[n].slot \in Nat \ {0} /\ log[n].position \in 0 .. 1
         /\ \A i \in Past : filed[i] \in 1 .. Len(log) /\ Event(i) = log[filed[i]]
         /\ Missing \subseteq start .. Len(log) /\ Missing \subseteq 1 .. Len(log)
<1>1. /\ day \in Nat \ {0} /\ start \in Nat \ {0} /\ stored \subseteq Past
      /\ log \in Seq(Happening) /\ filed \in [Past -> 1 .. Len(log)]
  BY DEF FeedTypeOK
<1>2. /\ Len(log) \in Nat /\ DOMAIN log = 1 .. Len(log)
      /\ \A n \in 1 .. Len(log) : log[n] \in Happening
  BY <1>1
<1>3. Missing \subseteq start .. Len(log) /\ Missing \subseteq 1 .. Len(log)
  BY <1>1, <1>2 DEF Missing
<1>4. \A i \in Past : filed[i] \in 1 .. Len(log) /\ Event(i) = log[filed[i]]
  BY <1>1 DEF Event
<1> QED BY <1>1, <1>2, <1>3, <1>4 DEF Happening

\* The key of an event and its places.
LEMMA KeyIs ==
  ASSUME NEW e, e.slot \in Nat \ {0}, e.position \in 0 .. 1
  PROVE  /\ Key(e) \in Nat /\ Key(e) >= 2 * e.slot /\ Key(e) <= 2 * e.slot + 1
         /\ First(e) \in Nat /\ First(e) >= 1 /\ First(e) = Key(e) * MaxEvents
         /\ \A i \in Places(e) : i \in Nat /\ First(e) <= i /\ i < First(e) + MaxEvents
<1>1. Key(e) \in Nat /\ Key(e) >= 2 * e.slot /\ Key(e) <= 2 * e.slot + 1 /\ Key(e) >= 1
  BY DEF Key
<1>2. First(e) \in Nat /\ First(e) >= Key(e) /\ First(e) = Key(e) * MaxEvents
  BY <1>1, Times, FeedBounds DEF First
<1> HIDE DEF Key, First
<1>3. \A i \in Places(e) : i \in Nat /\ First(e) <= i /\ i < First(e) + MaxEvents
  BY <1>2, FeedBounds DEF Places
<1> QED BY <1>1, <1>2, <1>3

\* What the order of the places says of the events: a later place is of no earlier slot and
\* position, and the places have a last one.
OrderTrue ==
  /\ \E n \in Nat : Past \subseteq 1 .. n
  /\ \A i \in Past : /\ i \in Nat /\ First(Event(i)) \in Nat /\ 1 <= First(Event(i)) /\ First(Event(i)) <= i
                     /\ Event(i).slot \in Nat
  /\ \A i, j \in Past : i >= j => First(Event(i)) >= First(Event(j))
  /\ \A i, j \in Past : i >= First(Event(j)) => Event(i).slot >= Event(j).slot

\* And so it is.
LEMMA OrderIs == FeedTypeOK /\ Chronicle => OrderTrue
<1> SUFFICES ASSUME FeedTypeOK, Chronicle PROVE OrderTrue
  OBVIOUS
<1>1. \A i \in Past : /\ filed[i] \in 1 .. Len(log) /\ Event(i) = log[filed[i]]
                      /\ Event(i).slot \in Nat \ {0} /\ Event(i).position \in 0 .. 1
                      /\ i \in Places(Event(i))
  BY Typed DEF Chronicle
<1>2. \A i \in Past : /\ Key(Event(i)) \in Nat /\ Key(Event(i)) >= 2 * Event(i).slot
                      /\ Key(Event(i)) <= 2 * Event(i).slot + 1
                      /\ First(Event(i)) \in Nat /\ First(Event(i)) >= 1
                      /\ First(Event(i)) = Key(Event(i)) * MaxEvents
                      /\ i \in Nat /\ First(Event(i)) <= i /\ i < First(Event(i)) + MaxEvents
  BY <1>1, KeyIs
<1>3. ASSUME NEW i \in Past, NEW j \in Past, i >= First(Event(j))
      PROVE  Key(Event(i)) >= Key(Event(j))
  <2>1. SUFFICES ASSUME Key(Event(i)) < Key(Event(j)) PROVE FALSE
    BY <1>2
  <2>2. First(Event(i)) + MaxEvents <= First(Event(j))
    BY <1>2, <2>1, Times, FeedBounds
  <2> QED BY <1>2, <1>3, <2>2, FeedBounds
<1>4. ASSUME NEW i \in Past, NEW j \in Past, i >= j PROVE First(Event(i)) >= First(Event(j))
  <2>1. i >= First(Event(j))
    BY <1>2, <1>4
  <2>2. Key(Event(j)) <= Key(Event(i))
    BY <1>2, <1>3, <2>1
  <2> QED BY <1>2, <2>2, Times, FeedBounds
<1>5. ASSUME NEW i \in Past, NEW j \in Past, i >= First(Event(j)) PROVE Event(i).slot >= Event(j).slot
  <2>1. Key(Event(i)) >= Key(Event(j))
    BY <1>3, <1>5
  <2>2. 2 * Event(j).slot <= 2 * Event(i).slot + 1
    BY <1>1, <1>2, <2>1
  <2> QED BY <1>1, <2>2
<1>6. \E n \in Nat : Past \subseteq 1 .. n
  <2>1. CASE Past = {}
    BY <2>1
  <2>2. CASE Past # {}
    <3> DEFINE final == Len(log)  n == (2 * log[final].slot + 2) * MaxEvents
    <3>1. final \in 1 .. Len(log) /\ Len(log) \in Nat
      BY <1>1, <2>2, Typed
    <3>2. log[final].slot \in Nat /\ 2 * log[final].slot + 2 \in Nat
      BY <3>1, Typed
    <3>3. n \in Nat
      BY <3>2, Times, FeedBounds
    <3>4. ASSUME NEW i \in Past PROVE i <= n
      <4>1. Event(i).slot <= log[final].slot
        <5>1. filed[i] \in 1 .. Len(log) /\ filed[i] <= final
          BY <1>1, <3>1
        <5> QED BY <1>1, <3>1, <5>1, Typed DEF Chronicle
      <4>2. Key(Event(i)) < 2 * log[final].slot + 2
        BY <1>1, <1>2, <3>2, <4>1
      <4>3. First(Event(i)) + MaxEvents <= n
        BY <1>2, <3>2, <4>2, Times, FeedBounds
      <4> QED BY <1>2, <3>3, <4>3, FeedBounds
    <3> HIDE DEF n
    <3>5. \A i \in Past : i \in 1 .. n
      BY <1>2, <3>3, <3>4
    <3> QED BY <3>3, <3>5
  <2> QED BY <2>1, <2>2
<1> QED BY <1>1, <1>2, <1>4, <1>5, <1>6 DEF OrderTrue

\* A page of stored events is one.
LEMMA PageTyped ==
  ASSUME FeedTypeOK, Chronicle, NEW rows \in SUBSET Past
  PROVE  Answer(rows) \in PageType
<1>1. Past \subseteq Nat /\ stored \subseteq Past /\ \A i \in Past : Event(i).at \in Nat
  BY OrderIs, Typed DEF OrderTrue
<1>2. OnPage(rows) \in SUBSET Past
  BY DEF OnPage, Newest
<1>3. Cursor(OnPage(rows)) \in Nat
  <2>1. CASE OnPage(rows) = {}
    BY <2>1 DEF Cursor
  <2>2. CASE OnPage(rows) # {}
    <3>1. OnPage(rows) \in SUBSET Nat
      BY <1>1, <1>2
    <3> QED BY <2>2, <3>1, MinIs DEF Cursor
  <2> QED BY <2>1, <2>2
<1>4. TruncatedAt \in Nat
  <2>1. CASE req.creation # 0 \/ stored = {}
    BY <2>1 DEF TruncatedAt
  <2>2. CASE ~(req.creation # 0 \/ stored = {})
    <3> DEFINE days == {Event(i).at : i \in stored}
    <3>1. days \in SUBSET Nat /\ days # {}
      BY <1>1, <2>2
    <3> HIDE DEF days
    <3>2. Min(days) \in Nat
      BY <3>1, MinIs
    <3> QED BY <2>2, <3>2 DEF TruncatedAt, days
  <2> QED BY <2>1, <2>2
<1> QED BY <1>2, <1>3, <1>4 DEF Answer, Answered, Page, PageType

\* What a step of the store leaves as it was: the events, and the places they were given.
StoreGrows ==
  /\ day' \in Nat \ {0} /\ day' >= day /\ start' = start
  /\ log' \in Seq(Happening) /\ Len(log') <= MaxEvents
  /\ Len(log') \in Nat /\ Len(log') >= Len(log) /\ \A n \in 1 .. Len(log) : log'[n] = log[n]
  /\ filed' \in [Past' -> 1 .. Len(log')] /\ Past \subseteq Past' /\ stored' \subseteq Past'
  /\ \A i \in Past : filed'[i] = filed[i] /\ log'[filed'[i]] = Event(i)

\* Something happens: the events that were there are as they were.
LEMMA StoreHappens ==
  ASSUME FeedTypeOK, Chronicle, Happens
  PROVE  StoreGrows /\ Chronicle'
<1>1. /\ log \in Seq(Happening) /\ Len(log) \in Nat /\ DOMAIN log = 1 .. Len(log) /\ day \in Nat \ {0}
      /\ Len(log) < MaxEvents /\ UNCHANGED <<day, start, filed, stored>>
      /\ filed \in [Past -> 1 .. Len(log)] /\ stored \subseteq Past
      /\ \A n \in 1 .. Len(log) : log[n].slot \in Nat \ {0} /\ log[n].at \in Nat
  BY Typed DEF Happens
<1>13. PICK kind \in {"created", "charged", "revoked"} : \E e \in Spots(kind) : log' = Append(log, e)
  BY DEF Happens
<1>2. PICK e \in Spots(kind) : log' = Append(log, e)
  BY <1>13
<1>3. Slot \in Nat /\ (log # <<>> => Len(log) \in 1 .. Len(log) /\ Slot = log[Len(log)].slot /\ Last(log) = log[Len(log)])
  BY <1>1 DEF Slot, Last
<1>4. /\ e.kind = kind /\ e.at = day /\ e.slot \in Nat \ {0} /\ e.position \in 0 .. 1 /\ e \in Happening
      /\ e.slot = Slot + 1 \/ (e.slot = Slot /\ log # <<>> /\ Last(log).at = day)
  <2>1. CASE e = Spot(kind, Slot + 1, 1)
    BY <1>1, <1>3, <2>1 DEF Spot, Happening
  <2>2. ASSUME NEW position \in 0 .. 1, log # <<>>, Last(log).at = day, e = Spot(kind, Slot, position)
        PROVE  /\ e.kind = kind /\ e.at = day /\ e.slot \in Nat \ {0} /\ e.position \in 0 .. 1 /\ e \in Happening
               /\ e.slot = Slot
    <3>1. Slot \in Nat \ {0}
      BY <1>1, <1>3, <2>2
    <3> QED BY <1>1, <2>2, <3>1 DEF Spot, Happening
  <2> QED BY <1>2, <2>1, <2>2 DEF Spots
<1> DEFINE m == Len(log) + 1
<1>5. /\ log' \in Seq(Happening) /\ Len(log') = m /\ DOMAIN log' = 1 .. m /\ log'[m] = e
      /\ \A n \in 1 .. Len(log) : log'[n] = log[n]
  BY <1>1, <1>2, <1>4
<1>6. \A i \in Past : filed[i] \in 1 .. Len(log) /\ log'[filed[i]] = Event(i)
  BY <1>1, <1>5 DEF Event
<1>7. Past' = Past
  BY <1>1 DEF Past
<1>8. StoreGrows
  <2>1. filed' \in [Past' -> 1 .. Len(log')]
    BY <1>1, <1>5, <1>7
  <2> QED BY <1>1, <1>5, <1>6, <1>7, <2>1, FeedBounds DEF StoreGrows
<1>9. \A n \in 1 .. Len(log) : /\ log[n].slot <= Slot /\ log[n].at <= day
                               /\ Last(log).at = day /\ log[n].slot = Slot => log[n].at = day
  <2> SUFFICES ASSUME NEW n \in 1 .. Len(log)
               PROVE /\ log[n].slot <= Slot /\ log[n].at <= day
                     /\ Last(log).at = day /\ log[n].slot = Slot => log[n].at = day
    OBVIOUS
  <2>1. Len(log) \in 1 .. Len(log) /\ n <= Len(log) /\ log # <<>>
    BY <1>1
  <2> QED BY <1>1, <1>3, <2>1 DEF Chronicle
<1>10. \A n \in 1 .. Len(log) : /\ log[n].slot <= e.slot /\ log[n].at <= e.at
                                /\ log[n].slot = e.slot => log[n].at = e.at
  BY <1>1, <1>3, <1>4, <1>9
<1>11. ASSUME NEW n \in DOMAIN log', NEW k \in DOMAIN log'
       PROVE  /\ n <= k => log'[n].slot <= log'[k].slot /\ log'[n].at <= log'[k].at
              /\ log'[n].slot = log'[k].slot => log'[n].at = log'[k].at
              /\ log'[n].at <= day'
  <2>1. \A x \in DOMAIN log' : x \in 1 .. Len(log) \/ x = m
    BY <1>1, <1>5
  <2>2. CASE n \in 1 .. Len(log) /\ k \in 1 .. Len(log)
    BY <1>1, <1>5, <2>2 DEF Chronicle
  <2>3. CASE n \in 1 .. Len(log) /\ k = m
    BY <1>1, <1>4, <1>5, <1>10, <2>3
  <2>4. CASE n = m /\ k \in 1 .. Len(log)
    <3>1. ~(n <= k)
      BY <1>1, <2>4
    <3> QED BY <1>1, <1>4, <1>5, <1>10, <2>4, <3>1
  <2>5. CASE n = m /\ k = m
    BY <1>1, <1>4, <1>5, <2>5
  <2> QED BY <2>1, <2>2, <2>3, <2>4, <2>5
<1>12. ASSUME NEW i \in Past' PROVE i \in Places(log'[filed'[i]])
  BY <1>1, <1>6, <1>7 DEF Chronicle
<1> QED BY <1>8, <1>11, <1>12 DEF Chronicle, Event, Places, First, Key

\* An event is stored: it is at one of its places.
LEMMA StoreInserts ==
  ASSUME FeedTypeOK, Chronicle, Insert
  PROVE  StoreGrows /\ Chronicle'
<1>7. PICK n \in Missing : \E place \in Places(log[n]) \ Past :
        /\ filed' = [i \in Past \cup {place} |-> IF i = place THEN n ELSE filed[i]]
        /\ stored' = stored \cup {place}
  BY DEF Insert
<1>1. PICK place \in Places(log[n]) \ Past :
        /\ filed' = [i \in Past \cup {place} |-> IF i = place THEN n ELSE filed[i]]
        /\ stored' = stored \cup {place}
  BY <1>7
<1>2. /\ UNCHANGED <<day, log, start>> /\ log \in Seq(Happening) /\ Len(log) \in Nat /\ day \in Nat \ {0}
      /\ filed \in [Past -> 1 .. Len(log)] /\ stored \subseteq Past /\ n \in 1 .. Len(log)
      /\ Len(log) <= MaxEvents
  BY Typed DEF Insert, FeedTypeOK
<1>3. Past' = Past \cup {place} /\ filed' \in [Past' -> 1 .. Len(log')]
  <2>1. Past' = Past \cup {place}
    BY <1>1 DEF Past
  <2> QED BY <1>1, <1>2, <2>1
<1>4. \A i \in Past : filed'[i] = filed[i] /\ log'[filed'[i]] = Event(i)
  BY <1>1, <1>2 DEF Event
<1>5. StoreGrows
  BY <1>1, <1>2, <1>3, <1>4 DEF StoreGrows
<1>6. ASSUME NEW i \in Past' PROVE i \in Places(log'[filed'[i]])
  <2>1. CASE i = place
    BY <1>1, <1>2, <2>1
  <2>2. CASE i \in Past
    BY <1>2, <1>4, <2>2 DEF Chronicle
  <2> QED BY <1>3, <2>1, <2>2
<1> QED BY <1>2, <1>5, <1>6 DEF Chronicle, Event, Places, First, Key

\* So with every step.
LEMMA StoreStep ==
  ASSUME FeedTypeOK, Chronicle, FeedNext
  PROVE  StoreGrows /\ Chronicle'
<1>1. ASSUME UNCHANGED <<log, start, filed>>, stored' \subseteq stored, day' \in {day, day + 1}
      PROVE  StoreGrows /\ Chronicle'
  <2>1. /\ day \in Nat \ {0} /\ log \in Seq(Happening) /\ Len(log) \in Nat /\ stored \subseteq Past
        /\ filed \in [Past -> 1 .. Len(log)] /\ Len(log) <= MaxEvents /\ DOMAIN log = 1 .. Len(log)
        /\ \A n \in 1 .. Len(log) : log[n].at \in Nat
    BY Typed DEF FeedTypeOK
  <2>2. Past' = Past /\ \A i \in Past : log'[filed'[i]] = Event(i)
    BY <1>1 DEF Past, Event
  <2>3. StoreGrows
    <3>1. day' \in Nat \ {0} /\ day' >= day
      BY <1>1, <2>1
    <3>2. filed' \in [Past' -> 1 .. Len(log')] /\ stored' \subseteq Past'
      BY <1>1, <2>1, <2>2
    <3> QED BY <1>1, <2>1, <2>2, <3>1, <3>2 DEF StoreGrows
  <2>4. \A n \in DOMAIN log : log[n].at <= day'
    BY <1>1, <2>1 DEF Chronicle
  <2>5. \A i \in Past' : i \in Places(log'[filed'[i]])
    BY <2>2 DEF Chronicle
  <2> QED BY <1>1, <2>3, <2>4, <2>5 DEF Chronicle, Event, Places, First, Key
<1>2. CASE NewDay
  BY <1>1, <1>2 DEF NewDay
<1>3. ASSUME NEW w \in Worker, DeleteBatch(w) PROVE UNCHANGED <<day, log, start, filed>> /\ stored' \subseteq stored
  BY <1>3 DEF DeleteBatch, Deleted
<1>4. ASSUME Refetch \/ FetchNextPage \/ ReadCreation \/ ReadRows \/ ReadOldest \/ \E w \in Worker : BeginPass(w) \/ Record(w) \/ PassFails(w)
      PROVE  UNCHANGED storeVars
  BY <1>4 DEF Refetch, FetchNextPage, ReadCreation, Bounded, ReadRows, ReadOldest, BeginPass, Record, PassFails
<1> QED BY <1>1, <1>2, <1>3, <1>4, StoreHappens, StoreInserts DEF FeedNext, storeVars

\* The greatest place is there.
LEMMA MaxOf ==
  ASSUME NEW T, T # {}, \E n \in Nat : T \subseteq 1 .. n
  PROVE  Max(T) \in T /\ \A y \in T : y <= Max(T)
<1>1. PICK n \in Nat : T \subseteq 1 .. n
  OBVIOUS
<1>2. T \in SUBSET (0 .. n)
  <2>1. \A x \in 1 .. n : x \in 0 .. n
    OBVIOUS
  <2> QED BY <1>1, <2>1
<1> QED BY <1>1, <1>2, MaxIs

\* The rows that are read are stored.
LEMMA RowsTyped ==
  ASSUME FeedTypeOK, NEW creation, NEW got
  PROVE  Rows(creation, got) \in SUBSET Past
BY DEF FeedTypeOK, Rows, Following, Newest

\* What a page makes of the request and the list.
LEMMA TakeTyped ==
  ASSUME FeedTypeOK, NEW page \in PageType, Take(page), req.phase # "none"
  PROVE  req' \in RequestRow /\ list' \in Seq(PageType)
<1>1. req \in RequestRow /\ list \in Seq(PageType)
  BY DEF FeedTypeOK, RequestRow
<1> DEFINE got == Append(req.got, page)
<1>2. got \in Seq(PageType)
  <2>1. req.got \in Seq(PageType)
    BY <1>1 DEF RequestRow
  <2> QED BY <2>1
<1> HIDE DEF got
<1>3. NoRequest \in RequestRow /\ Ask(req.pages, got) \in RequestRow
  <2>1. <<>> \in Seq(PageType) /\ req.pages \in Nat
    BY <1>1 DEF RequestRow
  <2> QED BY <1>2, <2>1 DEF NoRequest, Ask, RequestRow
<1>4. (req' = Ask(req.pages, got) /\ list' = list) \/ (req' = NoRequest /\ list' = got)
  BY DEF Take, got
<1> QED BY <1>1, <1>2, <1>3, <1>4

\* Every step keeps the types.
LEMMA FeedTypeStep ==
  ASSUME FeedTypeOK, Chronicle, [FeedNext]_feedVars
  PROVE  FeedTypeOK'
<1>1. /\ pass \in [Worker -> PassRow] /\ retention \in RetentionRow
      /\ req \in RequestRow /\ list \in Seq(PageType) /\ dirty \in BOOLEAN /\ torn \in BOOLEAN
      /\ day \in Nat \ {0} /\ <<>> \in Seq(PageType)
  BY DEF FeedTypeOK, PassRow, RequestRow, RetentionRow
<1>2. CASE UNCHANGED feedVars
  BY <1>2 DEF FeedTypeOK, feedVars, Past, PageType
<1>3. ASSUME FeedNext PROVE FeedTypeOK'
  <2>1. StoreGrows
    BY <1>3, StoreStep
  <2>2. Past \subseteq Past' /\ Seq(PageType) \subseteq Seq(PageType')
    <3>1. PageType \subseteq PageType'
      BY <2>1 DEF StoreGrows, PageType
    <3> QED BY <2>1, <3>1 DEF StoreGrows
  <2>3. RequestRow \subseteq RequestRow'
    BY <2>2 DEF RequestRow
  <2>4. PassRow \subseteq PassRow' /\ RetentionRow \subseteq RetentionRow'
    BY <1>1, <2>1 DEF StoreGrows, PassRow, RetentionRow
  <2>5. dirty' \in BOOLEAN /\ torn' \in BOOLEAN
    BY <1>1, <1>3 DEF FeedNext, Happens, NewDay, Insert, BeginPass, DeleteBatch, Deleted, Record, PassFails, Refetch,
       FetchNextPage, ReadCreation, Bounded, ReadRows, ReadOldest, pageVars
  <2>6. pass' \in [Worker -> PassRow'] /\ retention' \in RetentionRow'
    <3>1. CASE UNCHANGED <<pass, retention>>
      BY <1>1, <2>4, <3>1
    <3>2. ASSUME NEW w \in Worker, BeginPass(w) \/ DeleteBatch(w) \/ Record(w) \/ PassFails(w)
          PROVE  pass' \in [Worker -> PassRow'] /\ retention' \in RetentionRow'
      <4>1. /\ Idle \in PassRow /\ [phase |-> "deleting", now |-> day] \in PassRow
            /\ [pass[w] EXCEPT !.phase = "recording"] \in PassRow
            /\ pass[w].now \in 0 .. day
        BY <1>1, <3>2 DEF PassRow, Idle
      <4>2. \E item \in PassRow : pass' \in {pass, [pass EXCEPT ![w] = item]}
        BY <3>2, <4>1 DEF BeginPass, DeleteBatch, Record, PassFails
      <4>3. pass' \in [Worker -> PassRow]
        BY <1>1, <4>2
      <4>4. RecordedCut(w) \in RetentionRow
        BY <4>1, FeedBounds DEF RecordedCut, Cut, RetentionRow
      <4>5. retention' \in {retention, RecordedCut(w)}
        BY <3>2 DEF BeginPass, DeleteBatch, Deleted, Record, PassFails
      <4> QED BY <1>1, <2>4, <4>3, <4>4, <4>5
    <3> QED
      BY <1>3, <3>1, <3>2 DEF FeedNext, Happens, NewDay, Insert, Refetch, FetchNextPage, ReadCreation, Bounded,
         ReadRows, ReadOldest
  <2>7. req' \in RequestRow' /\ list' \in Seq(PageType')
    <3>1. CASE UNCHANGED <<req, list>>
      BY <1>1, <2>2, <2>3, <3>1
    <3>2. CASE Happens \/ NewDay \/ Insert \/ \E w \in Worker : BeginPass(w) \/ DeleteBatch(w) \/ Record(w) \/ PassFails(w)
      BY <3>1, <3>2 DEF Happens, NewDay, Insert, BeginPass, DeleteBatch, Deleted, Record, PassFails, pageVars
    <3>3. ASSUME req' \in RequestRow, list' \in Seq(PageType)
          PROVE  req' \in RequestRow' /\ list' \in Seq(PageType')
      BY <2>2, <2>3, <3>3
    <3>4. \A n \in Nat, got \in Seq(PageType) : Ask(n, got) \in RequestRow
      BY <1>1 DEF Ask, NoRequest, RequestRow
    <3>5. CASE Refetch
      <4>1. req' = Ask(IF list = <<>> THEN 1 ELSE Len(list), <<>>) /\ list' = list
        BY <3>5 DEF Refetch
      <4>2. Len(list) \in Nat
        BY <1>1
      <4>3. req' \in RequestRow
        BY <1>1, <3>4, <4>1, <4>2
      <4> QED BY <1>1, <3>3, <4>1, <4>3
    <3>6. CASE FetchNextPage
      <4>1. req' = Ask(Len(list) + 1, list) /\ list' = list
        BY <3>6 DEF FetchNextPage
      <4>2. Len(list) + 1 \in Nat
        BY <1>1
      <4>3. req' \in RequestRow
        BY <1>1, <3>4, <4>1, <4>2
      <4> QED BY <1>1, <3>3, <4>1, <4>3
    <3>7. CASE ReadCreation
      <4>1. PICK creation \in Nat : req' = [req EXCEPT !.phase = "rows", !.creation = creation]
        <5>1. CASE Creations = {}
          BY <3>7, <5>1 DEF ReadCreation, Bounded
        <5>2. CASE Creations # {}
          <6>1. /\ Creations \subseteq Past /\ \E n \in Nat : Past \subseteq 1 .. n
                /\ \A i \in Past : First(Event(i)) \in Nat
            BY OrderIs DEF Creations, FeedTypeOK, OrderTrue
          <6>2. Max(Creations) \in Creations
            BY <5>2, <6>1, MaxOf
          <6>3. Bound(Max(Creations)) \in Nat
            BY <6>1, <6>2 DEF Bound
          <6> QED BY <3>7, <5>2, <6>3 DEF ReadCreation, Bounded
        <5> QED BY <5>1, <5>2
      <4>2. req' \in RequestRow
        BY <1>1, <4>1 DEF RequestRow
      <4> QED BY <1>1, <3>3, <3>7, <4>2 DEF ReadCreation, Bounded
    <3>8. CASE ReadRows
      <4>1. req.phase # "none"
        BY <3>8 DEF ReadRows
      <4>2. CASE req.creation # 0
        BY <3>3, <3>8, <4>1, <4>2, RowsTyped, PageTyped, TakeTyped DEF ReadRows
      <4>3. CASE req.creation = 0
        <5>1. req' = [req EXCEPT !.phase = "oldest", !.rows = Rows(0, req.got)] /\ list' = list
          BY <3>8, <4>3 DEF ReadRows
        <5>2. req' \in RequestRow
          BY <1>1, <5>1, RowsTyped DEF RequestRow
        <5> QED BY <1>1, <3>3, <5>1, <5>2
      <4> QED BY <4>2, <4>3
    <3>9. CASE ReadOldest
      <4>1. req.phase # "none" /\ Take(Answer(req.rows)) /\ req.rows \in SUBSET Past
        BY <1>1, <3>9 DEF ReadOldest, RequestRow
      <4> QED BY <3>3, <4>1, PageTyped, TakeTyped
    <3> QED BY <1>3, <3>2, <3>5, <3>6, <3>7, <3>8, <3>9 DEF FeedNext
  <2>8. start' \in Nat \ {0}
    BY <2>1, Typed DEF StoreGrows
  <2> QED BY <2>1, <2>5, <2>6, <2>7, <2>8 DEF StoreGrows, FeedTypeOK, PassRow, RequestRow, RetentionRow
<1> QED BY <1>2, <1>3

\* A batch that is not full is all that is old.
LEMMA LastBatch ==
  ASSUME FeedTypeOK, Chronicle, NEW w \in Worker, NEW batch \in Batches(w), Cardinality(batch) < Batch
  PROVE  batch = Old(w)
<1>1. IsFiniteSet(Old(w))
  <2> DEFINE old == Old(w)
  <2>1. PICK n \in Nat : Past \subseteq 1 .. n
    BY OrderIs DEF OrderTrue
  <2>4. old \subseteq Past
    BY DEF Old, FeedTypeOK
  <2>5. IsFiniteSet(1 .. n)
    BY FS_Interval
  <2>2. old \in SUBSET (1 .. n) /\ IsFiniteSet(1 .. n)
    BY <2>1, <2>4, <2>5, Zenon
  <2> HIDE DEF old
  <2>3. IsFiniteSet(old)
    BY <2>2, FS_Subset
  <2> QED BY <2>3 DEF old
<1>2. /\ batch \in SUBSET Old(w)
      /\ Cardinality(batch) = IF Cardinality(Old(w)) < Batch THEN Cardinality(Old(w)) ELSE Batch
  BY DEF Batches, kSubset
<1>3. Cardinality(batch) = Cardinality(Old(w))
  BY <1>2, FeedBounds
<1> QED BY <1>1, <1>2, <1>3, FS_Subset

\* Passes delete what the cut covers and nothing else, and the cut only moves forward.
LEMMA PassesStep ==
  ASSUME FeedTypeOK, Chronicle, PassesTrue, NothingOlderKept, [FeedNext]_feedVars
  PROVE  PassesTrue' /\ NothingOlderKept' /\ retention'.keptSince >= retention.keptSince
<1>1. /\ pass \in [Worker -> PassRow] /\ retention \in RetentionRow
      /\ day \in Nat \ {0} /\ start \in Nat \ {0} /\ Len(log) \in Nat
      /\ stored \subseteq Past /\ log \in Seq(Happening)
      /\ \A i \in Past : Event(i).at \in Nat
      /\ \A n \in Missing : n \in 1 .. Len(log) /\ log[n].at \in Nat
      /\ Days \in Nat \ {0}
  BY Typed, FeedBounds DEF FeedTypeOK, PassRow, RetentionRow
<1>2. /\ retention.keptSince = retention.ranAt - Days
      /\ \A n \in Missing : log[n].at >= day - Days
      /\ \A w \in Worker : pass[w].phase = "recording" => \A i \in stored : Event(i).at >= pass[w].now - Days
      /\ \A i \in stored : Event(i).at >= retention.keptSince
  BY DEF PassesTrue, NothingOlderKept, Cut
<1>0. retention.ranAt \in 0 .. day /\ retention.ranAt \in Nat /\ retention.keptSince \in Int
  BY <1>1 DEF RetentionRow
<1>3. \A w \in Worker : pass[w].now \in 0 .. day /\ pass[w].phase \in {"idle", "deleting", "recording"}
  BY <1>1 DEF PassRow
<1> DEFINE PassesKept ==
      /\ retention'.keptSince = retention'.ranAt - Days
      /\ \A n \in Missing' : log'[n].at >= day' - Days
      /\ \A w \in Worker : pass'[w].phase = "recording" => \A i \in stored' : log'[filed'[i]].at >= pass'[w].now - Days
      /\ \A i \in stored' : log'[filed'[i]].at >= retention'.keptSince
      /\ retention'.keptSince >= retention.keptSince
<1>4. SUFFICES PassesKept
  BY DEF PassesTrue, NothingOlderKept, Cut, Event
<1>13. ASSUME UNCHANGED <<log, start, filed>>, stored' \subseteq stored
       PROVE  Missing' = Missing /\ \A i \in stored' : i \in stored /\ log'[filed'[i]] = Event(i)
  BY <1>13 DEF Missing, Past, Event
<1>5. ASSUME UNCHANGED <<day, log, start, filed, stored, pass, retention>> PROVE PassesKept
  <2>1. Missing' = Missing /\ \A i \in stored' : i \in stored /\ log'[filed'[i]] = Event(i)
    BY <1>5, <1>13
  <2> QED BY <1>0, <1>1, <1>2, <1>5, <2>1
<1>6. CASE Happens
  <2>1. \E kind, slot, position : log' = Append(log, Spot(kind, slot, position))
    BY <1>6 DEF Happens, Spots
  <2>2. UNCHANGED <<day, start, filed, stored, pass, retention>>
    BY <1>6 DEF Happens
  <2>3. /\ Len(log') = Len(log) + 1 /\ log'[Len(log) + 1].at = day
        /\ \A n \in 1 .. Len(log) : log'[n] = log[n]
    BY <1>0, <1>1, <2>1 DEF Spot
  <2>4. \A i \in stored : log'[filed'[i]] = Event(i)
    BY <1>1, <2>2, <2>3, Typed
  <2>5. ASSUME NEW n \in Missing' PROVE log'[n].at >= day' - Days
    <3>0. n \in start .. Len(log') /\ \A i \in Past : filed[i] # n
      BY <2>2 DEF Missing, Past
    <3>1. CASE n = Len(log) + 1
      BY <1>0, <1>1, <2>2, <2>3, <3>1
    <3>2. CASE n # Len(log) + 1
      <4>1. n \in start .. Len(log) /\ n \in 1 .. Len(log)
        BY <1>0, <1>1, <2>2, <2>3, <3>0, <3>2
      <4>2. n \in Missing
        BY <3>0, <4>1 DEF Missing
      <4> QED BY <1>2, <2>2, <2>3, <4>1, <4>2
    <3> QED BY <3>1, <3>2
  <2> QED BY <1>0, <1>1, <1>2, <2>2, <2>4, <2>5
<1>7. CASE NewDay
  <2>1. /\ UNCHANGED <<log, start, filed, stored, pass, retention>> /\ day' = day + 1
        /\ \A n \in Missing : log[n].at >= day + 1 - Days
    BY <1>7 DEF NewDay
  <2>2. Missing' = Missing /\ \A i \in stored' : i \in stored /\ log'[filed'[i]] = Event(i)
    BY <1>13, <2>1
  <2> QED BY <1>0, <1>1, <1>2, <2>1, <2>2
<1>8. CASE Insert
  <2>0. PICK n \in Missing : \E place \in Places(log[n]) \ Past :
          /\ filed' = [i \in Past \cup {place} |-> IF i = place THEN n ELSE filed[i]]
          /\ stored' = stored \cup {place}
    BY <1>8 DEF Insert
  <2>1. PICK place \in Places(log[n]) \ Past :
          /\ filed' = [i \in Past \cup {place} |-> IF i = place THEN n ELSE filed[i]]
          /\ stored' = stored \cup {place}
    BY <2>0
  <2>7. UNCHANGED <<day, log, start, pass, retention>>
    BY <1>8 DEF Insert
  <2>2. log[n].at >= day - Days /\ log[n].at \in Nat
    BY <1>1, <1>2
  <2>3. \A w \in Worker : log[n].at >= pass[w].now - Days
    BY <1>0, <1>1, <1>3, <2>2
  <2>4. \A k \in Missing' : k \in Missing
    <3>1. Past' = Past \cup {place} /\ \A i \in Past : filed'[i] = filed[i]
      BY <2>1 DEF Past
    <3> QED BY <2>7, <3>1 DEF Missing
  <2>5. log[n].at >= retention.keptSince
    BY <1>0, <1>1, <1>2, <1>3, <2>2
  <2>6. \A i \in stored' : log'[filed'[i]] = IF i \in stored THEN Event(i) ELSE log[n]
    BY <1>1, <2>1, <2>7 DEF Event
  <2>8. \A w \in Worker : pass'[w].phase = "recording" => \A i \in stored' : log'[filed'[i]].at >= pass'[w].now - Days
    BY <1>2, <2>3, <2>6, <2>7
  <2>9. \A i \in stored' : log'[filed'[i]].at >= retention'.keptSince
    BY <1>2, <2>5, <2>6, <2>7
  <2>10. \A k \in Missing' : log'[k].at >= day' - Days
    BY <1>2, <2>4, <2>7
  <2> QED BY <1>0, <1>2, <2>7, <2>8, <2>9, <2>10
<1>9. ASSUME NEW w \in Worker, BeginPass(w) PROVE PassesKept
  <2>1. pass' = [pass EXCEPT ![w] = [phase |-> "deleting", now |-> day]] /\ UNCHANGED <<day, log, start, filed, stored, retention>>
    BY <1>9 DEF BeginPass, storeVars
  <2>2. \A v \in Worker : pass'[v].phase = "recording" => pass'[v] = pass[v]
    BY <1>0, <1>1, <2>1
  <2>3. Missing' = Missing /\ \A i \in stored' : i \in stored /\ log'[filed'[i]] = Event(i)
    BY <1>13, <2>1
  <2> QED BY <1>0, <1>1, <1>2, <2>1, <2>2, <2>3
<1>10. ASSUME NEW w \in Worker, DeleteBatch(w) PROVE PassesKept
  <2>1. PICK batch \in Batches(w) :
          /\ stored' = stored \ batch
          /\ pass' = IF Cardinality(batch) < Batch THEN [pass EXCEPT ![w].phase = "recording"] ELSE pass
          /\ UNCHANGED <<day, log, start, filed, retention>>
    BY <1>10 DEF DeleteBatch, Deleted
  <2>2. \A v \in Worker : pass'[v].now = pass[v].now /\ (v # w => pass'[v] = pass[v])
    BY <1>0, <1>1, <2>1 DEF PassRow
  <2>5. Missing' = Missing /\ \A i \in stored' : i \in stored /\ log'[filed'[i]] = Event(i)
    BY <1>13, <2>1
  <2>3. ASSUME pass'[w].phase = "recording" PROVE \A i \in stored' : Event(i).at >= pass[w].now - Days
    <3>1. CASE Cardinality(batch) < Batch
      <4>1. stored' = stored \ Old(w)
        BY <2>1, <3>1, LastBatch
      <4>2. \A i \in stored : i \in Old(w) \/ ~(Event(i).at < pass[w].now - Days)
        BY DEF Old, Cut
      <4>3. ASSUME NEW i \in stored' PROVE Event(i).at >= pass[w].now - Days
        <5>1. i \in Past /\ ~(Event(i).at < pass[w].now - Days)
          BY <1>1, <4>1, <4>2
        <5>2. Event(i).at \in Nat /\ pass[w].now \in Nat
          BY <1>1, <1>3, <5>1
        <5> QED BY <1>1, <5>1, <5>2
      <4> QED BY <4>3
    <3>2. CASE ~(Cardinality(batch) < Batch)
      BY <1>2, <2>1, <2>3, <3>2
    <3> QED BY <3>1, <3>2
  <2>4. ASSUME NEW v \in Worker, pass'[v].phase = "recording" PROVE \A i \in stored' : Event(i).at >= pass'[v].now - Days
    BY <1>2, <2>1, <2>2, <2>3, <2>4
  <2> QED BY <1>0, <1>1, <1>2, <2>1, <2>4, <2>5
<1>11. ASSUME NEW w \in Worker, Record(w) PROVE PassesKept
  <2>1. /\ pass[w].phase = "recording" /\ UNCHANGED <<day, log, start, filed, stored>>
        /\ retention' = IF retention.ranAt <= pass[w].now THEN RecordedCut(w) ELSE retention
        /\ pass' = [pass EXCEPT ![w] = Idle]
    BY <1>11 DEF Record, storeVars
  <2>2. RecordedCut(w).keptSince = pass[w].now - Days /\ RecordedCut(w).ranAt = pass[w].now
    BY DEF RecordedCut, Cut
  <2>3. \A v \in Worker : pass'[v].phase = "recording" => pass'[v] = pass[v]
    BY <1>0, <1>1, <2>1 DEF Idle
  <2>6. Missing' = Missing /\ \A i \in stored' : i \in stored /\ log'[filed'[i]] = Event(i)
    BY <1>13, <2>1
  <2>4. CASE retention.ranAt <= pass[w].now
    <3>1. retention'.keptSince = pass[w].now - Days /\ retention'.ranAt = pass[w].now
      BY <2>1, <2>2, <2>4
    <3>2. pass[w].now \in Nat /\ pass[w].now - Days >= retention.keptSince
      BY <1>0, <1>1, <1>2, <1>3, <2>4
    <3> QED BY <1>0, <1>1, <1>2, <2>1, <2>3, <2>6, <3>1, <3>2
  <2>5. CASE ~(retention.ranAt <= pass[w].now)
    BY <1>0, <1>1, <1>2, <2>1, <2>3, <2>5, <2>6
  <2> QED BY <2>4, <2>5
<1>12. ASSUME NEW w \in Worker, PassFails(w) PROVE PassesKept
  <2>1. pass' = [pass EXCEPT ![w] = Idle] /\ UNCHANGED <<day, log, start, filed, stored, retention>>
    BY <1>12 DEF PassFails, storeVars
  <2>2. \A v \in Worker : pass'[v].phase = "recording" => pass'[v] = pass[v]
    BY <1>0, <1>1, <2>1 DEF Idle
  <2>3. Missing' = Missing /\ \A i \in stored' : i \in stored /\ log'[filed'[i]] = Event(i)
    BY <1>13, <2>1
  <2> QED BY <1>0, <1>1, <1>2, <2>1, <2>2, <2>3
<1> QED
  <2>1. ASSUME Refetch \/ FetchNextPage \/ ReadCreation \/ ReadRows \/ ReadOldest
        PROVE  UNCHANGED <<day, log, start, filed, stored, pass, retention>>
    BY <2>1 DEF Refetch, FetchNextPage, ReadCreation, Bounded, ReadRows, ReadOldest, storeVars
  <2> HIDE DEF PassesKept
  <2> QED BY <1>5, <1>6, <1>7, <1>8, <1>9, <1>10, <1>11, <1>12, <2>1 DEF FeedNext, feedVars

-----------------------------------------------------------------------------
(***************************************************************************)
(* What a page is made of.                                                 *)
(***************************************************************************)

\* A list with one page more.
LEMMA Appended ==
  ASSUME NEW got \in Seq(PageType), NEW page \in PageType
  PROVE  /\ Append(got, page) # <<>> /\ Last(Append(got, page)) = page
         /\ Len(got) \in Nat /\ Len(Append(got, page)) = Len(got) + 1
         /\ DOMAIN got = 1 .. Len(got) /\ DOMAIN Append(got, page) = 1 .. Len(got) + 1
         /\ Append(got, page)[Len(got) + 1] = page
         /\ \A p \in DOMAIN got : Append(got, page)[p] = got[p]
         /\ Items(Append(got, page)) = Items(got) \cup page.items
         /\ got # <<>> => Last(got) = got[Len(got)] /\ Len(got) \in DOMAIN got
<1>1. /\ Append(got, page) # <<>> /\ Len(got) \in Nat /\ Len(Append(got, page)) = Len(got) + 1
      /\ DOMAIN got = 1 .. Len(got) /\ DOMAIN Append(got, page) = 1 .. Len(got) + 1
      /\ Append(got, page)[Len(got) + 1] = page
      /\ \A p \in 1 .. Len(got) : Append(got, page)[p] = got[p]
      /\ got # <<>> => Len(got) \in DOMAIN got
  OBVIOUS
<1> DEFINE new == Append(got, page)
<1>2. DOMAIN new = DOMAIN got \cup {Len(got) + 1} /\ new[Len(got) + 1] = page /\ \A p \in DOMAIN got : new[p] = got[p]
  BY <1>1
<1>3. Items(new) = Items(got) \cup page.items
  BY <1>2 DEF Items
<1> QED BY <1>1, <1>3 DEF Last

\* The rows of a page are the newest below its cursor.
LEMMA RowsAre ==
  ASSUME FeedTypeOK, Chronicle, NEW creation, NEW got
  PROVE  /\ Rows(creation, got) \in SUBSET Following(creation, got)
         /\ Following(creation, got) \in SUBSET stored
         /\ \A i \in Following(creation, got), j \in Rows(creation, got) : j <= i => i \in Rows(creation, got)
         /\ Cardinality(Rows(creation, got)) <= PageLimit => Rows(creation, got) = Following(creation, got)
<1> DEFINE all == Following(creation, got)  k == PageLimit + 1
<1>0. PICK n \in Nat : Past \subseteq 1 .. n
  BY OrderIs DEF OrderTrue
<1>1. n \in Nat /\ all \in SUBSET stored /\ all \in SUBSET (1 .. n) /\ k \in Nat
  <2>1. k \in Nat
    BY FeedBounds
  <2>2. all \subseteq stored /\ stored \subseteq Past
    BY DEF Following, FeedTypeOK
  <2>3. all \in SUBSET (1 .. n)
    BY <1>0, <2>2, Zenon
  <2> QED BY <2>1, <2>2, <2>3
<1>2. Rows(creation, got) = Newest(k, all) /\ Newest(k, all) \in SUBSET all
  BY DEF Rows, Newest
<1> HIDE DEF all, k
<1>3. ASSUME NEW i \in all, NEW j \in Newest(k, all), j <= i PROVE i \in Newest(k, all)
  <2>1. i \in Int /\ j \in Int
    <3>1. \A x \in 1 .. n : x \in Int
      BY <1>1
    <3> QED BY <1>1, <1>2, <3>1
  <2>2. i = j \/ i > j
    BY <1>3, <2>1
  <2> QED BY <1>1, <1>3, <2>2, NewestAbove
<1>4. ASSUME Cardinality(Newest(k, all)) <= PageLimit PROVE Newest(k, all) = all
  <2>1. IsFiniteSet(Newest(k, all))
    <3>1. IsFiniteSet(1 .. n)
      BY <1>1, FS_Interval
    <3>2. Newest(k, all) \in SUBSET (1 .. n)
      BY <1>1, <1>2
    <3> QED BY <3>1, <3>2, FS_Subset
  <2>2. Cardinality(Newest(k, all)) \in Nat
    BY <2>1, FS_CardinalityType
  <2>3. Cardinality(Newest(k, all)) < k
    BY <1>4, <2>2, FeedBounds DEF k
  <2> QED BY <1>1, <2>3, NewestAll
<1> QED BY <1>1, <1>2, <1>3, <1>4 DEF all

\* A page is its rows, without the one row too many, or what is left of them above the cut.
LEMMA AnswerIs ==
  ASSUME FeedTypeOK, Chronicle, NEW rows \in SUBSET Past
  PROVE  /\ Answer(rows).items \in SUBSET rows /\ Answer(rows).truncatedAt = TruncatedAt
         /\ rows # {} => Answer(rows).items # {}
         /\ IF Answer(rows).items # {} THEN Answer(rows).cursor \in Answer(rows).items ELSE Answer(rows).cursor = 0
         /\ \A i \in Answer(rows).items : Answer(rows).cursor <= i
         /\ Answer(rows).more <=> Cardinality(rows) > PageLimit
         /\ Answer(rows).more => rows # {}
         /\ ~Answer(rows).more => Answer(rows).items = rows
         /\ \A i \in rows, j \in Answer(rows).items : j <= i => i \in Answer(rows).items
<1>0. PICK n \in Nat : Past \subseteq 1 .. n
  BY OrderIs DEF OrderTrue
<1>1. n \in Nat /\ rows \in SUBSET (1 .. n) /\ PageLimit \in Nat \ {0}
  BY <1>0, FeedBounds
<1>2. /\ Answer(rows).items = Newest(PageLimit, rows) /\ Answer(rows).truncatedAt = TruncatedAt
      /\ Answer(rows).cursor = Cursor(Newest(PageLimit, rows))
      /\ Answer(rows).more = (Cardinality(rows) > PageLimit)
  BY DEF Answer, Answered, Page, OnPage
<1>3. Newest(PageLimit, rows) \in SUBSET rows
  BY DEF Newest
<1>4. ASSUME Newest(PageLimit, rows) # {}
      PROVE  /\ Cursor(Newest(PageLimit, rows)) \in Newest(PageLimit, rows)
             /\ \A i \in Newest(PageLimit, rows) : Cursor(Newest(PageLimit, rows)) <= i
  <2>1. \A i \in 1 .. n : i \in Nat
    BY <1>1
  <2>2. Newest(PageLimit, rows) \in SUBSET Nat
    BY <1>1, <1>3, <2>1
  <2> QED BY <1>4, <2>2, MinIs DEF Cursor
<1>10. Newest(PageLimit, rows) = {} => Cursor(Newest(PageLimit, rows)) = 0
  BY DEF Cursor
<1>5. rows # {} => Newest(PageLimit, rows) # {}
  BY <1>1, NewestSome
<1>6. Cardinality(rows) \in Nat /\ (rows = {} => Cardinality(rows) = 0)
  <2>1. IsFiniteSet(rows)
    <3>1. IsFiniteSet(1 .. n)
      BY <1>1, FS_Interval
    <3> QED BY <1>1, <3>1, FS_Subset
  <2> QED BY <2>1, FS_CardinalityType, FS_EmptySet
<1>7. ~(Cardinality(rows) > PageLimit) => Newest(PageLimit, rows) = rows
  BY <1>1, <1>6, NewestFew
<1>8. ASSUME NEW i \in rows, NEW j \in Newest(PageLimit, rows), j <= i PROVE i \in Newest(PageLimit, rows)
  <2>1. i \in Int /\ j \in Int
    <3>1. \A x \in 1 .. n : x \in Int
      BY <1>1
    <3> QED BY <1>1, <1>3, <3>1
  <2>2. i = j \/ i > j
    BY <1>8, <2>1
  <2> QED BY <1>1, <1>8, <2>2, NewestAbove
<1>9. Cardinality(rows) > PageLimit => rows # {}
  BY <1>1, <1>6
<1> QED BY <1>2, <1>3, <1>4, <1>5, <1>7, <1>8, <1>9, <1>10

\* The permission that is there now is the newest that was given, and what is since then
\* counts from its slot and position.
CurrentTrue ==
  /\ Current \in Past \cup {0} /\ Current \in Nat /\ Since \in Nat /\ Since <= Current
  /\ Current # 0 => Event(Current).kind = "created" /\ Since = First(Event(Current)) /\ Since >= 1
  /\ Current = 0 => Since = 0
  /\ \A i \in Past : Event(i).kind = "created" => i <= Current /\ First(Event(i)) <= Since

\* The creation of the permission that is there now.
LEMMA CurrentIs == FeedTypeOK /\ Chronicle => CurrentTrue
<1> SUFFICES ASSUME FeedTypeOK, Chronicle PROVE CurrentTrue
  OBVIOUS
<1>1. /\ \A i \in Past : /\ i \in Nat /\ i >= 1 /\ First(Event(i)) \in Nat /\ 1 <= First(Event(i))
                         /\ First(Event(i)) <= i
      /\ \A i, j \in Past : i >= j => First(Event(i)) >= First(Event(j))
  BY OrderIs DEF OrderTrue
<1>2. PICK n \in Nat : Past \subseteq 1 .. n
  BY OrderIs DEF OrderTrue
<1> DEFINE given == {0} \cup {i \in Past : Event(i).kind = "created"}
<1>3. given # {} /\ given \in SUBSET (0 .. n)
  <2>1. 0 \in 0 .. n /\ \A x \in 1 .. n : x \in 0 .. n
    OBVIOUS
  <2> QED BY <1>2, <2>1, Zenon
<1>4. Max(given) \in given /\ \A y \in given : y <= Max(given)
  <2> HIDE DEF given
  <2> QED BY <1>3, MaxIs
<1>5. Current = Max(given)
  BY DEF Current
<1> HIDE DEF Current
<1>6. /\ Current \in Past \cup {0} /\ Current \in Nat
      /\ Current # 0 => Current \in Past /\ Event(Current).kind = "created"
      /\ \A i \in Past : Event(i).kind = "created" => i <= Current
  BY <1>1, <1>4, <1>5
<1>7. CASE Current = 0
  <2>1. \A i \in Past : Event(i).kind # "created"
    BY <1>1, <1>6, <1>7
  <2> QED BY <1>6, <1>7, <2>1 DEF CurrentTrue, Since
<1>8. CASE Current # 0
  <2>1. Since = First(Event(Current)) /\ Current \in Past
    BY <1>6, <1>8 DEF Since, Bound
  <2>2. \A i \in Past : Event(i).kind = "created" => First(Event(i)) <= Since
    BY <1>1, <1>6, <2>1
  <2> QED BY <1>1, <1>6, <1>8, <2>1, <2>2 DEF CurrentTrue
<1> QED BY <1>7, <1>8

\* Only an event moves it.
LEMMA CurrentMoves ==
  ASSUME FeedTypeOK, Chronicle, FeedNext, filed' = filed
  PROVE  Current' = Current /\ Since' = Since
<1>1. Past' = Past /\ \A i \in Past : log'[filed'[i]] = Event(i)
  BY StoreStep DEF StoreGrows, Past
<1>2. Current' = Max({0} \cup {i \in Past' : log'[filed'[i]].kind = "created"})
  BY DEF Current, Event
<1>3. {i \in Past' : log'[filed'[i]].kind = "created"} = {i \in Past : Event(i).kind = "created"}
  BY <1>1
<1>4. Current' = Current
  BY <1>2, <1>3 DEF Current
<1>5. Current # 0 => log'[filed'[Current]] = Event(Current)
  BY <1>1, CurrentIs DEF CurrentTrue
<1>6. Since' = IF Current' = 0 THEN 0 ELSE First(log'[filed'[Current']])
  BY DEF Since, Bound, Event, First, Key
<1> QED BY <1>4, <1>5, <1>6 DEF Since, Bound

-----------------------------------------------------------------------------
(***************************************************************************)
(* The request for a page, and the pages that were given.                  *)
(***************************************************************************)

\* Where nothing is stored, the permission that is there now is the same.
LEMMA SameStore ==
  ASSUME UNCHANGED <<day, log, start, filed, stored>>
  PROVE  Current' = Current /\ Since' = Since /\ Past' = Past
<1>1. Current' = Current /\ Past' = Past
  BY DEF Current, Event, Past
<1>2. Since' = Since
  BY <1>1 DEF Since, Bound, Event, First, Key
<1> QED BY <1>1, <1>2

\* A list without a page shows nothing.
LEMMA NoItems ==
  /\ Items(<<>>) = {} /\ Joined(<<>>)
  /\ NoRequest.got = <<>> /\ NoRequest.phase = "none" /\ NoRequest.creation = 0 /\ NoRequest.rows = {}
BY DEF Items, Joined, NoRequest

\* What asking changes.
LEMMA AskIs ==
  ASSUME NEW n, NEW got
  PROVE  /\ Ask(n, got).phase = "creation" /\ Ask(n, got).creation = 0 /\ Ask(n, got).rows = {}
         /\ Ask(n, got).got = got /\ Ask(n, got) # NoRequest
<1>1. /\ Ask(n, got).phase = "creation" /\ Ask(n, got).creation = 0 /\ Ask(n, got).rows = {}
      /\ Ask(n, got).got = got
  BY DEF Ask, NoRequest
<1>2. Ask(n, got).phase # NoRequest.phase
  BY <1>1 DEF NoRequest
<1> QED BY <1>1, <1>2

\* What was read is behind the indexer.
LEMMA ItemsArePast ==
  ASSUME FeedTypeOK
  PROVE  /\ Items(list) \subseteq Past /\ Items(req.got) \subseteq Past /\ req.rows \subseteq Past
         /\ req.got \in Seq(PageType) /\ req.creation \in Nat
         /\ list # <<>> => Last(list).items \subseteq Past
<1>1. req \in RequestRow /\ list \in Seq(PageType)
  BY DEF FeedTypeOK, RequestRow
<1>2. req.got \in Seq(PageType) /\ req.creation \in Nat /\ req.rows \subseteq Past
  BY <1>1 DEF RequestRow
<1>3. ASSUME NEW pages \in Seq(PageType), NEW p \in DOMAIN pages PROVE pages[p].items \subseteq Past
  <2>1. pages[p] \in PageType
    BY <1>3
  <2> QED BY <2>1 DEF PageType
<1>4. list # <<>> => Last(list) = list[Len(list)] /\ Len(list) \in DOMAIN list
  BY <1>1 DEF Last
<1> QED BY <1>1, <1>2, <1>3, <1>4 DEF Items

\* Nothing is stored and no page is read: the clock, the program, and the passes.
LEMMA ReadsQuiet ==
  ASSUME FeedTypeOK, RequestTrue, WholeTrue, OwnTrue, UNCHANGED <<req, list, dirty>>,
         stored' \subseteq stored, Current' = Current, Since' = Since,
         stored' = stored \/ torn' \/ req = NoRequest, torn => torn'
  PROVE  RequestTrue' /\ WholeTrue' /\ OwnTrue'
<1>1. \A i \in stored : Past # {}
  BY DEF FeedTypeOK
<1>2. RequestTrue'
  BY ItemsArePast DEF RequestTrue, Before, Joined
<1>3. WholeTrue'
  <2>1. \A pages : Whole(pages) => (Whole(pages))'
    BY <1>1 DEF Whole, Items
  <2>2. Whole(req.got) => Whole(req.got)'
    BY <1>1 DEF Whole, Items
  <2>3. Whole(list) => Whole(list)'
    BY <1>1 DEF Whole, Items
  <2> QED BY <1>1, <2>2, <2>3 DEF WholeTrue, Before
<1>4. OwnTrue'
  <2> SUFFICES ASSUME ~dirty', ~torn' PROVE OwnTrue'
    BY DEF OwnTrue
  <2>1. ~dirty /\ ~torn
    OBVIOUS
  <2>2. /\ \A i \in Items(req'.got) \cup req'.rows : i >= Since'
        /\ req'.phase = "rows" /\ req'.creation = 0 => \A i \in stored' : i >= Since'
        /\ req'.phase = "rows" /\ req'.creation # 0 => req'.creation = Since' /\ Current' \in stored'
        /\ req'.rows \subseteq stored'
    BY <2>1, ItemsArePast, NoItems DEF OwnTrue, RequestTrue
  <2>3. req' = NoRequest => \A i \in Items(list') : i >= Since'
    BY <2>1, ItemsArePast DEF OwnTrue
  <2>4. (req' = NoRequest /\ list' # <<>> /\ ~Last(list').more /\ Last(list').truncatedAt = 0
         /\ Last(list').items # {}) => Current' \in Items(list')
    BY <2>1, ItemsArePast DEF OwnTrue
  <2> QED BY <2>2, <2>3, <2>4 DEF OwnTrue, Items
<1> QED BY <1>2, <1>3, <1>4

\* A request begins: for the list again, or for the page that follows it.
LEMMA ReadsAsk ==
  ASSUME FeedTypeOK, RequestTrue, WholeTrue, OwnTrue, UNCHANGED <<storeVars, list>>,
         NEW n, \/ req' = Ask(n, <<>>)
                \/ req = NoRequest /\ UNCHANGED <<dirty, torn>> /\ list # <<>> /\ Last(list).more /\ req' = Ask(n, list)
  PROVE  RequestTrue' /\ WholeTrue' /\ OwnTrue'
<1>1. Current' = Current /\ Since' = Since /\ stored' = stored
  BY SameStore DEF storeVars
<1>2. /\ req'.phase = "creation" /\ req'.creation = 0 /\ req'.rows = {} /\ req' # NoRequest
      /\ req'.got \in {<<>>, list}
  BY AskIs
<1>3. req'.got # <<>> => /\ req'.got = list /\ UNCHANGED <<dirty, torn>> /\ req = NoRequest
                         /\ list # <<>> /\ Last(list).more
  BY AskIs
<1>4. RequestTrue'
  <2>1. Joined(list) /\ Joined(req'.got)
    BY <1>2, NoItems DEF RequestTrue
  <2>2. Joined(list)' /\ Joined(req.got)'
    BY <2>1 DEF Joined
  <2>3. \A p \in DOMAIN req'.got : req'.got[p].more
    <3>1. CASE req'.got = <<>>
      BY <3>1
    <3>2. CASE req'.got # <<>>
      <4>1. list \in Seq(PageType) /\ req'.got = list /\ Last(list).more /\ list # <<>>
        BY <1>3, <3>2 DEF FeedTypeOK
      <4>2. \A p \in DOMAIN list : p < Len(list) => list[p].more
        BY DEF RequestTrue, Joined
      <4>3. ASSUME NEW p \in DOMAIN list PROVE list[p].more
        <5>1. p \in 1 .. Len(list) /\ Len(list) \in Nat
          BY <4>1
        <5>2. CASE p = Len(list)
          BY <4>1, <5>2 DEF Last
        <5>3. CASE p # Len(list)
          BY <4>2, <5>1, <5>3
        <5> QED BY <5>2, <5>3
      <4> QED BY <4>1, <4>3
    <3> QED BY <3>1, <3>2
  <2> QED BY <1>2, <2>2, <2>3 DEF RequestTrue, NoRequest
<1>5. WholeTrue'
  <2>1. CASE req'.got = <<>>
    BY <1>2, <2>1 DEF WholeTrue, Whole
  <2>2. CASE req'.got # <<>>
    <3>1. Whole(list) => Whole(req.got)'
      BY <1>1, <1>3, <2>2 DEF Whole, Items
    <3> QED BY <1>2, <1>3, <2>2, <3>1 DEF WholeTrue
  <2> QED BY <2>1, <2>2
<1>6. OwnTrue'
  <2>1. CASE req'.got = <<>>
    <3>1. Items(req'.got) = {}
      BY <2>1, NoItems
    <3> QED BY <1>2, <3>1 DEF OwnTrue, Items
  <2>2. CASE req'.got # <<>>
    <3>1. Items(req'.got) = Items(list)
      BY <1>3, <2>2
    <3> QED BY <1>1, <1>2, <1>3, <2>2, <3>1 DEF OwnTrue, Items
  <2> QED BY <2>1, <2>2
<1> QED BY <1>4, <1>5, <1>6

\* An event is stored: what is on the page is asked for again, if there is anything.
LEMMA ReadsInsert ==
  ASSUME FeedTypeOK, FeedTypeOK', Chronicle, Chronicle', RequestTrue, WholeTrue, OwnTrue, Insert
  PROVE  RequestTrue' /\ WholeTrue' /\ OwnTrue'
<1>1. UNCHANGED <<req, list>> /\ dirty' = (list # <<>> \/ req # NoRequest)
  BY DEF Insert
<1>2. req.creation # 0 => req.creation <= Since'
  <2> SUFFICES ASSUME req.creation # 0 PROVE req.creation <= Since'
    OBVIOUS
  <2>1. /\ req.creation \in Nat \ {0} /\ req.creation <= Since /\ Since \in Nat
        /\ Current = 0 => Since = 0
        /\ Current # 0 => Current \in Past /\ Event(Current).kind = "created" /\ Since = First(Event(Current))
    BY CurrentIs, ItemsArePast DEF RequestTrue, CurrentTrue
  <2>2. Current # 0
    BY <2>1
  <2>3. CurrentTrue'
    BY CurrentIs, PTL
  <2>4. /\ Since' \in Nat
        /\ \A i \in Past' : log'[filed'[i]].kind = "created" => First(log'[filed'[i]]) <= Since'
    BY <2>3 DEF CurrentTrue, Event, First, Key
  <2>5. Current \in Past' /\ log'[filed'[Current]] = Event(Current)
    BY <2>1, <2>2, StoreInserts DEF StoreGrows
  <2>6. Since <= Since'
    BY <2>1, <2>2, <2>4, <2>5
  <2> QED BY <2>1, <2>4, <2>6
<1>3. RequestTrue'
  BY <1>1, <1>2 DEF RequestTrue, Before, Joined
<1>4. CASE dirty'
  BY <1>3, <1>4 DEF WholeTrue, OwnTrue
<1>5. CASE ~dirty'
  <2>1. list' = <<>> /\ req' = NoRequest
    BY <1>1, <1>5
  <2>2. /\ Items(list') = {} /\ Items(req'.got) = {} /\ req'.rows = {} /\ req'.phase = "none" /\ req'.got = <<>>
    BY <2>1, NoItems
  <2>3. WholeTrue'
    BY <2>1, <2>2 DEF WholeTrue, Whole
  <2>4. OwnTrue'
    BY <2>1, <2>2 DEF OwnTrue, Items
  <2> QED BY <1>3, <2>3, <2>4
<1> QED BY <1>4, <1>5

\* The newest creation that is stored, and what it is of when no cut is under way.
LEMMA CreationIs ==
  ASSUME FeedTypeOK, Chronicle, NEW creation, creation = IF Creations = {} THEN 0 ELSE Bound(Max(Creations))
  PROVE  /\ creation # 0 => creation \in Nat /\ creation <= Since
         /\ ~HalfCut => IF creation = 0 THEN \A i \in stored : i >= Since
                                        ELSE creation = Since /\ Current \in stored
<1>1. /\ Current \in Past \cup {0} /\ Current \in Nat /\ Since \in Nat /\ Since <= Current
      /\ Current # 0 => Event(Current).kind = "created" /\ Since = First(Event(Current)) /\ Since >= 1
      /\ Current = 0 => Since = 0
      /\ \A i \in Past : Event(i).kind = "created" => i <= Current /\ First(Event(i)) <= Since
  BY CurrentIs DEF CurrentTrue
<1>2. /\ stored \subseteq Past /\ Creations \subseteq stored
      /\ \A i \in stored : i \in Creations <=> Event(i).kind = "created"
      /\ \A i \in Past : i \in Nat /\ First(Event(i)) \in Nat /\ 1 <= First(Event(i))
      /\ \E n \in Nat : Past \subseteq 1 .. n
  BY OrderIs DEF Creations, FeedTypeOK, OrderTrue
<1>3. ~HalfCut => \A i \in Past, j \in stored : j < i => i \in stored
  BY DEF HalfCut
<1>4. CASE Creations = {}
  <2>1. creation = 0
    BY <1>4
  <2>2. ASSUME ~HalfCut, NEW i \in stored PROVE i >= Since
    <3>1. CASE Current = 0
      BY <1>1, <1>2, <3>1
    <3>2. CASE Current # 0
      <4>1. Current \in Past /\ Current \notin stored
        BY <1>1, <1>2, <1>4, <3>2
      <4>2. ~(i < Current)
        BY <1>3, <2>2, <4>1
      <4> QED BY <1>1, <1>2, <4>2
    <3> QED BY <3>1, <3>2
  <2> QED BY <2>1, <2>2
<1>5. CASE Creations # {}
  <2> DEFINE newest == Max(Creations)
  <2>1. newest \in Creations /\ \A i \in Creations : i <= newest
    BY <1>2, <1>5, MaxOf
  <2> HIDE DEF newest
  <2>2. creation = First(Event(newest)) /\ creation # 0 /\ creation \in Nat /\ creation <= Since
    <3>1. creation = First(Event(newest))
      BY <1>5 DEF Bound, newest
    <3> QED BY <1>1, <1>2, <2>1, <3>1
  <2>3. ASSUME ~HalfCut PROVE creation = Since /\ Current \in stored
    <3>1. newest <= Current /\ newest \in Nat /\ newest >= 1
      BY <1>1, <1>2, <2>1
    <3>2. Current \in Past
      BY <1>1, <3>1
    <3>3. Current \in stored
      <4>1. CASE newest = Current
        BY <1>2, <2>1, <4>1
      <4>2. CASE newest # Current
        BY <1>1, <1>2, <1>3, <2>1, <2>3, <3>1, <3>2, <4>2
      <4> QED BY <4>1, <4>2
    <3>4. Current = newest
      BY <1>1, <1>2, <2>1, <3>1, <3>3
    <3> QED BY <1>1, <2>2, <3>1, <3>3, <3>4
  <2> QED BY <2>2, <2>3
<1> QED BY <1>4, <1>5

\* The newest creation is read first.
LEMMA ReadsCreation ==
  ASSUME FeedTypeOK, Chronicle, RequestTrue, WholeTrue, OwnTrue, ReadCreation
  PROVE  RequestTrue' /\ WholeTrue' /\ OwnTrue'
<1>1. PICK creation : /\ creation = IF Creations = {} THEN 0 ELSE Bound(Max(Creations))
                      /\ req' = [req EXCEPT !.phase = "rows", !.creation = creation]
                      /\ torn' = (torn \/ HalfCut)
  BY DEF ReadCreation, Bounded
<1>2. req.phase = "creation" /\ UNCHANGED <<storeVars, pass, retention, list, dirty>>
  BY DEF ReadCreation, Bounded
<1>3. req \in RequestRow
  BY DEF FeedTypeOK, RequestRow
<1>4. req'.phase = "rows" /\ req'.creation = creation /\ req'.got = req.got /\ req'.rows = req.rows
  BY <1>1, <1>3 DEF RequestRow
<1>5. req # NoRequest /\ req' # NoRequest /\ req.rows = {}
  <2>1. NoRequest.phase = "none"
    BY NoItems
  <2> QED BY <1>2, <1>4, <2>1 DEF RequestTrue
<1>6. Current' = Current /\ Since' = Since /\ stored' = stored
  BY <1>2, SameStore DEF storeVars
<1>7. RequestTrue'
  BY <1>2, <1>4, <1>5, <1>6, CreationIs, <1>1 DEF RequestTrue, Joined
<1>8. WholeTrue'
  <2>1. Whole(req.got) => Whole(req.got)'
    BY <1>4, <1>6 DEF Whole, Items
  <2> QED BY <1>2, <1>4, <1>5, <2>1 DEF WholeTrue
<1>9. OwnTrue'
  <2> SUFFICES ASSUME ~dirty', ~torn' PROVE OwnTrue'
    BY DEF OwnTrue
  <2>1. ~dirty /\ ~torn /\ ~HalfCut
    BY <1>1, <1>2
  <2>2. IF creation = 0 THEN \A i \in stored : i >= Since ELSE creation = Since /\ Current \in stored
    BY <1>1, <2>1, CreationIs
  <2>3. Items(req.got)' = Items(req.got)
    BY <1>4 DEF Items
  <2>4. \A i \in Items(req.got) \cup req.rows : i >= Since
    BY <2>1 DEF OwnTrue
  <2> QED BY <1>4, <1>5, <1>6, <2>2, <2>3, <2>4 DEF OwnTrue
<1> QED BY <1>7, <1>8, <1>9

\* A page is taken from the rows that were read.
LEMMA ReadsTake ==
  ASSUME FeedTypeOK, Chronicle, RequestTrue, WholeTrue, OwnTrue, UNCHANGED <<storeVars, dirty, torn>>,
         req.phase # "none", NEW rows \in SUBSET Past, Take(Answer(rows)),
         \A i \in rows : Before(req.got, i),
         ~dirty => \A i \in stored :
                     (/\ i >= Since /\ Before(req.got, i)
                      /\ Cardinality(rows) <= PageLimit \/ \E j \in rows : j <= i) => i \in rows,
         ~dirty /\ ~torn => \A i \in rows : i >= Since,
         ~dirty /\ ~torn /\ Cardinality(rows) <= PageLimit /\ TruncatedAt = 0 /\ rows # {} => Current \in Items(req.got) \cup rows
  PROVE  RequestTrue' /\ WholeTrue' /\ OwnTrue'
<1> DEFINE page == Answer(rows)  got == req.got  new == Append(got, page)
<1>1. page \in PageType /\ got \in Seq(PageType) /\ list \in Seq(PageType)
  BY PageTyped, ItemsArePast DEF FeedTypeOK
<1>2. /\ page.items \in SUBSET rows /\ page.truncatedAt = TruncatedAt
      /\ rows # {} => page.items # {}
      /\ IF page.items # {} THEN page.cursor \in page.items ELSE page.cursor = 0
      /\ \A i \in page.items : page.cursor <= i
      /\ page.more <=> Cardinality(rows) > PageLimit
      /\ page.more => rows # {}
      /\ ~page.more => page.items = rows
      /\ \A i \in rows, j \in page.items : j <= i => i \in page.items
  BY AnswerIs
<1>3. /\ new # <<>> /\ Last(new) = page
      /\ Len(got) \in Nat /\ Len(new) = Len(got) + 1
      /\ DOMAIN got = 1 .. Len(got) /\ DOMAIN new = 1 .. Len(got) + 1
      /\ new[Len(got) + 1] = page
      /\ \A p \in DOMAIN got : new[p] = got[p]
      /\ Items(new) = Items(got) \cup page.items
      /\ got # <<>> => Last(got) = got[Len(got)] /\ Len(got) \in DOMAIN got
  BY <1>1, Appended
<1>4. \/ Len(new) < req.pages /\ page.more /\ req' = Ask(req.pages, new) /\ list' = list
      \/ req' = NoRequest /\ list' = new
  BY DEF Take
<1> HIDE DEF page, got, new
<1>5. /\ Joined(got) /\ Joined(list) /\ \A p \in DOMAIN got : got[p].more
      /\ req # NoRequest /\ (~dirty => Whole(got))
      /\ ~dirty /\ ~torn => \A i \in Items(got) : i >= Since
  BY NoItems DEF RequestTrue, WholeTrue, OwnTrue, got
<1>6. Current' = Current /\ Since' = Since /\ stored' = stored /\ Past' = Past /\ stored \subseteq Past
      /\ \A i \in Past : i \in Nat
  BY SameStore, OrderIs DEF storeVars, FeedTypeOK, OrderTrue
<1>7. \A i \in rows : i \in Int /\ Before(got, i)
  BY <1>6 DEF got
<1>8. Joined(new)
  <2>1. \A p \in DOMAIN got : /\ \A i \in got[p].items : got[p].cursor <= i
                              /\ got[p].items # {} /\ got[p].cursor \in got[p].items
                              /\ \A i \in got[p].items : i \in Int
    <3>1. \A p \in DOMAIN got : got[p] \in PageType
      BY <1>1
    <3>2. \A p \in DOMAIN got : \A i \in got[p].items : i \in Int
      BY <1>6, <3>1 DEF PageType
    <3> QED BY <1>5, <3>2 DEF Joined
  <2>2. ASSUME NEW p \in DOMAIN new
        PROVE  /\ \A i \in new[p].items : new[p].cursor <= i
               /\ IF new[p].items # {} THEN new[p].cursor \in new[p].items ELSE new[p].cursor = 0
               /\ new[p].more => new[p].items # {}
               /\ p < Len(new) => new[p].more
    <3>1. CASE p \in DOMAIN got
      BY <1>3, <1>5, <2>1, <3>1
    <3>2. CASE p \notin DOMAIN got
      <4>1. p = Len(got) + 1 /\ new[p] = page
        BY <1>3, <3>2
      <4> QED BY <1>2, <1>3, <4>1
    <3> QED BY <3>1, <3>2
  <2>3. ASSUME NEW p \in DOMAIN new, NEW q \in DOMAIN new, p < q, NEW i \in new[q].items
        PROVE  i < new[p].cursor
    <3>1. p \in DOMAIN got /\ new[p] = got[p] /\ Len(got) \in DOMAIN got /\ got # <<>>
      BY <1>3, <2>3
    <3>2. CASE q \in DOMAIN got
      BY <1>3, <1>5, <2>3, <3>1, <3>2 DEF Joined
    <3>3. CASE q \notin DOMAIN got
      <4>1. i \in page.items
        <5>1. q = Len(got) + 1
          BY <1>3, <3>3
        <5> QED BY <1>3, <2>3, <5>1
      <4>2. i \in Int /\ i < Last(got).cursor /\ Last(got) = got[Len(got)]
        BY <1>2, <1>3, <1>7, <3>1, <4>1 DEF Before
      <4>3. CASE p = Len(got)
        BY <3>1, <4>2, <4>3
      <4>4. CASE p # Len(got)
        <5>1. p < Len(got)
          BY <1>3, <3>1, <4>4
        <5>2. Last(got).cursor \in got[Len(got)].items
          BY <2>1, <3>1, <4>2
        <5>3. Last(got).cursor < got[p].cursor /\ Last(got).cursor \in Int /\ got[p].cursor \in Int
          BY <1>5, <2>1, <3>1, <5>1, <5>2 DEF Joined
        <5> QED BY <3>1, <4>2, <5>3
      <4> QED BY <4>3, <4>4
    <3> QED BY <3>2, <3>3
  <2> QED BY <2>2, <2>3 DEF Joined
<1>9. ASSUME ~dirty PROVE Whole(new)
  <2> SUFFICES ASSUME NEW i \in stored, i >= Since, i >= page.cursor PROVE i \in Items(got) \cup page.items
    BY <1>3 DEF Whole
  <2>1. i \in Int
    BY <1>6
  <2>2. CASE Before(got, i)
    <3>1. CASE rows = {}
      <4>1. Cardinality(rows) <= PageLimit
        BY <3>1, FeedBounds, FS_EmptySet
      <4> QED BY <1>9, <2>2, <3>1, <4>1 DEF got
    <3>2. CASE rows # {}
      <4>1. page.cursor \in page.items /\ page.cursor \in rows
        BY <1>2, <3>2
      <4>2. i \in rows
        BY <1>9, <2>2, <4>1 DEF got
      <4> QED BY <1>2, <4>1, <4>2
    <3> QED BY <3>1, <3>2
  <2>3. CASE ~(Before(got, i))
    <3>1. got # <<>>
      BY <2>3 DEF Before
    <3>2. i >= Last(got).cursor
      <4>1. Last(got).cursor \in Nat
        <5>1. Last(got) \in PageType
          BY <1>1, <1>3, <3>1
        <5> QED BY <5>1 DEF PageType
      <4> QED BY <2>1, <2>3, <3>1, <4>1 DEF Before
    <3> QED BY <1>5, <1>9, <3>1, <3>2 DEF Whole
  <2> QED BY <2>2, <2>3
<1>10. ~dirty /\ ~torn => \A i \in Items(new) : i >= Since
  BY <1>2, <1>3, <1>5
<1>11. ASSUME ~dirty, ~torn, ~page.more, page.truncatedAt = 0, page.items # {} PROVE Current \in Items(new)
  <2>1. page.items = rows /\ Cardinality(rows) <= PageLimit /\ rows # {}
    <3>1. IsFiniteSet(rows)
      <4>1. PICK n \in Nat : Past \subseteq 1 .. n
        BY OrderIs DEF OrderTrue
      <4>2. IsFiniteSet(1 .. n)
        BY FS_Interval
      <4>3. rows \in SUBSET (1 .. n)
        BY <4>1, Zenon
      <4> QED BY <4>2, <4>3, FS_Subset
    <3> QED BY <1>2, <1>11, <3>1, FS_CardinalityType, FeedBounds
  <2> QED BY <1>2, <1>3, <1>11, <2>1 DEF got
<1>12. CASE page.more /\ req' = Ask(req.pages, new) /\ list' = list
  <2>1. /\ req'.phase = "creation" /\ req'.creation = 0 /\ req'.rows = {} /\ req'.got = new /\ req' # NoRequest
    BY <1>12, AskIs
  <2>2. \A p \in DOMAIN new : new[p].more
    <3>1. ASSUME NEW p \in DOMAIN new, p \notin DOMAIN got PROVE new[p] = page
      <4>1. p = Len(got) + 1
        BY <1>3, <3>1
      <4> QED BY <1>3, <4>1
    <3> QED BY <1>3, <1>5, <1>12, <3>1
  <2>3. RequestTrue'
    <3>1. Joined(list)' /\ Joined(req.got)'
      BY <1>5, <1>8, <1>12, <2>1 DEF Joined
    <3> QED BY <2>1, <2>2, <3>1, NoItems DEF RequestTrue
  <2>4. WholeTrue'
    <3>1. Whole(new) => Whole(req.got)'
      BY <1>6, <2>1 DEF Whole, Items
    <3> QED BY <1>9, <2>1, <3>1 DEF WholeTrue
  <2>5. OwnTrue'
    <3>1. Items(req.got)' = Items(new)
      BY <2>1 DEF Items
    <3> QED BY <1>6, <1>10, <2>1, <3>1 DEF OwnTrue
  <2> QED BY <2>3, <2>4, <2>5
<1>13. CASE req' = NoRequest /\ list' = new
  <2>1. /\ req'.phase = "none" /\ req'.creation = 0 /\ req'.rows = {} /\ req'.got = <<>> /\ Items(req'.got) = {}
    BY <1>13, NoItems
  <2>2. RequestTrue'
    <3>1. Joined(list)' /\ Joined(req.got)'
      BY <1>8, <1>13, <2>1, NoItems DEF Joined
    <3> QED BY <1>13, <2>1, <3>1 DEF RequestTrue
  <2>3. WholeTrue'
    <3>1. Whole(new) => Whole(list)'
      BY <1>6, <1>13 DEF Whole, Items
    <3>2. Whole(req.got)'
      BY <2>1 DEF Whole
    <3> QED BY <1>9, <2>1, <3>1, <3>2 DEF WholeTrue
  <2>4. OwnTrue'
    <3>1. Items(list)' = Items(new) /\ Items(req.got)' = {} /\ Last(list)' = page
      BY <1>3, <1>13, <2>1 DEF Items, Last
    <3> QED BY <1>6, <1>10, <1>11, <1>13, <2>1, <3>1 DEF OwnTrue
  <2> QED BY <2>2, <2>3, <2>4
<1> QED BY <1>4, <1>12, <1>13

\* The rows of the page are read next.
LEMMA ReadsRows ==
  ASSUME FeedTypeOK, Chronicle, RequestTrue, WholeTrue, OwnTrue, ReadRows
  PROVE  RequestTrue' /\ WholeTrue' /\ OwnTrue'
<1> DEFINE rows == Rows(req.creation, req.got)  all == Following(req.creation, req.got)
<1>1. req.phase = "rows" /\ UNCHANGED <<storeVars, dirty, torn>>
  BY DEF ReadRows
<1>2. /\ rows \in SUBSET all /\ all \in SUBSET stored /\ rows \in SUBSET Past
      /\ \A i \in all, j \in rows : j <= i => i \in rows
      /\ Cardinality(rows) <= PageLimit => rows = all
  BY RowsAre, RowsTyped
<1>3. \A i \in stored : i \in all <=> i >= req.creation /\ Before(req.got, i)
  BY DEF Following
<1>4. stored \subseteq Past /\ \A i \in stored : i \in Nat /\ i >= 1
  BY OrderIs DEF FeedTypeOK, OrderTrue
<1>5. ASSUME NEW i \in stored, i >= Since PROVE i \in all <=> Before(req.got, i)
  <2>1. CASE req.creation = 0
    BY <1>3, <1>4, <2>1
  <2>2. CASE req.creation # 0
    <3>1. req.creation <= Since /\ req.creation \in Nat /\ Since \in Nat
      BY <2>2, ItemsArePast, CurrentIs DEF RequestTrue, CurrentTrue
    <3> QED BY <1>3, <1>4, <1>5, <3>1
  <2> QED BY <2>1, <2>2
<1>6. \A i \in rows : i \in stored /\ i >= req.creation /\ Before(req.got, i)
  BY <1>2, <1>3
<1>7. \A i \in stored : (/\ i >= Since /\ Before(req.got, i)
                         /\ Cardinality(rows) <= PageLimit \/ \E j \in rows : j <= i) => i \in rows
  BY <1>2, <1>5
<1>8. ~dirty /\ ~torn => \A i \in rows : i >= Since
  BY <1>1, <1>6 DEF OwnTrue
<1>9. CASE req.creation # 0
  <2>1. Take(Answer(rows))
    BY <1>1, <1>9 DEF ReadRows
  <2>2. ~dirty /\ ~torn /\ Cardinality(rows) <= PageLimit /\ TruncatedAt = 0 /\ rows # {}
          => Current \in Items(req.got) \cup rows
    <3> SUFFICES ASSUME ~dirty, ~torn, Cardinality(rows) <= PageLimit PROVE Current \in Items(req.got) \cup rows
      OBVIOUS
    <3>1. Current \in stored /\ rows = all
      BY <1>1, <1>2, <1>9 DEF OwnTrue
    <3>2. Current >= Since /\ Current \in Nat
      BY CurrentIs DEF CurrentTrue
    <3>3. CASE Before(req.got, Current)
      BY <1>5, <3>1, <3>2, <3>3
    <3>4. CASE ~Before(req.got, Current)
      <4>1. req.got # <<>> /\ ~(Current < Last(req.got).cursor)
        BY <3>4 DEF Before
      <4>2. Last(req.got).cursor \in Nat
        <5>1. req.got \in Seq(PageType)
          BY ItemsArePast
        <5>2. Last(req.got) \in PageType
          BY <4>1, <5>1 DEF Last
        <5> QED BY <5>2 DEF PageType
      <4>3. Current >= Last(req.got).cursor
        BY <3>2, <4>1, <4>2
      <4> QED BY <3>1, <3>2, <4>1, <4>3 DEF WholeTrue, Whole
    <3> QED BY <3>3, <3>4
  <2> HIDE DEF rows, all
  <2> QED BY <1>1, <1>2, <1>6, <1>7, <1>8, <2>1, <2>2, ReadsTake
<1>10. CASE req.creation = 0
  <2>1. req' = [req EXCEPT !.phase = "oldest", !.rows = rows] /\ list' = list
    BY <1>1, <1>10 DEF ReadRows
  <2>2. req \in RequestRow
    BY DEF FeedTypeOK, RequestRow
  <2> HIDE DEF rows, all
  <2>3. /\ req'.phase = "oldest" /\ req'.creation = 0 /\ req'.got = req.got /\ req'.rows = rows
        /\ req' # NoRequest
    BY <1>10, <2>1, <2>2, NoItems DEF RequestRow
  <2>4. Current' = Current /\ Since' = Since /\ stored' = stored
    BY <1>1, SameStore DEF storeVars
  <2>5. RequestTrue'
    BY <1>6, <2>1, <2>3, NoItems DEF RequestTrue, Before, Joined
  <2>6. WholeTrue'
    <3>1. Whole(req.got) => Whole(req.got)'
      BY <2>3, <2>4 DEF Whole, Items
    <3>2. \A i : Before(req.got, i)' <=> Before(req.got, i)
      BY <2>3 DEF Before
    <3> QED BY <1>1, <1>7, <2>3, <2>4, <3>1, <3>2 DEF WholeTrue
  <2>7. OwnTrue'
    <3>1. Items(req.got)' = Items(req.got)
      BY <2>3 DEF Items
    <3> QED BY <1>1, <1>6, <1>8, <2>3, <2>4, <3>1 DEF OwnTrue
  <2> QED BY <2>5, <2>6, <2>7
<1> QED BY <1>9, <1>10

\* A page without a creation looks for the oldest row.
LEMMA ReadsOldest ==
  ASSUME FeedTypeOK, Chronicle, RequestTrue, WholeTrue, OwnTrue, ReadOldest
  PROVE  RequestTrue' /\ WholeTrue' /\ OwnTrue'
<1>1. req.phase = "oldest" /\ Take(Answer(req.rows)) /\ UNCHANGED <<storeVars, dirty, torn>>
  BY DEF ReadOldest, pageVars
<1>2. /\ req.creation = 0 /\ req.rows \in SUBSET Past
      /\ \A i \in req.rows : Before(req.got, i)
  BY <1>1, ItemsArePast DEF RequestTrue
<1>3. ~dirty => \A i \in stored :
                  (/\ i >= Since /\ Before(req.got, i)
                   /\ Cardinality(req.rows) <= PageLimit \/ \E j \in req.rows : j <= i) => i \in req.rows
  BY <1>1 DEF WholeTrue
<1>4. ~dirty /\ ~torn => req.rows \subseteq stored /\ \A i \in req.rows : i >= Since
  BY <1>1 DEF OwnTrue
<1>5. TruncatedAt = 0 => stored = {}
  <2> SUFFICES ASSUME stored # {} PROVE TruncatedAt # 0
    OBVIOUS
  <2> DEFINE days == {Event(i).at : i \in stored}
  <2>1. days \in SUBSET (Nat \ {0}) /\ days # {}
    BY Typed
  <2> HIDE DEF days
  <2>2. Min(days) \in days
    BY <2>1, MinIs
  <2>3. TruncatedAt = Min(days)
    BY <1>2 DEF TruncatedAt, days
  <2> QED BY <2>1, <2>2, <2>3
<1> QED BY <1>1, <1>2, <1>3, <1>4, <1>5, ReadsTake

FeedReads == RequestTrue /\ WholeTrue /\ OwnTrue

\* Every step keeps what the request, the list and the creation say.
LEMMA ReadsStep ==
  ASSUME FeedTypeOK, FeedTypeOK', Chronicle, Chronicle', FeedReads, [FeedNext]_feedVars
  PROVE  FeedReads'
<1> USE DEF FeedReads
<1>1. CASE UNCHANGED feedVars
  BY <1>1, SameStore DEF feedVars, RequestTrue, WholeTrue, OwnTrue, Whole, Items, Joined, Before
<1>2. ASSUME FeedNext, UNCHANGED <<req, list, dirty, filed>>, stored' \subseteq stored,
             stored' = stored \/ torn' \/ req = NoRequest, torn => torn'
      PROVE  FeedReads'
  BY <1>2, CurrentMoves, ReadsQuiet
<1>3. CASE Happens \/ NewDay \/ \E w \in Worker : BeginPass(w) \/ Record(w) \/ PassFails(w)
  <2>1. FeedNext
    BY <1>3 DEF FeedNext
  <2> QED BY <1>2, <1>3, <2>1 DEF Happens, NewDay, BeginPass, Record, PassFails, storeVars, pageVars
<1>4. ASSUME NEW w \in Worker, DeleteBatch(w) PROVE FeedReads'
  <2>1. FeedNext
    BY <1>4 DEF FeedNext
  <2> QED BY <1>2, <1>4, <2>1 DEF DeleteBatch, Deleted
<1>5. CASE Refetch \/ FetchNextPage
  BY <1>5, ReadsAsk DEF Refetch, FetchNextPage
<1> QED BY <1>1, <1>3, <1>4, <1>5, ReadsInsert, ReadsCreation, ReadsRows, ReadsOldest DEF FeedNext

-----------------------------------------------------------------------------
(***************************************************************************)
(* The history of a permission, always.                                    *)
(***************************************************************************)

\* The invariant holds at the start.
LEMMA FeedBegins == FeedInit => FeedInv
<1> SUFFICES ASSUME FeedInit PROVE FeedInv
  OBVIOUS
<1>1. /\ day = 1 /\ log = <<>> /\ start \in 1 .. 2 /\ filed = <<>> /\ stored = {} /\ pass = [w \in Worker |-> Idle]
      /\ retention = [keptSince |-> -Days, ranAt |-> 0] /\ req = NoRequest /\ list = <<>>
      /\ dirty = FALSE /\ torn = FALSE
  BY DEF FeedInit, KeptSince
<1>2. FeedTypeOK
  <2>1. Len(log) = 0 /\ log \in Seq(Happening) /\ list \in Seq(PageType) /\ <<>> \in Seq(PageType)
    BY <1>1
  <2>2. pass \in [Worker -> PassRow]
    <3>1. Idle \in PassRow
      BY <1>1 DEF Idle, PassRow
    <3> QED BY <1>1, <3>1
  <2>3. retention \in RetentionRow
    BY <1>1, FeedBounds DEF RetentionRow
  <2>4. req \in RequestRow
    BY <1>1, <2>1 DEF NoRequest, RequestRow
  <2>5. 0 <= MaxEvents
    BY FeedBounds
  <2>8. Past = {} /\ filed \in [Past -> 1 .. Len(log)]
    <3>1. DOMAIN filed = {}
      BY <1>1
    <3> QED BY <1>1, <3>1 DEF Past
  <2>6. day \in Nat \ {0} /\ start \in Nat \ {0} /\ stored \subseteq Past /\ dirty \in BOOLEAN /\ torn \in BOOLEAN
    <3>1. start \in Nat \ {0} /\ day \in Nat \ {0}
      BY <1>1
    <3>2. stored \subseteq Past /\ dirty \in BOOLEAN /\ torn \in BOOLEAN
      BY <1>1
    <3> QED BY <3>1, <3>2
  <2>7. Len(log) <= MaxEvents
    BY <2>1, <2>5
  <2> QED BY <2>1, <2>2, <2>3, <2>4, <2>6, <2>7, <2>8 DEF FeedTypeOK, RequestRow, PassRow, RetentionRow
<1>3. PassesTrue /\ NothingOlderKept
  BY <1>1, FeedBounds DEF PassesTrue, NothingOlderKept, Idle, Missing
<1>7. Chronicle
  BY <1>1 DEF Chronicle, Past
<1>4. RequestTrue
  BY <1>1, NoItems DEF RequestTrue
<1>5. WholeTrue
  BY <1>1, NoItems DEF WholeTrue, Whole
<1>6. OwnTrue
  BY <1>1, NoItems DEF OwnTrue
<1> QED BY <1>2, <1>3, <1>4, <1>5, <1>6, <1>7 DEF FeedInv

\* Every step keeps it, and the cut goes forward.
LEMMA FeedGoesOn ==
  ASSUME FeedInv, [FeedNext]_feedVars
  PROVE  FeedInv' /\ retention'.keptSince >= retention.keptSince
<1>1. FeedTypeOK'
  BY FeedTypeStep DEF FeedInv
<1>4. Chronicle'
  <2>1. CASE UNCHANGED feedVars
    BY <2>1 DEF feedVars, FeedInv, Chronicle, Past, Event, Places, First, Key
  <2> QED BY <2>1, StoreStep DEF FeedInv
<1>2. PassesTrue' /\ NothingOlderKept' /\ retention'.keptSince >= retention.keptSince
  BY PassesStep DEF FeedInv
<1>3. FeedReads'
  BY <1>1, <1>4, ReadsStep DEF FeedInv, FeedReads
<1> QED BY <1>1, <1>2, <1>3, <1>4 DEF FeedInv, FeedReads

\* A step of the history is one of the pages, or leaves them.
LEMMA HistoryMoves ==
  ASSUME [HistoryNext]_historyVars
  PROVE  [FeedNext]_feedVars /\ part' = part
BY DEF HistoryNext, historyVars, feedVars

(***************************************************************************)
(* What is true of the stored events, the passes, the request under way    *)
(* and the pages that were given holds always, however many workers prune  *)
(* and however small the pages (retention.ts, feed.ts, useFeed.ts).        *)
(***************************************************************************)
THEOREM FeedInvariant == HistorySpec => []FeedInv
<1>1. HistoryInit => FeedInv
  BY FeedBegins DEF HistoryInit
<1>2. FeedInv /\ [HistoryNext]_historyVars => FeedInv'
  BY FeedGoesOn, HistoryMoves
<1> QED BY <1>1, <1>2, PTL DEF HistorySpec

(***************************************************************************)
(* The moment the feed is known to be kept from never moves back, though   *)
(* passes of two workers overlap and their clocks are read at different    *)
(* times (retention.ts).                                                   *)
(***************************************************************************)
THEOREM CutsGoForward == HistorySpec => CutNeverBack
<1>1. FeedInv /\ [HistoryNext]_historyVars => [retention'.keptSince >= retention.keptSince]_feedVars
  BY FeedGoesOn, HistoryMoves
<1> QED BY <1>1, FeedInvariant, PTL DEF HistorySpec, CutNeverBack

\* How far the pages of the list go.
LEMMA EndsLowest ==
  ASSUME FeedInv, list # <<>>, NEW j \in Shown
  PROVE  Last(list).cursor <= j /\ Last(list).cursor \in Nat /\ j \in Nat
<1>1. list \in Seq(PageType) /\ Joined(list)
  BY DEF FeedInv, FeedTypeOK, RequestTrue
<1>2. PICK p \in DOMAIN list : j \in list[p].items
  BY DEF Shown, Items
<1>3. /\ DOMAIN list = 1 .. Len(list) /\ Len(list) \in DOMAIN list /\ Last(list) = list[Len(list)]
      /\ list[p] \in PageType /\ Last(list) \in PageType /\ Len(list) \in Nat
  BY <1>1 DEF Last
<1>7. Past \subseteq Nat
  BY OrderIs DEF FeedInv, OrderTrue
<1>4. j \in Nat /\ Last(list).cursor \in Nat /\ list[p].cursor \in Nat
  BY <1>2, <1>3, <1>7 DEF PageType
<1>5. CASE p = Len(list) \/ Last(list).items = {}
  BY <1>1, <1>2, <1>3, <1>4, <1>5 DEF Joined
<1>6. CASE p # Len(list) /\ Last(list).items # {}
  <2>1. Last(list).cursor \in Last(list).items /\ p < Len(list) /\ list[p].cursor <= j
    BY <1>1, <1>2, <1>3, <1>6 DEF Joined
  <2>2. Last(list).cursor < list[p].cursor
    BY <1>1, <1>3, <2>1 DEF Joined
  <2> QED BY <1>4, <2>1, <2>2
<1> QED BY <1>5, <1>6

\* What the invariant says of the pages is what their reader relies on.
LEMMA PagesAre == FeedInv => NoneTwice /\ NothingSkipped /\ OnlyCurrent /\ EndNamed /\ NothingOlderKept
<1> SUFFICES ASSUME FeedInv PROVE NoneTwice /\ NothingSkipped /\ OnlyCurrent /\ EndNamed
  BY DEF FeedInv
<1>1. list \in Seq(PageType) /\ Joined(list) /\ WholeTrue /\ OwnTrue /\ FeedTypeOK /\ Chronicle
  BY DEF FeedInv, FeedTypeOK, RequestTrue
<1>6. Past \subseteq Nat
  BY <1>1, OrderIs DEF OrderTrue
<1>2. NoneTwice
  <2> SUFFICES ASSUME NEW p \in DOMAIN list, NEW q \in DOMAIN list, p < q,
                      NEW i \in list[p].items, NEW j \in list[q].items
               PROVE  i > j
    BY DEF NoneTwice, InOrder
  <2>1. j < list[p].cursor /\ list[p].cursor <= i
    BY <1>1 DEF Joined
  <2>2. list[p] \in PageType /\ list[q] \in PageType
    BY <1>1
  <2>3. i \in Nat /\ j \in Nat /\ list[p].cursor \in Nat
    BY <1>6, <2>2 DEF PageType
  <2> QED BY <2>1, <2>3
<1>3. NothingSkipped
  <2> SUFFICES ASSUME Settled, NEW i \in stored, i >= Since, NEW j \in Shown, j < i
               PROVE  i \in Shown
    BY DEF NothingSkipped
  <2>1. Last(list).cursor <= j /\ Last(list).cursor \in Nat /\ j \in Nat /\ i \in Nat
    BY <1>1, <1>6, EndsLowest DEF Settled, FeedTypeOK
  <2>2. i >= Last(list).cursor
    BY <2>1
  <2> QED BY <1>1, <2>2 DEF Settled, WholeTrue, Whole, Shown
<1>4. OnlyCurrent
  <2> SUFFICES ASSUME Settled, ~torn
               PROVE  /\ \A i \in Shown : i >= Since
                      /\ (\A n \in Missing : log[n].kind # "created") => \A i \in Shown : OfCurrent(i)
    BY DEF OnlyCurrent
  <2>1. \A i \in Shown : i >= Since
    BY <1>1 DEF Settled, OwnTrue, Shown
  <2>2. ASSUME \A n \in Missing : log[n].kind # "created",
               NEW i \in Shown, NEW n \in start .. Len(log), log[n].kind = "created"
        PROVE  n <= filed[i] \/ log[n].slot = Event(i).slot
    <3>1. PICK j \in Past : filed[j] = n
      BY <2>2 DEF Missing
    <3>2. i \in Past /\ filed[i] \in 1 .. Len(log) /\ n \in 1 .. Len(log) /\ Len(log) \in Nat /\ DOMAIN log = 1 .. Len(log)
          /\ Event(i) = log[filed[i]] /\ Event(j) = log[n]
      BY <1>1, <3>1, ItemsArePast, Typed DEF Shown
    <3>3. First(Event(j)) <= Since /\ Since \in Nat
      BY <1>1, <2>2, <3>1, <3>2, CurrentIs DEF CurrentTrue
    <3>4. First(Event(j)) \in Nat /\ Event(i).slot \in Nat /\ Event(j).slot \in Nat /\ i \in Nat
      BY <1>1, <3>1, <3>2, OrderIs DEF OrderTrue
    <3>5. Event(i).slot >= Event(j).slot
      <4>1. i >= First(Event(j))
        BY <2>1, <2>2, <3>3, <3>4
      <4> QED BY <1>1, <3>1, <3>2, <4>1, OrderIs DEF OrderTrue
    <3>6. filed[i] < n => Event(i).slot <= log[n].slot
      BY <1>1, <3>2 DEF Chronicle
    <3> QED BY <3>2, <3>4, <3>5, <3>6
  <2> QED BY <2>1, <2>2 DEF OfCurrent
<1>5. EndNamed
  BY <1>1, <1>4 DEF EndNamed, OnlyCurrent, Settled, OwnTrue, Shown
<1> QED BY <1>2, <1>3, <1>4, <1>5

(***************************************************************************)
(* The pages one reader is given show nothing twice and skip nothing of    *)
(* the permission that is there now, show no event of an earlier one at    *)
(* the same address, name its creation as the end, and no pass leaves what *)
(* it said it cut. So in whatever order the events are stored, and though  *)
(* two of one slot may tie: what is said of an earlier permission holds as *)
(* far as the creations are stored, and of the chain as soon as none of    *)
(* them is missing (feed.ts, retention.ts, useFeed.ts, Subscription.tsx).  *)
(***************************************************************************)
THEOREM PagesAreTrue == HistorySpec => []PagesTrue
<1>1. FeedInv => PagesTrue
  BY PagesAre DEF PagesTrue
<1> QED BY <1>1, FeedInvariant, PTL

-----------------------------------------------------------------------------
(***************************************************************************)
(* The list of a wallet.                                                   *)
(***************************************************************************)

\* One more change turns what it was into what it was not.
LEMMA Parity == ASSUME NEW n \in Int PROVE ((n + 1) % 2 = 0) <=> ~(n % 2 = 0)
BY SMT

\* A tab that is closed.
LEMMA ClosedIs ==
  /\ Closed \in TabRow /\ NoList \in ListRow /\ NoList.saved = 0
  /\ ~Closed.open /\ Closed.wallet = Unselected /\ Closed.entered = 0 /\ Closed.asking = Unselected
  /\ \A w \in Wallets : Closed.data[w] = NoList
<1>1. NoList \in ListRow /\ NoList.saved = 0
  BY DEF NoList, ListRow
<1>2. Closed \in TabRow
  BY <1>1, ListBounds DEF Closed, TabRow, NoDifference, Words
<1> QED BY <1>1, <1>2 DEF Closed

\* The invariant of the list holds at the start.
LEMMA ListBegins == ListInit => ListInv
<1> SUFFICES ASSUME ListInit PROVE ListInv
  OBVIOUS
<1>1. /\ net \in [Wallets -> [has : BOOLEAN, read : {0}]]
      /\ store = [lists |-> [w \in Wallets |-> NoList], selected |-> Unselected]
      /\ tab = Closed /\ other = Unselected /\ forgot = FALSE
  BY DEF ListInit
<1>2. NoList \in ListRow /\ NoList.saved = 0 /\ Closed \in TabRow
  BY ClosedIs
<1>4. ListRows
  <2>1. net \in [Wallets -> [has : BOOLEAN, read : Nat]]
    <3>1. \A w \in Wallets : net[w] \in [has : BOOLEAN, read : {0}]
      BY <1>1
    <3>2. \A w \in Wallets : net[w] \in [has : BOOLEAN, read : Nat]
      BY <3>1
    <3> QED BY <1>1, <3>2
  <2> QED BY <1>1, <1>2, <2>1 DEF ListRows
<1>5. KeptTrue
  BY <1>1, <1>2 DEF KeptTrue, TrueOf, Closed
<1>6. AsksForShown /\ FirstTrue /\ DisconnectForgets
  BY <1>1 DEF AsksForShown, FirstTrue, DisconnectForgets, Closed, Shows
<1> QED BY <1>4, <1>5, <1>6 DEF ListInv

\* What the network answers is the wallet's, and was so when it was read.
LEMMA ListOfNetwork ==
  ASSUME ListRows, NEW w \in Wallets, NEW got \in NetworkLists(w)
  PROVE  /\ got \in ListRow /\ got.owner = w /\ got.saved = 0 /\ got # NoList
         /\ TrueOf(w, got) /\ Word(got) \in {"some", "nothing"}
         /\ Word(got) = (IF got.has THEN "some" ELSE "nothing")
<1>1. HadAt(w, 0) \in BOOLEAN /\ \A reading \in Nat : HadAt(w, reading) \in BOOLEAN
  BY DEF HadAt
<1>2. net[w].read \in Nat
  BY DEF ListRows
<1>3. PICK reading \in 0 .. net[w].read :
        \/ got = [owner |-> w, has |-> HadAt(w, reading), read |-> reading, quality |-> "whole", saved |-> 0]
        \/ got = [owner |-> w, has |-> FALSE, read |-> reading, quality |-> "short", saved |-> 0]
  BY DEF NetworkLists
<1>4. reading \in Nat /\ HadAt(w, reading) \in BOOLEAN
  BY <1>1, <1>2
<1>5. w \in Wallets \cup {Unselected} /\ 0 \in Nat
  OBVIOUS
<1>6. /\ got \in ListRow /\ got.owner = w /\ got.saved = 0
      /\ got.quality = "whole" => (got.has <=> HadAt(w, got.read))
  <2> DEFINE had == HadAt(w, reading)
  <2>1. CASE got = [owner |-> w, has |-> had, read |-> reading, quality |-> "whole", saved |-> 0]
    <3>1. got.has = had /\ got.read = reading /\ got.owner = w /\ got.saved = 0
      BY <2>1
    <3>2. had \in BOOLEAN
      BY <1>4
    <3> HIDE DEF had
    <3>3. got \in ListRow
      BY <1>4, <1>5, <2>1, <3>2 DEF ListRow
    <3> QED BY <3>1, <3>2, <3>3 DEF had
  <2>2. CASE got = [owner |-> w, has |-> FALSE, read |-> reading, quality |-> "short", saved |-> 0]
    BY <1>4, <1>5, <2>2 DEF ListRow
  <2> QED BY <1>3, <2>1, <2>2
<1>7. got # NoList
  BY <1>6 DEF NoList, Wallets, Unselected
<1>8. TrueOf(w, got)
  BY <1>6 DEF TrueOf
<1> QED BY <1>6, <1>7, <1>8 DEF Word

\* Drawing a page changes nothing but the difference.
LEMMA RenderedIs ==
  ASSUME NEW page \in TabRow
  PROVE  /\ Rendered(page) \in TabRow
         /\ Rendered(page) = [page EXCEPT !.difference = Rendered(page).difference]
         /\ Rendered(page).difference =
              IF Shows(page) /\ page.data[page.wallet] # NoList THEN Told(page) ELSE page.difference
<1>1. page.difference \in [of : Nat, differs : BOOLEAN]
  BY DEF TabRow
<1>2. page = [page EXCEPT !.difference = page.difference]
  BY DEF TabRow
<1>3. ASSUME NEW d \in [of : Nat, differs : BOOLEAN]
      PROVE  [page EXCEPT !.difference = d] \in TabRow /\ [page EXCEPT !.difference = d].difference = d
  BY DEF TabRow
<1>4. Told(page) \in [of : Nat, differs : BOOLEAN]
  <2>1. page.saved \in ListRow
    BY DEF TabRow
  <2>2. page.saved.saved \in Nat /\ (page.saved.has # page.data[page.wallet].has) \in BOOLEAN
    BY <2>1 DEF ListRow
  <2> QED BY <1>1, <2>2 DEF Told
<1> QED BY <1>1, <1>2, <1>3, <1>4 DEF Rendered

\* A copy that is taken up is told from an answer.
LEMMA SavedIs ==
  ASSUME NEW item \in ListRow, NEW n \in Nat, NEW w \in Wallets, TrueOf(w, item), item # NoList
  PROVE  LET saved == [item EXCEPT !.saved = n + 1] IN
         /\ saved \in ListRow /\ saved.saved = n + 1 /\ saved # NoList
         /\ TrueOf(w, saved)
<1> DEFINE saved == [item EXCEPT !.saved = n + 1]
<1>1. saved \in ListRow /\ saved.saved = n + 1
  BY DEF ListRow
<1>2. saved.owner = item.owner /\ saved.has = item.has /\ saved.read = item.read /\ saved.quality = item.quality
  BY DEF ListRow
<1>3. saved # NoList
  BY <1>1 DEF NoList
<1> HIDE DEF saved
<1>4. TrueOf(w, saved)
  BY <1>2 DEF TrueOf
<1> QED BY <1>1, <1>3, <1>4 DEF saved

\* A wallet is shown.
LEMMA EnterIs ==
  ASSUME ListRows, NEW w \in Wallets, NEW page \in TabRow, page.entered < MaxEntered
  PROVE  LET item   == CopyOf(w)
             saved == IF item = NoList THEN NoList ELSE [item EXCEPT !.saved = page.entered + 1]
             data  == IF page.data[w] = NoList THEN saved ELSE page.data[w]
             shown == Enter(page, w)
         IN /\ shown \in TabRow /\ shown.open = page.open /\ shown.wallet = w /\ shown.asking = w
            /\ shown.entered = page.entered + 1 /\ shown.difference = NoDifference
            /\ shown.saved = saved /\ shown.data = [page.data EXCEPT ![w] = data]
            /\ shown.answered = "none" /\ (page.entered = 0 => shown.first = Word(data))
<1> DEFINE item   == CopyOf(w)
           copy  == [item EXCEPT !.saved = page.entered + 1]
           saved == IF item = NoList THEN NoList ELSE copy
           data  == IF page.data[w] = NoList THEN saved ELSE page.data[w]
           first == IF page.entered = 0 THEN Word(data) ELSE "none"
<1>1. item \in ListRow /\ page.data[w] \in ListRow /\ page.data \in [Wallets -> ListRow]
  BY DEF CopyOf, ListRows, TabRow
<1>2. page.entered \in Nat /\ MaxEntered \in Nat /\ page.entered + 1 \in 0 .. MaxEntered
  BY ListBounds DEF TabRow
<1>3. copy \in ListRow
  BY <1>1, <1>2 DEF ListRow
<1>4. saved \in ListRow /\ data \in ListRow
  BY <1>1, <1>3 DEF ListRow, NoList
<1>5. first \in Words
  BY DEF Words, Word
<1>6. NoDifference \in [of : Nat, differs : BOOLEAN]
  BY DEF NoDifference
<1>7. Enter(page, w) =
        [page EXCEPT !.wallet = w, !.entered = page.entered + 1, !.asking = w, !.difference = NoDifference,
                     !.saved = saved, !.data = [page.data EXCEPT ![w] = data], !.first = first,
                     !.answered = "none"]
  <2>1. data = IF page.data[w] = NoList /\ item # NoList THEN copy ELSE page.data[w]
    OBVIOUS
  <2> QED BY <2>1 DEF Enter
<1>8. [page.data EXCEPT ![w] = data] \in [Wallets -> ListRow]
  BY <1>1, <1>4
<1> HIDE DEF item, copy, saved, data, first
<1>9. Enter(page, w) \in TabRow
  <2>1. "none" \in Words /\ page.entered + 1 \in 0 .. MaxEntered /\ w \in Wallets \cup {Unselected}
    BY <1>2 DEF Words
  <2> DEFINE all == [page.data EXCEPT ![w] = data]  count == page.entered + 1
  <2>2. all \in [Wallets -> ListRow] /\ count \in 0 .. MaxEntered
    BY <1>8, <2>1
  <2>3. Enter(page, w) =
          [page EXCEPT !.wallet = w, !.entered = count, !.asking = w, !.difference = NoDifference,
                       !.saved = saved, !.data = all, !.first = first, !.answered = "none"]
    BY <1>7
  <2> HIDE DEF all, count
  <2> QED BY <1>4, <1>5, <1>6, <2>1, <2>2, <2>3, ZenonT(40) DEF TabRow
<1>10. /\ Enter(page, w).open = page.open /\ Enter(page, w).wallet = w
       /\ Enter(page, w).asking = w /\ Enter(page, w).entered = page.entered + 1
       /\ Enter(page, w).difference = NoDifference /\ Enter(page, w).saved = saved
       /\ Enter(page, w).data = [page.data EXCEPT ![w] = data]
       /\ Enter(page, w).answered = "none" /\ Enter(page, w).first = first
  BY <1>7, SMTT(40) DEF TabRow
<1> QED BY <1>9, <1>10 DEF item, copy, saved, data, first

\* A wallet is shown by the tab: what is drawn is the wallet's, and what the first one shows
\* is the copy.
LEMMA EnterKeeps ==
  ASSUME ListRows, KeptTrue, NEW w \in Wallets, NEW page \in TabRow, page.entered < MaxEntered,
         page.open, page.entered = 0 => \A v \in Wallets : page.data[v] = NoList,
         \A v \in Wallets : TrueOf(v, page.data[v]),
         tab' = Rendered(Enter(page, w)), net' = net
  PROVE  /\ tab' \in TabRow /\ (\A v \in Wallets : TrueOf(v, tab.data[v])')
         /\ AsksForShown' /\ FirstTrue' /\ Shows(tab)'
<1> DEFINE item   == CopyOf(w)
           saved == IF item = NoList THEN NoList ELSE [item EXCEPT !.saved = page.entered + 1]
           data  == IF page.data[w] = NoList THEN saved ELSE page.data[w]
           shown == Enter(page, w)
<1>1. /\ shown \in TabRow /\ shown.open = page.open /\ shown.wallet = w /\ shown.asking = w
      /\ shown.entered = page.entered + 1 /\ shown.difference = NoDifference
      /\ shown.saved = saved /\ shown.data = [page.data EXCEPT ![w] = data]
      /\ shown.answered = "none" /\ (page.entered = 0 => shown.first = Word(data))
  <2>1. page.entered < MaxEntered /\ ListRows /\ w \in Wallets /\ page \in TabRow
    OBVIOUS
  <2> QED BY ONLY <2>1, EnterIs, Zenon
<1>2. item \in ListRow /\ TrueOf(w, item) /\ page.entered \in Nat /\ page.data \in [Wallets -> ListRow]
  BY ListBounds DEF CopyOf, ListRows, KeptTrue, TabRow
<1>3. TrueOf(w, saved) /\ (item # NoList => saved # NoList /\ saved.saved = page.entered + 1)
  BY <1>2, SavedIs DEF TrueOf
<1>4. (saved = NoList <=> item = NoList) /\ (saved # NoList => saved.saved = page.entered + 1)
  BY <1>3
<1>5. TrueOf(w, data)
  BY <1>3
<1> HIDE DEF item, saved, data, shown
<1>6. /\ tab' \in TabRow /\ tab' = [shown EXCEPT !.difference = tab'.difference]
      /\ tab'.difference = IF Shows(shown) /\ shown.data[shown.wallet] # NoList
                           THEN Told(shown) ELSE shown.difference
  BY <1>1, RenderedIs DEF shown
<1>7. /\ tab'.open = shown.open /\ tab'.wallet = shown.wallet /\ tab'.asking = shown.asking
      /\ tab'.entered = shown.entered /\ tab'.saved = shown.saved /\ tab'.data = shown.data
      /\ tab'.first = shown.first /\ tab'.answered = shown.answered
  BY <1>1, <1>6 DEF TabRow
<1>8. tab'.data = [page.data EXCEPT ![w] = data] /\ tab'.data[w] = data
  BY <1>1, <1>2, <1>7
<1>9. \A v \in Wallets : TrueOf(v, tab.data[v])'
  BY <1>2, <1>5, <1>8 DEF TrueOf, HadAt
<1>10. Shows(tab)' /\ w # Unselected
  BY <1>1, <1>7 DEF Shows, Wallets, Unselected
<1>11. AsksForShown'
  BY <1>1, <1>2, <1>7, <1>10 DEF AsksForShown
<1>12. FirstTrue'
  <2> SUFFICES ASSUME page.entered = 0
               PROVE  /\ tab'.first = Word(tab'.saved) /\ (tab'.saved # NoList => tab'.saved.saved = 1)
                      /\ tab'.data[tab'.wallet] = tab'.saved /\ tab'.difference = NoDifference
    BY <1>1, <1>2, <1>7 DEF FirstTrue, Word
  <2>1. data = saved
    BY DEF data
  <2>2. tab'.saved = saved /\ tab'.data[tab'.wallet] = saved /\ tab'.first = Word(saved)
    BY <1>1, <1>7, <1>8, <2>1
  <2>3. tab'.difference = NoDifference
    BY <1>1, <1>6, <1>7, <2>2 DEF Told, SavedCopy
  <2> QED BY <1>4, <2>2, <2>3
<1> QED BY <1>6, <1>9, <1>10, <1>11, <1>12

\* The tab is opened: the selection is taken up.
LEMMA OpenStep ==
  ASSUME ListInv, OpenTab
  PROVE  ListInv'
<1> DEFINE fresh == [Closed EXCEPT !.open = TRUE]
<1>1. /\ net' = net /\ store' = store /\ other' = other /\ forgot' = (forgot /\ store.selected = Unselected)
      /\ tab' = IF store.selected = Unselected THEN fresh ELSE Rendered(Enter(fresh, store.selected))
  BY DEF OpenTab
<1>2. Closed.open \in BOOLEAN /\ [Closed EXCEPT !.open = TRUE] \in TabRow
  BY ClosedIs DEF TabRow
<1>3. /\ fresh \in TabRow /\ fresh.open /\ fresh.wallet = Unselected /\ fresh.entered = 0
      /\ fresh.asking = Unselected /\ \A v \in Wallets : fresh.data[v] = NoList
  BY <1>2, ClosedIs DEF TabRow
<1> HIDE DEF fresh
<1>4. \A v \in Wallets : TrueOf(v, fresh.data[v])
  BY <1>3 DEF TrueOf
<1>5. ListRows /\ KeptTrue /\ DisconnectForgets
  BY DEF ListInv
<1>6. tab' \in TabRow /\ (\A v \in Wallets : TrueOf(v, tab.data[v])') /\ AsksForShown' /\ FirstTrue'
      /\ (store.selected = Unselected => ~Shows(tab)')
  <2>1. CASE store.selected = Unselected
    BY <1>1, <1>3, <2>1 DEF TrueOf, AsksForShown, FirstTrue, Shows
  <2>2. CASE store.selected # Unselected
    <3>1. store.selected \in Wallets
      BY <1>5, <2>2 DEF ListRows
    <3>2. 0 < MaxEntered
      BY ListBounds
    <3> QED BY <1>1, <1>3, <1>4, <1>5, <2>2, <3>1, <3>2, EnterKeeps
  <2> QED BY <2>1, <2>2
<1>7. ListRows'
  BY <1>1, <1>5, <1>6 DEF ListRows
<1>8. KeptTrue'
  BY <1>1, <1>5, <1>6 DEF KeptTrue, TrueOf, HadAt
<1>9. DisconnectForgets'
  BY <1>1, <1>5, <1>6 DEF DisconnectForgets
<1> QED BY <1>6, <1>7, <1>8, <1>9 DEF ListInv

\* A wallet is connected.
LEMMA ConnectStep ==
  ASSUME ListInv, Connect
  PROVE  ListInv'
<1>1. PICK w \in Wallets : /\ tab.open /\ tab.wallet = Unselected /\ tab.entered < MaxEntered
                           /\ tab' = Rendered(Enter(tab, w))
                           /\ store' = [store EXCEPT !.selected = w]
  BY DEF Connect
<1>2. forgot' = FALSE /\ net' = net /\ other' = other
  BY DEF Connect
<1>3. ListRows /\ KeptTrue /\ AsksForShown /\ tab \in TabRow
  BY DEF ListInv, ListRows
<1>4. tab' \in TabRow /\ (\A v \in Wallets : TrueOf(v, tab.data[v])') /\ AsksForShown' /\ FirstTrue'
  BY <1>1, <1>2, <1>3, EnterKeeps DEF AsksForShown, KeptTrue
<1>5. store'.lists = store.lists /\ store' \in [lists : [Wallets -> ListRow], selected : Wallets \cup {Unselected}]
  BY <1>1, <1>3 DEF ListRows
<1>6. ListRows'
  BY <1>2, <1>3, <1>4, <1>5 DEF ListRows
<1>7. KeptTrue'
  BY <1>2, <1>3, <1>4, <1>5 DEF KeptTrue, TrueOf, HadAt
<1> QED BY <1>2, <1>4, <1>6, <1>7 DEF ListInv, DisconnectForgets

\* A wallet is left: nothing is asked for it any more, what was read stays.
LEMMA LeaveIs ==
  ASSUME NEW page \in TabRow
  PROVE  LET left == Leave(page) IN
         /\ left \in TabRow /\ left.open = page.open /\ left.wallet = Unselected
         /\ left.asking = Unselected /\ left.entered = page.entered /\ left.data = page.data
<1>1. NoList \in ListRow /\ NoDifference \in [of : Nat, differs : BOOLEAN]
  BY DEF NoList, ListRow, NoDifference
<1> QED BY <1>1 DEF Leave, LeaveAsking, TabRow, Words

\* Another account of the wallet is chosen.
LEMMA SwitchStep ==
  ASSUME ListInv, SwitchAccount
  PROVE  ListInv'
<1> DEFINE left == Leave(tab)
<1>1. PICK w \in Wallets : /\ Shows(tab) /\ tab.entered < MaxEntered
                           /\ tab' = Rendered(Enter(left, w))
                           /\ store' = [store EXCEPT !.selected = w]
  BY DEF SwitchAccount
<1>2. forgot' = forgot /\ net' = net /\ other' = other
  BY DEF SwitchAccount
<1>3. ListRows /\ KeptTrue /\ AsksForShown /\ tab \in TabRow
  BY DEF ListInv, ListRows
<1>4. /\ left \in TabRow /\ left.open = tab.open /\ left.entered = tab.entered /\ left.data = tab.data
  BY <1>3, LeaveIs
<1> HIDE DEF left
<1>5. tab' \in TabRow /\ (\A v \in Wallets : TrueOf(v, tab.data[v])') /\ AsksForShown' /\ FirstTrue'
  <2>1. left.open /\ left.entered < MaxEntered
        /\ (left.entered = 0 => \A v \in Wallets : left.data[v] = NoList)
        /\ \A v \in Wallets : TrueOf(v, left.data[v])
    BY <1>1, <1>3, <1>4 DEF AsksForShown, KeptTrue, Shows
  <2> QED BY <1>1, <1>2, <1>3, <1>4, <2>1, EnterKeeps
<1>6. store'.lists = store.lists /\ store' \in [lists : [Wallets -> ListRow], selected : Wallets \cup {Unselected}]
  BY <1>1, <1>3 DEF ListRows
<1>7. ListRows'
  BY <1>2, <1>3, <1>5, <1>6 DEF ListRows
<1>8. KeptTrue'
  BY <1>2, <1>3, <1>5, <1>6 DEF KeptTrue, TrueOf, HadAt
<1>9. DisconnectForgets'
  BY <1>1, <1>2 DEF ListInv, DisconnectForgets
<1> QED BY <1>5, <1>7, <1>8, <1>9 DEF ListInv

\* Disconnecting clears the storage.
LEMMA DisconnectStep ==
  ASSUME ListInv, Disconnect
  PROVE  ListInv'
<1>1. /\ store' = [lists |-> [w \in Wallets |-> NoList], selected |-> Unselected] /\ tab' = Leave(tab)
      /\ forgot' = (other = Unselected) /\ net' = net /\ other' = other
  BY DEF Disconnect, Cleared
<1>2. ListRows /\ KeptTrue /\ AsksForShown /\ tab \in TabRow
  BY DEF ListInv, ListRows
<1>3. /\ tab' \in TabRow /\ tab'.open = tab.open /\ tab'.wallet = Unselected
      /\ tab'.asking = Unselected /\ tab'.entered = tab.entered /\ tab'.data = tab.data
  BY <1>1, <1>2, LeaveIs
<1>4. NoList \in ListRow /\ NoList.saved = 0
  BY DEF NoList, ListRow
<1>5. ListRows'
  BY <1>1, <1>2, <1>3, <1>4 DEF ListRows
<1>6. KeptTrue'
  BY <1>1, <1>2, <1>3, <1>4 DEF KeptTrue, TrueOf, HadAt
<1>7. AsksForShown' /\ FirstTrue' /\ DisconnectForgets'
  BY <1>1, <1>2, <1>3 DEF AsksForShown, FirstTrue, DisconnectForgets, Shows
<1> QED BY <1>5, <1>6, <1>7 DEF ListInv

\* The tab is closed.
LEMMA CloseStep ==
  ASSUME ListInv, CloseTab
  PROVE  ListInv'
<1>1. tab' = Closed /\ net' = net /\ store' = store /\ other' = other /\ forgot' = forgot
  BY DEF CloseTab
<1>2. ListRows /\ KeptTrue
  BY DEF ListInv
<1>3. ListRows'
  BY <1>1, <1>2, ClosedIs DEF ListRows
<1>4. KeptTrue'
  BY <1>1, <1>2, ClosedIs DEF KeptTrue, TrueOf, HadAt
<1>5. AsksForShown' /\ FirstTrue' /\ DisconnectForgets'
  BY <1>1, ClosedIs DEF ListInv, AsksForShown, FirstTrue, DisconnectForgets, Shows
<1> QED BY <1>3, <1>4, <1>5 DEF ListInv

\* Asking, and an attempt that fails, leave what is shown as it is.
LEMMA AskStep ==
  ASSUME ListInv, AskAgain \/ Fail
  PROVE  ListInv'
<1>1. /\ net' = net /\ store' = store /\ other' = other /\ forgot' = forgot
      /\ \/ tab' = [tab EXCEPT !.asking = tab.wallet]
         \/ tab.asking # Unselected /\ tab' = [tab EXCEPT !.asking = Unselected, !.failed[tab.asking] = TRUE]
  BY DEF AskAgain, Fail
<1>2. ListRows /\ KeptTrue /\ AsksForShown /\ tab \in TabRow
  BY DEF ListInv, ListRows
<1>3. /\ tab' \in TabRow /\ tab'.open = tab.open /\ tab'.wallet = tab.wallet /\ tab'.entered = tab.entered
      /\ tab'.saved = tab.saved /\ tab'.data = tab.data /\ tab'.difference = tab.difference
      /\ tab'.first = tab.first /\ tab'.answered = tab.answered
      /\ tab'.asking \in {tab.wallet, Unselected}
  <2>1. CASE tab' = [tab EXCEPT !.asking = tab.wallet]
    BY <1>2, <2>1 DEF TabRow
  <2>2. CASE tab' = [tab EXCEPT !.asking = Unselected, !.failed[tab.asking] = TRUE]
    <3> DEFINE failed == [tab.failed EXCEPT ![tab.asking] = TRUE]
    <3>1. failed \in [Wallets -> BOOLEAN]
      BY <1>2 DEF TabRow
    <3>2. tab' = [tab EXCEPT !.asking = Unselected, !.failed = failed]
      BY <2>2
    <3> HIDE DEF failed
    <3> QED BY <1>2, <3>1, <3>2 DEF TabRow
  <2> QED BY <1>1, <2>1, <2>2
<1>4. ListRows'
  BY <1>1, <1>2, <1>3 DEF ListRows
<1>5. KeptTrue'
  BY <1>1, <1>2, <1>3 DEF KeptTrue, TrueOf, HadAt
<1>6. AsksForShown' /\ DisconnectForgets'
  BY <1>1, <1>2, <1>3 DEF ListInv, AsksForShown, DisconnectForgets, Shows
<1>7. FirstTrue'
  BY <1>1, <1>3 DEF ListInv, FirstTrue, Shows
<1> QED BY <1>4, <1>5, <1>6, <1>7 DEF ListInv

\* An answer replaces what was read of its wallet.
LEMMA ReadIs ==
  ASSUME NEW page \in TabRow, NEW w \in Wallets, NEW got \in ListRow, got.owner = w
  PROVE  LET read == Read(page, got) IN
         /\ read \in TabRow /\ read.open = page.open /\ read.wallet = page.wallet
         /\ read.entered = page.entered /\ read.saved = page.saved /\ read.asking = Unselected
         /\ read.data = [page.data EXCEPT ![w] = got] /\ read.difference = page.difference
         /\ read.first = page.first
         /\ read.answered = IF page.entered = 1 /\ page.answered = "none" THEN Word(got) ELSE page.answered
<1> DEFINE answered == IF page.entered = 1 /\ page.answered = "none" THEN Word(got) ELSE page.answered
<1>1. answered \in Words
  BY DEF Word, Words, TabRow
<1> DEFINE failed == [page.failed EXCEPT ![w] = FALSE]  data == [page.data EXCEPT ![w] = got]
<1>2. Read(page, got) =
        [page EXCEPT !.asking = Unselected, !.failed = failed, !.data = data, !.answered = answered]
  BY DEF Read
<1>3. failed \in [Wallets -> BOOLEAN] /\ data \in [Wallets -> ListRow]
  BY DEF TabRow
<1> HIDE DEF answered, failed, data
<1>4. Read(page, got) \in TabRow
  BY <1>1, <1>2, <1>3 DEF TabRow
<1>5. /\ Read(page, got).answered = answered /\ Read(page, got).data = data
      /\ Read(page, got).asking = Unselected
  BY <1>2 DEF TabRow
<1>6. /\ Read(page, got).open = page.open /\ Read(page, got).wallet = page.wallet
      /\ Read(page, got).entered = page.entered /\ Read(page, got).saved = page.saved
      /\ Read(page, got).difference = page.difference /\ Read(page, got).first = page.first
  BY <1>2 DEF TabRow
<1> QED BY <1>4, <1>5, <1>6 DEF answered, data

\* The network answers: the list is saved and shown, and the first answer is compared with
\* the copy that was on screen.
LEMMA AnsweredStep ==
  ASSUME ListInv, ListAnswered
  PROVE  ListInv'
<1>1. PICK got \in NetworkLists(tab.asking) :
        /\ store' = [store EXCEPT !.lists[got.owner] = got]
        /\ tab' = Rendered(Read(tab, got))
  BY DEF ListAnswered
<1>2. tab.asking # Unselected /\ net' = net /\ other' = other /\ forgot' = forgot
  BY DEF ListAnswered
<1>3. ListRows /\ KeptTrue /\ AsksForShown /\ FirstTrue /\ DisconnectForgets /\ tab \in TabRow
  BY DEF ListInv, ListRows
<1> DEFINE w == tab.wallet  read == Read(tab, got)
<1>4. w \in Wallets /\ tab.asking = w /\ Shows(tab)
  BY <1>2, <1>3 DEF AsksForShown, Shows, TabRow
<1>5. /\ got \in ListRow /\ got.owner = w /\ got.saved = 0 /\ got # NoList
      /\ TrueOf(w, got) /\ Word(got) \in {"some", "nothing"}
      /\ Word(got) = (IF got.has THEN "some" ELSE "nothing")
  BY <1>1, <1>3, <1>4, ListOfNetwork
<1>6. /\ read \in TabRow /\ read.open = tab.open /\ read.wallet = w
      /\ read.entered = tab.entered /\ read.saved = tab.saved /\ read.asking = Unselected
      /\ read.data = [tab.data EXCEPT ![w] = got] /\ read.difference = tab.difference
      /\ read.first = tab.first
      /\ read.answered = IF tab.entered = 1 /\ tab.answered = "none" THEN Word(got) ELSE tab.answered
  BY <1>3, <1>4, <1>5, ReadIs
<1> HIDE DEF read
<1>7. /\ tab' \in TabRow /\ tab' = [read EXCEPT !.difference = tab'.difference]
      /\ tab'.difference = IF Shows(read) /\ read.data[read.wallet] # NoList
                           THEN Told(read) ELSE read.difference
  BY <1>1, <1>6, RenderedIs DEF read
<1>8. /\ tab'.open = tab.open /\ tab'.wallet = w /\ tab'.asking = Unselected
      /\ tab'.entered = tab.entered /\ tab'.saved = tab.saved /\ tab'.data = read.data
      /\ tab'.first = tab.first /\ tab'.answered = read.answered
  BY <1>6, <1>7 DEF TabRow
<1>9. tab.data \in [Wallets -> ListRow] /\ tab'.data = [tab.data EXCEPT ![w] = got] /\ tab'.data[w] = got
      /\ read.data[w] = got
  BY <1>3, <1>4, <1>6, <1>8 DEF TabRow
<1>10. /\ store' \in [lists : [Wallets -> ListRow], selected : Wallets \cup {Unselected}]
       /\ store'.lists = [store.lists EXCEPT ![w] = got] /\ store.lists \in [Wallets -> ListRow]
  BY <1>1, <1>3, <1>4, <1>5 DEF ListRows
<1>11. ListRows'
  BY <1>2, <1>3, <1>7, <1>10 DEF ListRows
<1>12. KeptTrue'
  <2> SUFFICES ASSUME NEW v \in Wallets
               PROVE  (TrueOf(v, store.lists[v]) /\ store.lists[v].saved = 0 /\ TrueOf(v, tab.data[v]))'
    BY DEF KeptTrue
  <2>1. CASE v = w
    <3>1. store'.lists[v] = got /\ tab'.data[v] = got
      BY <1>4, <1>9, <1>10, <2>1
    <3> QED BY <1>2, <1>5, <2>1, <3>1 DEF TrueOf, HadAt
  <2>2. CASE v # w
    <3>1. store'.lists[v] = store.lists[v] /\ tab'.data[v] = tab.data[v]
      BY <1>9, <1>10, <2>2
    <3> QED BY <1>2, <1>3, <3>1 DEF KeptTrue, TrueOf, HadAt
  <2> QED BY <2>1, <2>2
<1>13. AsksForShown' /\ DisconnectForgets'
  BY <1>2, <1>3, <1>4, <1>8 DEF AsksForShown, DisconnectForgets, Shows
<1>14. FirstTrue'
  <2> SUFFICES ASSUME tab.entered = 1
               PROVE  /\ tab'.first = Word(tab'.saved) /\ (tab'.saved # NoList => tab'.saved.saved = 1)
                      /\ tab'.answered # "none"
                      /\ tab'.data[tab'.wallet] # NoList /\ tab'.data[tab'.wallet].saved = 0
                      /\ tab'.difference = IF tab'.saved = NoList THEN NoDifference
                                           ELSE [of |-> 1, differs |-> tab'.first # tab'.answered]
    BY <1>8 DEF FirstTrue
  <2>1. /\ tab.first = Word(tab.saved) /\ (tab.saved # NoList => tab.saved.saved = 1)
        /\ IF tab.answered = "none"
           THEN tab.data[w] = tab.saved /\ tab.difference = NoDifference
           ELSE tab.difference = IF tab.saved = NoList THEN NoDifference
                                 ELSE [of |-> 1, differs |-> tab.first # tab.answered]
    BY <1>3, <1>4 DEF FirstTrue
  <2>2. /\ tab'.first = Word(tab'.saved) /\ (tab'.saved # NoList => tab'.saved.saved = 1)
        /\ tab'.data[tab'.wallet] = got
    BY <1>8, <1>9, <2>1
  <2>3. tab'.answered = (IF tab.answered = "none" THEN Word(got) ELSE tab.answered) /\ tab'.answered # "none"
    BY <1>5, <1>6, <1>8
  <2>4. Shows(read) /\ tab'.difference = Told(read)
    BY <1>4, <1>5, <1>6, <1>7, <1>9 DEF Shows
  <2>5. ASSUME tab.saved = NoList PROVE tab'.difference = NoDifference
    BY <1>6, <2>1, <2>4, <2>5 DEF Told
  <2>6. ASSUME tab.saved # NoList PROVE tab'.difference = [of |-> 1, differs |-> tab'.first # tab'.answered]
    <3>1. ~SavedCopy(read) /\ read.saved.saved = 1
      BY <1>5, <1>6, <1>9, <2>1, <2>6 DEF SavedCopy
    <3>2. CASE tab.answered = "none"
      <4>1. tab.difference.of = 0
        BY <2>1, <3>2 DEF NoDifference
      <4>2. tab'.difference = [of |-> 1, differs |-> tab.saved.has # got.has]
        BY <1>6, <1>9, <2>4, <2>6, <3>1, <4>1 DEF Told
      <4>3. tab.first = (IF tab.saved.has THEN "some" ELSE "nothing")
        BY <2>1, <2>6 DEF Word
      <4>4. tab.saved.has \in BOOLEAN /\ got.has \in BOOLEAN
        BY <1>3, <1>5 DEF TabRow, ListRow
      <4>5. (tab.saved.has # got.has) = (tab.first # Word(got))
        BY <1>5, <4>3, <4>4
      <4> QED BY <1>8, <2>3, <2>6, <3>2, <4>2, <4>5
    <3>3. CASE tab.answered # "none"
      <4>1. tab.difference = [of |-> 1, differs |-> tab.first # tab.answered] /\ tab.difference.of = 1
        BY <2>1, <2>6, <3>3
      <4>2. tab'.difference = tab.difference
        BY <1>6, <2>4, <3>1, <4>1 DEF Told
      <4> QED BY <1>8, <2>3, <2>6, <3>3, <4>1, <4>2
    <3> QED BY <3>2, <3>3
  <2> QED BY <1>5, <1>8, <2>2, <2>3, <2>5, <2>6
<1> QED BY <1>11, <1>12, <1>13, <1>14 DEF ListInv

\* Another tab, or a copy that is lost: what the tab shows stays.
LEMMA StorageStep ==
  ASSUME ListInv, OtherTab \/ LoseCopy
  PROVE  ListInv'
<1>1. ListRows /\ KeptTrue /\ DisconnectForgets /\ store.lists \in [Wallets -> ListRow]
      /\ net' = net /\ tab' = tab
  BY DEF ListInv, ListRows, OtherTab, LoseCopy
<1>2. ASSUME store' \in [lists : [Wallets -> ListRow], selected : Wallets \cup {Unselected}],
             other' \in Wallets \cup {Unselected}, forgot' \in BOOLEAN, DisconnectForgets',
             \A w \in Wallets : TrueOf(w, store'.lists[w]) /\ store'.lists[w].saved = 0
      PROVE  ListInv'
  <2>1. ListRows'
    BY <1>1, <1>2 DEF ListRows
  <2>2. KeptTrue'
    BY <1>1, <1>2 DEF KeptTrue, TrueOf, HadAt
  <2>3. AsksForShown' /\ FirstTrue'
    BY <1>1 DEF ListInv, AsksForShown, FirstTrue, Shows
  <2> QED BY <1>2, <2>1, <2>2, <2>3 DEF ListInv
<1>3. ASSUME NEW w \in Wallets, store' = [store EXCEPT !.selected = w], other' = w, forgot' = FALSE
      PROVE  ListInv'
  <2>1. store'.lists = store.lists /\ store' \in [lists : [Wallets -> ListRow], selected : Wallets \cup {Unselected}]
    BY <1>1, <1>3 DEF ListRows
  <2>2. DisconnectForgets'
    BY <1>3 DEF DisconnectForgets
  <2> QED BY <1>1, <1>2, <1>3, <2>1, <2>2 DEF KeptTrue
<1>4. ASSUME other # Unselected, NEW got \in NetworkLists(other), store' = [store EXCEPT !.lists[other] = got],
             other' = other, forgot' = forgot
      PROVE  ListInv'
  <2>1. other \in Wallets /\ forgot \in BOOLEAN
    BY <1>1, <1>4 DEF ListRows
  <2>2. got \in ListRow /\ got.saved = 0 /\ TrueOf(other, got)
    BY <1>1, <1>4, <2>1, ListOfNetwork
  <2>3. /\ store' \in [lists : [Wallets -> ListRow], selected : Wallets \cup {Unselected}]
        /\ store'.lists = [store.lists EXCEPT ![other] = got]
    BY <1>1, <1>4, <2>1, <2>2 DEF ListRows
  <2>4. \A w \in Wallets : TrueOf(w, store'.lists[w]) /\ store'.lists[w].saved = 0
    <3> TAKE w \in Wallets
    <3>1. CASE w = other
      BY <1>1, <2>2, <2>3, <3>1
    <3>2. CASE w # other
      <4>1. store'.lists[w] = store.lists[w]
        BY <1>1, <2>3, <3>2
      <4> QED BY <1>1, <4>1 DEF KeptTrue
    <3> QED BY <3>1, <3>2
  <2>5. DisconnectForgets'
    BY <1>1, <1>4 DEF DisconnectForgets
  <2> QED BY <1>2, <1>4, <2>1, <2>3, <2>4, <2>5
<1>5. ASSUME other # Unselected, other' = Unselected, store' = Cleared(other), forgot' = ~Shows(tab)
      PROVE  ListInv'
  <2>1. NoList \in ListRow /\ NoList.saved = 0
    BY ClosedIs
  <2>2. store' = [lists |-> [w \in Wallets |-> NoList], selected |-> Unselected]
    BY <1>5 DEF Cleared
  <2>3. DisconnectForgets' /\ forgot' \in BOOLEAN
    <3>1. forgot' \in BOOLEAN /\ (forgot' => ~Shows(tab))
      BY <1>5, Zenon
    <3>2. ~Shows(tab) => ~Shows(tab)'
      BY <1>1 DEF Shows
    <3>3. store'.selected = Unselected /\ \A w \in Wallets : store'.lists[w] = NoList
      BY <2>2
    <3> QED BY <1>5, <3>1, <3>2, <3>3 DEF DisconnectForgets
  <2>4. store' \in [lists : [Wallets -> ListRow], selected : Wallets \cup {Unselected}]
        /\ \A w \in Wallets : store'.lists[w] = NoList
    BY <2>1, <2>2
  <2>5. \A w \in Wallets : TrueOf(w, store'.lists[w]) /\ store'.lists[w].saved = 0
    BY <2>1, <2>4 DEF TrueOf
  <2> QED BY <1>2, <1>5, <2>3, <2>4, <2>5
<1>6. ASSUME other # Unselected, other' = Unselected, store' = store, forgot' = forgot
      PROVE  ListInv'
  <2>1. DisconnectForgets' /\ forgot' \in BOOLEAN
    BY <1>1, <1>6 DEF DisconnectForgets, ListRows
  <2> QED BY <1>1, <1>2, <1>6, <2>1 DEF KeptTrue, ListRows
<1>7. ASSUME LoseCopy PROVE ListInv'
  <2>1. PICK w \in Wallets : store' = [store EXCEPT !.lists[w] = NoList]
    BY <1>7 DEF LoseCopy
  <2>2. NoList \in ListRow /\ NoList.saved = 0 /\ other' = other /\ forgot' = forgot
        /\ other \in Wallets \cup {Unselected} /\ forgot \in BOOLEAN
    BY <1>1, <1>7, ClosedIs DEF LoseCopy, ListRows
  <2>3. /\ store' \in [lists : [Wallets -> ListRow], selected : Wallets \cup {Unselected}]
        /\ store'.lists = [store.lists EXCEPT ![w] = NoList] /\ store'.selected = store.selected
    BY <1>1, <2>1, <2>2 DEF ListRows
  <2>4. \A v \in Wallets : store'.lists[v] = NoList \/ store'.lists[v] = store.lists[v]
    BY <1>1, <2>3
  <2>5. \A v \in Wallets : TrueOf(v, store'.lists[v]) /\ store'.lists[v].saved = 0
    BY <1>1, <2>2, <2>4 DEF KeptTrue, TrueOf
  <2>6. DisconnectForgets'
    BY <1>1, <2>2, <2>3, <2>4 DEF DisconnectForgets, Shows
  <2> QED BY <1>2, <2>2, <2>3, <2>5, <2>6
<1>8. ASSUME OtherTab PROVE ListInv'
  BY <1>3, <1>4, <1>5, <1>6, <1>8 DEF OtherTab
<1> QED BY <1>7, <1>8

\* What a wallet had at an earlier reading does not change when it changes now.
LEMMA ChangesStep ==
  ASSUME ListInv, NetChanges
  PROVE  ListInv'
<1>1. /\ net' = [net EXCEPT !["a"] = [has |-> ~net["a"].has, read |-> net["a"].read + 1]]
      /\ store' = store /\ tab' = tab /\ other' = other /\ forgot' = forgot
  BY DEF NetChanges
<1>2. ListRows /\ KeptTrue
  BY DEF ListInv
<1>3. /\ net \in [Wallets -> [has : BOOLEAN, read : Nat]] /\ "a" \in Wallets
      /\ net["a"].has \in BOOLEAN /\ net["a"].read \in Nat
  BY <1>2 DEF ListRows, Wallets
<1>4. net' \in [Wallets -> [has : BOOLEAN, read : Nat]]
  BY <1>1, <1>3
<1>5. ASSUME NEW w \in Wallets, NEW reading \in Nat
      PROVE  HadAt(w, reading)' <=> HadAt(w, reading)
  <2>1. CASE w = "a"
    <3>1. net'[w].has = ~net[w].has /\ net'[w].read = net[w].read + 1
      BY <1>1, <1>3, <2>1
    <3>2. net[w].has \in BOOLEAN /\ net[w].read \in Nat
      BY <1>3, <2>1
    <3>3. (net'[w].read - reading) % 2 = 0 <=> ~((net[w].read - reading) % 2 = 0)
      <4>1. net[w].read - reading \in Int /\ net'[w].read - reading = (net[w].read - reading) + 1
        BY <3>1, <3>2
      <4> QED BY <4>1, Parity
    <3> QED BY <3>1, <3>2, <3>3 DEF HadAt
  <2>2. CASE w # "a"
    <3>1. net'[w] = net[w]
      BY <1>1, <1>3, <2>2
    <3> QED BY <3>1 DEF HadAt
  <2> QED BY <2>1, <2>2
<1>6. ASSUME NEW w \in Wallets, NEW item \in ListRow, TrueOf(w, item)
      PROVE  TrueOf(w, item)'
  <2>1. item.read \in Nat
    BY DEF ListRow
  <2>2. HadAt(w, item.read)' <=> HadAt(w, item.read)
    BY <1>5, <2>1
  <2> QED BY <1>6, <2>2 DEF TrueOf
<1>7. ListRows'
  BY <1>1, <1>2, <1>4 DEF ListRows
<1>8. KeptTrue'
  <2> SUFFICES ASSUME NEW w \in Wallets
               PROVE  (TrueOf(w, store.lists[w]) /\ store.lists[w].saved = 0 /\ TrueOf(w, tab.data[w]))'
    BY DEF KeptTrue
  <2>1. store.lists[w] \in ListRow /\ tab.data[w] \in ListRow
    BY <1>2 DEF ListRows, TabRow
  <2>2. TrueOf(w, store.lists[w]) /\ store.lists[w].saved = 0 /\ TrueOf(w, tab.data[w])
    BY <1>2 DEF KeptTrue
  <2>3. TrueOf(w, store.lists[w])' /\ TrueOf(w, tab.data[w])'
    BY <1>1, <1>6, <2>1, <2>2
  <2> QED BY <1>1, <2>2, <2>3
<1>9. AsksForShown' /\ FirstTrue' /\ DisconnectForgets'
  BY <1>1 DEF ListInv, AsksForShown, FirstTrue, DisconnectForgets, Shows
<1> QED BY <1>7, <1>8, <1>9 DEF ListInv

\* Every step keeps it.
LEMMA ListGoesOn ==
  ASSUME ListInv, [ListNext]_listVars
  PROVE  ListInv'
<1>1. CASE UNCHANGED listVars
  BY <1>1 DEF listVars, ListInv, ListRows, KeptTrue, TrueOf, HadAt, AsksForShown, FirstTrue, DisconnectForgets, Shows
<1> QED BY <1>1, OpenStep, CloseStep, ConnectStep, SwitchStep, DisconnectStep, AskStep, AnsweredStep,
           StorageStep, ChangesStep DEF ListNext

\* What the page says is so.
LEMMA ScreenIs == ListInv => ListHolds
<1> SUFFICES ASSUME ListInv PROVE ListHolds
  OBVIOUS
<1>1. ListRows /\ KeptTrue /\ AsksForShown /\ FirstTrue /\ DisconnectForgets /\ tab \in TabRow
  BY DEF ListInv, ListRows
<1>2. ListTypeOK
  <2>1. ASSUME NEW w \in Wallets PROVE store.lists[w].owner \in {w, Unselected} /\ store.lists[w].saved = 0
    BY <1>1 DEF KeptTrue, TrueOf, NoList
  <2> QED BY <1>1, <2>1 DEF ListTypeOK, ListRows, TabRow
<1>3. ASSUME Screen = "ready"
      PROVE  tab.wallet \in Wallets /\ ShownList # NoList /\ TrueOf(tab.wallet, ShownList) /\ Shows(tab)
  <2>1. tab.wallet # Unselected
    BY <1>3 DEF Screen
  <2>2. tab.data[tab.wallet] # NoList
    BY <1>3, <2>1 DEF Screen
  <2>3. tab.wallet \in Wallets
    BY <1>1, <2>1 DEF TabRow
  <2> QED BY <1>1, <2>1, <2>2, <2>3 DEF KeptTrue, ShownList, Shows, AsksForShown
<1>4. ListIsOwners
  BY <1>3 DEF ListIsOwners, TrueOf
<1>5. ASSUME Screen = "ready", tab.entered = 1
      PROVE  /\ tab.first = Word(tab.saved) /\ (tab.saved # NoList => tab.saved.saved = 1)
             /\ ShownList # NoList
             /\ IF tab.answered = "none"
                THEN ShownList = tab.saved /\ tab.difference = NoDifference
                ELSE /\ ShownList.saved = 0
                     /\ tab.difference = IF tab.saved = NoList THEN NoDifference
                                         ELSE [of |-> 1, differs |-> tab.first # tab.answered]
  BY <1>1, <1>3, <1>5 DEF FirstTrue, ShownList
<1>6. CopyIsSaid
  BY <1>5 DEF CopyIsSaid, SavedCopy, ShownList
<1>7. DifferenceTold
  <2> SUFFICES ASSUME Screen = "ready", tab.entered = 1
               PROVE  tab.difference.differs <=> {tab.first, tab.answered} = {"some", "nothing"}
    BY DEF DifferenceTold
  <2>1. tab.answered \in Words /\ ~NoDifference.differs
    BY <1>1 DEF TabRow, NoDifference
  <2>2. CASE tab.answered = "none" \/ tab.saved = NoList
    <3>1. ~tab.difference.differs
      BY <1>5, <2>1, <2>2
    <3>2. tab.answered = "none" \/ tab.first = "none"
      BY <1>5, <2>2 DEF Word
    <3> QED BY <3>1, <3>2
  <2>3. CASE tab.answered # "none" /\ tab.saved # NoList
    <3>1. tab.first \in {"some", "nothing"} /\ tab.answered \in {"some", "nothing"}
      BY <1>5, <2>1, <2>3 DEF Word, Words
    <3>2. tab.difference = [of |-> 1, differs |-> tab.first # tab.answered]
      BY <1>5, <2>3
    <3>3. tab.difference.differs <=> tab.first # tab.answered
      <4> DEFINE differs == tab.first # tab.answered
      <4>1. tab.difference = [of |-> 1, differs |-> differs]
        BY <3>2
      <4> HIDE DEF differs
      <4>2. tab.difference.differs = differs
        BY <4>1
      <4>3. tab.difference.differs <=> differs
        BY <4>2, Zenon
      <4> QED BY <4>3 DEF differs
    <3>4. tab.first # tab.answered <=> {tab.first, tab.answered} = {"some", "nothing"}
      BY <3>1
    <3> QED BY <3>3, <3>4
  <2> QED BY <2>2, <2>3
<1>8. NobodyWasRead
  BY <1>3 DEF NobodyWasRead, SaysNobody, TrueOf
<1> QED BY <1>1, <1>2, <1>4, <1>6, <1>7, <1>8 DEF ListHolds

\* So it is always.
LEMMA ListInvariant == HistorySpec => []ListInv
<1>1. HistoryInit => ListInv
  BY ListBegins DEF HistoryInit
<1>2. ListInv /\ [HistoryNext]_historyVars => ListInv'
  <2>1. [HistoryNext]_historyVars => [ListNext]_listVars
    BY DEF HistoryNext, historyVars, listVars
  <2> QED BY <2>1, ListGoesOn
<1> QED BY <1>1, <1>2, PTL DEF HistorySpec

(***************************************************************************)
(* The screen of a wallet is that wallet's list, says whether it is this   *)
(* browser's copy, tells the difference of the first answer from it, says  *)
(* that no one can charge the wallet only when that was so as the list was *)
(* read, and nothing of it is kept after disconnecting (useAllowances.ts,  *)
(* storedList.ts, Subscriptions.tsx).                                      *)
(***************************************************************************)
THEOREM ScreenIsTrue == HistorySpec => []ScreenTrue
<1>1. ListInv => ScreenTrue
  BY ScreenIs DEF ScreenTrue
<1> QED BY <1>1, ListInvariant, PTL

-----------------------------------------------------------------------------
(***************************************************************************)
(* A transaction, what it does and why it is refused.                      *)
(***************************************************************************)

\* A call of a transaction.
LEMMA CallsAre ==
  ASSUME NEW ix \in Calls \cup Foreign
  PROVE  /\ ix.op \in {"charge", "updatePlan", "openPayee", "refuse"} \cup Owners /\ ix.fault \in Faults
         /\ ix = Ix(ix.op, ix.fault) /\ (ix.op # "charge" => ix.fault = "none")
         /\ ix \in Foreign <=> ix.op \in {"openPayee", "refuse"}
BY DEF Calls, Foreign, Faults, Owners, Ix

\* The bounds of a permission.
LEMMA ChainBounds == MaxLeft \in Nat /\ Kinds \subseteq {"subscription", "recurring", "fixed"}
BY DecoderAssumption

\* What a call that goes through was not refused for.
LEMMA WentThrough ==
  ASSUME NEW s \in Chains, NEW ix \in Calls \cup Foreign, Causes(s, ix) = {}
  PROVE  /\ ix.op # "refuse"
         /\ ix.op = "charge" => s.perm \in {"live", "cancelled"} /\ s.auth = "live" /\ s.left # 0 /\ s.purse \notin {-1, 0}
         /\ ix.op = "create" => s.perm = "absent" /\ s.auth # "closed"
         /\ ix.op = "cancel" => s.perm = "live" /\ s.kind = "subscription"
         /\ ix.op = "resume" => s.perm = "cancelled"
         /\ ix.op \in {"revoke", "abandon"} => s.perm # "absent"
         /\ ix.op = "closeAuthority" => s.auth # "closed"
         /\ ix.op = "openAuthority" => s.auth = "closed"
<1>1. ix.op \in {"charge", "updatePlan", "openPayee", "refuse"} \cup Owners
  BY CallsAre
<1>2. CASE ix.op = "charge"
  <2>1. s.perm # "absent"
    BY <1>2 DEF Causes
  <2>2. /\ ~(ix.fault = "authority" \/ s.auth = "closed")
        /\ ~(ix.fault # "authority" /\ s.auth = "rotated")
        /\ s.perm # "ended" /\ s.left # 0 /\ ~(s.purse = -1 \/ ~s.payee) /\ s.purse # 0
    BY <1>2, <2>1 DEF Causes, OneOf, AnyOf, NoAccount
  <2> QED BY <1>2, <2>1, <2>2 DEF Chains
<1>3. CASE ix.op = "refuse"
  BY <1>3 DEF Causes
<1>4. CASE ix.op \in {"create", "cancel", "resume"}
  BY <1>4 DEF Causes, OneOf, AnyOf
<1>5. CASE ix.op \in {"revoke", "abandon", "closeAuthority", "openAuthority"}
  BY <1>5 DEF Causes, OneOf, AnyOf
<1>6. CASE ix.op \in {"updatePlan", "openPayee"}
  BY <1>6
<1> QED BY <1>1, <1>2, <1>3, <1>4, <1>5, <1>6 DEF Owners

\* Why a charge is refused, and what the codes of the others are.
LEMMA Why ==
  ASSUME NEW s \in Chains, NEW ix \in Calls \cup Foreign, NEW cause \in Causes(s, ix)
  PROVE  /\ cause.by \in {"ours", "token", "other"} /\ cause.type \in {"custom", "runtime"} /\ cause.code \in Int
         /\ ix.op # "charge" => cause.type = "custom" /\ ((cause.by = "ours" /\ cause.code = 2) \/ cause.by = "other")
         /\ cause.by = "other" <=> ix.op = "refuse"
         /\ cause.type = "runtime" => cause.by = "ours" /\ s.perm = "absent"
         /\ cause.by = "token" => (cause.code = 1 /\ s.purse = 0) \/ (cause.code = 3 /\ ix.fault = "mint")
         /\ ix.op = "charge" /\ cause.type = "custom" /\ cause.by = "ours" =>
              \/ cause.code = 103 /\ (ix.fault = "authority" \/ s.auth = "closed")
              \/ cause.code = 136 /\ s.auth = "rotated"
              \/ cause.code = 125 /\ ix.fault = "mint"
              \/ cause.code = 1
              \/ cause.code = 508 /\ s.perm = "ended" /\ s.kind = "subscription"
              \/ cause.code = 128 /\ s.perm = "ended"
              \/ cause.code = 501 /\ s.plan = "ended"
              \/ cause.code \in Ceiling /\ s.left = 0
              \/ cause.code \in NotDue /\ ix.fault = "early"
              \/ cause.code \in NoAccount /\ (s.purse = -1 \/ ~s.payee)
<1>1. ix.op \in {"charge", "updatePlan", "openPayee", "refuse"} \cup Owners
  BY CallsAre
<1>2. CASE ix.op = "charge" /\ s.perm = "absent"
  <2>1. cause = Runtime("ours")
    BY <1>2 DEF Causes
  <2> QED BY <1>2, <2>1 DEF Runtime
<1>3. CASE ix.op = "charge" /\ s.perm # "absent"
  <2>1. \/ cause = Custom("ours", 103) /\ (ix.fault = "authority" \/ s.auth = "closed")
        \/ cause = Custom("ours", 136) /\ s.auth = "rotated"
        \/ cause = Custom("ours", 125) /\ ix.fault = "mint"
        \/ cause = Custom("ours", 1)
        \/ cause = Custom("ours", 508) /\ s.perm = "ended" /\ s.kind = "subscription"
        \/ cause = Custom("ours", 128) /\ s.perm = "ended"
        \/ cause = Custom("ours", 501) /\ s.plan = "ended"
        \/ (cause = Custom("ours", 300) \/ cause = Custom("ours", 400)) /\ s.left = 0
        \/ (cause = Custom("ours", 401) \/ cause = Custom("ours", 407)) /\ ix.fault = "early"
        \/ (cause = Custom("ours", 107) \/ cause = Custom("ours", 110)) /\ (s.purse = -1 \/ ~s.payee)
        \/ cause = Custom("token", 1) /\ s.purse = 0
        \/ cause = Custom("token", 3) /\ ix.fault = "mint"
    BY <1>3 DEF Causes, OneOf, AnyOf, NoAccount
  <2> QED BY <1>3, <2>1 DEF Custom, Ceiling, NotDue, NoAccount
<1>4. CASE ix.op = "refuse"
  BY <1>4 DEF Causes, Custom
<1>5. CASE ix.op \in {"create", "cancel", "resume", "closeAuthority", "openAuthority", "revoke", "abandon"}
  <2>1. cause = Custom("ours", 2)
    BY <1>5 DEF Causes, OneOf, AnyOf
  <2> QED BY <1>5, <2>1 DEF Custom
<1>6. CASE ix.op \in {"updatePlan", "openPayee"}
  BY <1>6 DEF Causes
<1> QED BY <1>1, <1>2, <1>3, <1>4, <1>5, <1>6 DEF Owners

\* Where a call that goes through leaves the permission.
LEMMA AfterIs ==
  ASSUME NEW s \in Chains, NEW ix \in Calls \cup Foreign, Causes(s, ix) = {}
  PROVE  LET a == After(s, ix) IN
         /\ a \in Chains /\ a.kind = s.kind /\ (a.purse = -1 <=> s.purse = -1) /\ (s.payee => a.payee)
         /\ a.perm = (CASE ix.op \in {"create", "resume"} -> "live" [] ix.op = "cancel" -> "cancelled"
                        [] ix.op \in {"revoke", "abandon"} -> "absent" [] OTHER -> s.perm)
         /\ a.auth = (CASE ix.op = "create" -> "live" [] ix.op = "closeAuthority" -> "closed"
                        [] ix.op = "openAuthority" -> IF s.perm = "absent" THEN "live" ELSE "rotated"
                        [] OTHER -> s.auth)
<1>1. ix.op \in {"charge", "updatePlan", "openPayee"} \cup Owners
  BY CallsAre, WentThrough
<1>2. CASE ix.op = "charge"
  <2>1. s.left \in 0 .. MaxLeft /\ s.left # 0 /\ s.purse \in -1 .. MaxLeft /\ s.purse \notin {-1, 0} /\ MaxLeft \in Nat
    BY <1>2, WentThrough, ChainBounds DEF Chains
  <2>2. s.left - 1 \in 0 .. MaxLeft /\ s.purse - 1 \in -1 .. MaxLeft /\ s.purse - 1 # -1
    BY <2>1
  <2>3. After(s, ix) = [s EXCEPT !.left = s.left - 1, !.purse = s.purse - 1]
    BY <1>2 DEF After
  <2> QED BY <1>2, <2>1, <2>2, <2>3 DEF Chains
<1>3. CASE ix.op = "create"
  <2>1. After(s, ix) = [s EXCEPT !.perm = "live", !.auth = "live", !.left = MaxLeft] /\ MaxLeft \in 0 .. MaxLeft
    BY <1>3, ChainBounds DEF After
  <2> QED BY <1>3, <2>1 DEF Chains
<1>4. CASE ix.op \in {"cancel", "resume", "revoke", "abandon"}
  <2>1. After(s, ix) = [s EXCEPT !.perm = IF ix.op = "cancel" THEN "cancelled" ELSE IF ix.op = "resume" THEN "live" ELSE "absent"]
    BY <1>4 DEF After
  <2> QED BY <1>4, <2>1 DEF Chains
<1>5. CASE ix.op \in {"closeAuthority", "openAuthority"}
  <2>1. After(s, ix) = [s EXCEPT !.auth = IF ix.op = "closeAuthority" THEN "closed"
                                          ELSE IF s.perm = "absent" THEN "live" ELSE "rotated"]
    BY <1>5 DEF After
  <2> QED BY <1>5, <2>1 DEF Chains
<1>6. CASE ix.op = "updatePlan"
  <2>1. After(s, ix) = [s EXCEPT !.plan = IF s.kind = "subscription" THEN "ended" ELSE s.plan]
    BY <1>6 DEF After
  <2> QED BY <1>6, <2>1 DEF Chains
<1>7. CASE ix.op = "openPayee"
  <2>1. After(s, ix) = [s EXCEPT !.payee = TRUE]
    BY <1>7 DEF After
  <2> QED BY <1>7, <2>1 DEF Chains
<1> QED BY <1>1, <1>2, <1>3, <1>4, <1>5, <1>6, <1>7 DEF Owners

-----------------------------------------------------------------------------
(***************************************************************************)
(* What the report of a transaction says.                                  *)
(***************************************************************************)

\* A trace and what it says.
Happened(trace)  == Report(FALSE, NoError, trace, <<>>, chain, TRUE)
Speaks(trace)    == {i \in DOMAIN trace : trace[i].program = "ours" /\ Said(trace[i]) # "none"}
Readable(trace)  ==
  \A i \in DOMAIN trace : trace[i].program = "ours" => ReadProgramEvent(trace[i]) = "event" \/ Parses(trace[i])
EventsOf(trace)  == [i \in Speaks(trace) |-> [kind |-> Said(trace[i])]]
Means(ix) ==
  CASE ix.op = "charge" -> "charged"       [] ix.op = "create" -> "created"
    [] ix.op = "cancel" -> "cancelled"     [] ix.op = "resume" -> "resumed"
    [] ix.op = "updatePlan" -> "plan-updated"
    [] ix.op \in {"revoke", "abandon"} -> "revoked"
    [] ix.op = "closeAuthority" -> "authority-closed"
    [] OTHER -> "none"

\* A transaction that went through is decoded to what its trace says, without a problem if
\* all of it can be read.
LEMMA SucceededIs ==
  ASSUME NEW trace
  PROVE  /\ DecodeTransaction(Happened(trace)).events = EventsOf(trace)
         /\ DecodeTransaction(Happened(trace)).problems = {} <=> Readable(trace)
<1> DEFINE report == Happened(trace)
<1>1. report.trace = trace /\ report.failed = FALSE
  BY DEF Happened, Report
<1>2. DecodeTransaction(report) = Decoded([i \in Speaking(report) |-> [kind |-> Said(report.trace[i])]], Problems(report))
  BY <1>1 DEF DecodeTransaction, DecodeSucceeded
<1> HIDE DEF report
<1>3. Speaking(report) = Speaks(trace)
  BY <1>1 DEF Speaking, Ours, AllInstructions, Speaks
<1>4. Problems(report) = {} <=> Readable(trace)
  <2> DEFINE bad == {j \in Ours(report) : ReadProgramEvent(report.trace[j]) # "event" /\ ~Parses(report.trace[j])}
  <2>1. bad = {} <=> Readable(trace)
    BY <1>1 DEF Readable, Ours, AllInstructions
  <2> HIDE DEF bad
  <2>2. {report.trace[i] : i \in bad} = {} <=> bad = {}
    OBVIOUS
  <2>3. Problems(report) = {IF line.what = "event" THEN "unreadable-event" ELSE "unparsable-instruction" :
                              line \in {report.trace[i] : i \in bad}}
    BY DEF Problems, bad
  <2>4. Problems(report) = {} <=> {report.trace[i] : i \in bad} = {}
    BY <2>3
  <2> QED BY <2>1, <2>2, <2>4
<1>5. DecodeTransaction(report).events = [i \in Speaks(trace) |-> [kind |-> Said(trace[i])]]
  BY <1>1, <1>2, <1>3 DEF Decoded
<1>6. DecodeTransaction(report).problems = Problems(report)
  BY <1>2 DEF Decoded
<1> QED BY <1>4, <1>5, <1>6 DEF report, EventsOf

\* One line after another.
LEMMA TwoLines ==
  ASSUME NEW a, NEW b
  PROVE  /\ LET t == <<a>> \o <<b>> IN t \in Seq({a, b}) /\ Len(t) = 2 /\ t[1] = a /\ t[2] = b
         /\ LET t == <<a>> \o <<>> IN t \in Seq({a, b}) /\ Len(t) = 1 /\ t[1] = a
OBVIOUS

\* What one call adds: its word is said once, at the end, unless its program is a newer one.
LEMMA TraceSays ==
  ASSUME NEW s \in Chains, s.kind = chain.kind, NEW call, call.ix \in Calls \cup Foreign, NEW newer \in BOOLEAN,
         Causes(s, call.ix) = {}
  PROVE  LET new == Trace(s, call, newer) IN
         /\ new \in Seq({Line(call, "instruction", newer), Line(call, "event", newer)})
         /\ Len(new) \in {1, 2}
         /\ Readable(new) =>
              IF Means(call.ix) = "none" THEN Speaks(new) = {}
              ELSE Speaks(new) = {Len(new)} /\ Said(new[Len(new)]) = Means(call.ix)
<1> DEFINE new == Trace(s, call, newer)  l1 == Line(call, "instruction", newer)  l2 == Line(call, "event", newer)
           ix == call.ix
<1>1. new = <<l1>> \o (IF Emits(s, ix) THEN <<l2>> ELSE <<>>)
  BY DEF Trace
<1>2. /\ l1.what = "instruction" /\ l2.what = "event" /\ l1.kind = s.kind /\ l1.program = Program(ix)
      /\ l2.program = Program(ix) /\ l1.ix = ix /\ l2.ix = ix /\ (l1.newer <=> newer) /\ (l2.newer <=> newer)
  <2>1. /\ l1.what = "instruction" /\ l2.what = "event" /\ l1.kind = s.kind /\ l1.program = Program(call.ix)
        /\ l2.program = Program(call.ix) /\ l1.ix = call.ix /\ l2.ix = call.ix
    BY DEF Line
  <2>2. l1.newer = newer /\ l2.newer = newer
    BY DEF Line
  <2> QED BY <2>1, <2>2, Zenon
<1> HIDE DEF new, l1, l2, ix
<1>3. /\ ix.op \in {"charge", "updatePlan", "openPayee"} \cup Owners
      /\ ix \in Foreign <=> ix.op = "openPayee"
      /\ ix.op \in {"cancel"} => s.kind = "subscription"
  BY CallsAre, WentThrough DEF ix
<1>4. new \in Seq({l1, l2}) /\ Len(new) \in {1, 2} /\ DOMAIN new = 1 .. Len(new) /\ new[1] = l1
      /\ (Len(new) = 2 <=> Emits(s, ix)) /\ (Len(new) = 2 => new[2] = l2)
  <2>1. CASE Emits(s, ix)
    BY <1>1, <2>1, TwoLines
  <2>2. CASE ~Emits(s, ix)
    BY <1>1, <2>2, TwoLines
  <2> QED BY <2>1, <2>2
<1>5. ASSUME Readable(new)
      PROVE  IF Means(ix) = "none" THEN Speaks(new) = {}
             ELSE Speaks(new) = {Len(new)} /\ Said(new[Len(new)]) = Means(ix)
  <2>1. CASE ix.op = "openPayee"
    <3>1. Program(ix) = "other"
      BY <1>3, <2>1 DEF Program
    <3>2. \A i \in DOMAIN new : new[i].program = "other"
      BY <1>2, <1>4, <3>1
    <3> QED BY <2>1, <3>2 DEF Speaks, Means
  <2>2. CASE ix.op # "openPayee"
    <3>1. Program(ix) = "ours"
      BY <1>3, <2>2 DEF Program
    <3>2. ~newer
      BY <1>2, <1>4, <1>5, <3>1 DEF Readable, ReadProgramEvent, Parses
    <3>3. Said(l1) = FromInstruction(l1) /\ Said(l2) = FromEvent(l2)
      BY <1>2, <3>2 DEF Said, ReadProgramEvent, Parses
    <3>4. FromInstruction(l1) = (IF ix.op = "create" /\ s.kind # "subscription" THEN "created"
                                 ELSE IF ix.op \in {"revoke", "abandon"} THEN "revoked"
                                 ELSE IF ix.op = "closeAuthority" THEN "authority-closed" ELSE "none")
      BY <1>2 DEF FromInstruction
    <3>5. CASE ix.op \in {"charge", "cancel", "resume", "updatePlan"}
      <4>1. Len(new) = 2 /\ new[2] = l2 /\ new[1] = l1 /\ DOMAIN new = {1, 2}
        BY <1>4, <3>5 DEF Emits
      <4>2. Said(l1) = "none" /\ Said(l2) = Means(ix) /\ Means(ix) # "none"
        BY <1>2, <3>3, <3>4, <3>5 DEF FromEvent, Means
      <4> QED BY <1>2, <3>1, <4>1, <4>2 DEF Speaks
    <3>6. CASE ix.op = "create" /\ s.kind = "subscription"
      <4>1. Len(new) = 2 /\ new[2] = l2 /\ new[1] = l1 /\ DOMAIN new = {1, 2}
        BY <1>4, <3>6 DEF Emits
      <4>2. Said(l1) = "none" /\ Said(l2) = Means(ix) /\ Means(ix) # "none"
        BY <1>2, <3>3, <3>4, <3>6 DEF FromEvent, Means
      <4> QED BY <1>2, <3>1, <4>1, <4>2 DEF Speaks
    <3>7. CASE \/ ix.op = "create" /\ s.kind # "subscription"
               \/ ix.op \in {"revoke", "abandon", "closeAuthority"}
      <4>1. Len(new) = 1 /\ new[1] = l1 /\ DOMAIN new = {1}
        BY <1>4, <3>7 DEF Emits
      <4>2. Said(l1) = Means(ix) /\ Means(ix) # "none"
        BY <3>3, <3>4, <3>7 DEF Means
      <4> QED BY <1>2, <3>1, <4>1, <4>2 DEF Speaks
    <3>8. CASE ix.op = "openAuthority"
      <4>1. Len(new) = 1 /\ new[1] = l1 /\ DOMAIN new = {1}
        BY <1>4, <3>8 DEF Emits
      <4>2. Said(l1) = "none" /\ Means(ix) = "none"
        BY <3>3, <3>4, <3>8 DEF Means
      <4> QED BY <1>2, <3>1, <4>1, <4>2 DEF Speaks
    <3> QED BY <1>3, <2>2, <3>5, <3>6, <3>7, <3>8 DEF Owners
  <2> QED BY <2>1, <2>2
<1> QED BY <1>4, <1>5 DEF new, l1, l2, ix

\* A trace that goes on.
LEMMA TraceGoesOn ==
  ASSUME NEW S, NEW old \in Seq(S), NEW new \in Seq(S)
  PROVE  LET both == old \o new IN
         /\ both \in Seq(S) /\ (Readable(both) <=> Readable(old) /\ Readable(new))
         /\ Speaks(both) = Speaks(old) \cup {Len(old) + i : i \in Speaks(new)}
         /\ \A i \in Speaks(old) : Said(both[i]) = Said(old[i])
         /\ \A i \in Speaks(new) : Said(both[Len(old) + i]) = Said(new[i])
         /\ Speaks(old) \in SUBSET (1 .. Len(old)) /\ Speaks(new) \in SUBSET (1 .. Len(new))
<1> DEFINE both == old \o new  n == Len(old)  k == Len(new)
<1>1. /\ both \in Seq(S) /\ Len(both) = n + k /\ n \in Nat /\ k \in Nat
      /\ \A i \in 1 .. n : both[i] = old[i]
      /\ \A i \in 1 .. k : both[n + i] = new[i]
      /\ DOMAIN old = 1 .. n /\ DOMAIN new = 1 .. k /\ DOMAIN both = 1 .. n + k
  OBVIOUS
<1> HIDE DEF both, n, k
<1>2. \A i \in 1 .. n + k : i \in 1 .. n \/ (i - n \in 1 .. k /\ i = n + (i - n))
  BY <1>1
<1>3. \A i \in 1 .. n : i \in 1 .. n + k
  BY <1>1
<1>4. \A i \in 1 .. k : n + i \in 1 .. n + k
  BY <1>1
<1>5. Readable(both) <=> Readable(old) /\ Readable(new)
  <2>1. ASSUME Readable(both) PROVE Readable(old)
    BY <1>1, <1>3, <2>1 DEF Readable
  <2>2. ASSUME Readable(both) PROVE Readable(new)
    <3> SUFFICES ASSUME NEW i \in 1 .. k, new[i].program = "ours"
                 PROVE  ReadProgramEvent(new[i]) = "event" \/ Parses(new[i])
      BY <1>1 DEF Readable
    <3>1. n + i \in DOMAIN both /\ both[n + i] = new[i]
      BY <1>1, <1>4
    <3> QED BY <2>2, <3>1 DEF Readable
  <2>3. ASSUME Readable(old), Readable(new) PROVE Readable(both)
    <3> SUFFICES ASSUME NEW i \in 1 .. n + k, both[i].program = "ours"
                 PROVE  ReadProgramEvent(both[i]) = "event" \/ Parses(both[i])
      BY <1>1 DEF Readable
    <3>1. CASE i \in 1 .. n
      BY <1>1, <2>3, <3>1 DEF Readable
    <3>2. CASE i - n \in 1 .. k /\ i = n + (i - n)
      <4>1. both[i] = new[i - n] /\ i - n \in DOMAIN new
        BY <1>1, <3>2
      <4> QED BY <2>3, <4>1 DEF Readable
    <3> QED BY <1>2, <3>1, <3>2
  <2> QED BY <2>1, <2>2, <2>3
<1>6. Speaks(both) = Speaks(old) \cup {n + i : i \in Speaks(new)}
  <2>1. ASSUME NEW i \in Speaks(both) PROVE i \in Speaks(old) \cup {n + j : j \in Speaks(new)}
    <3>1. i \in 1 .. n + k /\ both[i].program = "ours" /\ Said(both[i]) # "none"
      BY <1>1 DEF Speaks
    <3>2. CASE i \in 1 .. n
      BY <1>1, <3>1, <3>2 DEF Speaks
    <3>3. CASE i - n \in 1 .. k /\ i = n + (i - n)
      <4>1. both[i] = new[i - n] /\ i - n \in DOMAIN new
        BY <1>1, <3>3
      <4>2. i - n \in Speaks(new)
        BY <3>1, <4>1 DEF Speaks
      <4> QED BY <3>3, <4>2
    <3> QED BY <1>2, <3>1, <3>2, <3>3
  <2>2. ASSUME NEW i \in Speaks(old) PROVE i \in Speaks(both)
    BY <1>1, <1>3 DEF Speaks
  <2>3. ASSUME NEW i \in Speaks(new) PROVE n + i \in Speaks(both)
    <3>1. i \in 1 .. k /\ new[i].program = "ours" /\ Said(new[i]) # "none"
      BY <1>1 DEF Speaks
    <3>2. both[n + i] = new[i] /\ n + i \in DOMAIN both
      BY <1>1, <1>4, <3>1
    <3> QED BY <3>1, <3>2 DEF Speaks
  <2> QED BY <2>1, <2>2, <2>3
<1>7. Speaks(old) \in SUBSET (1 .. n) /\ Speaks(new) \in SUBSET (1 .. k)
  BY <1>1 DEF Speaks
<1>8. \A i \in Speaks(old) : Said(both[i]) = Said(old[i])
  BY <1>1, <1>7
<1>9. \A i \in Speaks(new) : Said(both[n + i]) = Said(new[i])
  BY <1>1, <1>7
<1> QED BY <1>1, <1>5, <1>6, <1>7, <1>8, <1>9 DEF both, n

\* What a trace says is the last that it says.
LEMMA LatestIs ==
  ASSUME NEW S, NEW old \in Seq(S), NEW new \in Seq(S), NEW word, NEW said, NEW otherwise,
         IF word = "none" THEN Speaks(new) = {} ELSE Speaks(new) = {Len(new)} /\ Said(new[Len(new)]) = word,
         "none" \notin DOMAIN said
  PROVE  Latest(EventsOf(old \o new), said, otherwise) =
           IF word \in DOMAIN said THEN said[word] ELSE Latest(EventsOf(old), said, otherwise)
<1> DEFINE both == old \o new  n == Len(old)  p == Len(old) + Len(new)
           before == Telling(EventsOf(old), said)  after == Telling(EventsOf(both), said)
<1>1. /\ Speaks(both) = Speaks(old) \cup {n + i : i \in Speaks(new)}
      /\ \A i \in Speaks(old) : Said(both[i]) = Said(old[i])
      /\ \A i \in Speaks(new) : Said(both[n + i]) = Said(new[i])
      /\ Speaks(old) \in SUBSET (1 .. n) /\ Speaks(new) \in SUBSET (1 .. Len(new))
  BY TraceGoesOn
<1>2. n \in Nat /\ Len(new) \in Nat /\ p \in Nat /\ p = n + Len(new)
  OBVIOUS
<1>3. before = {i \in Speaks(old) : Said(old[i]) \in DOMAIN said}
  BY DEF Telling, EventsOf
<1>4. after = {i \in Speaks(both) : Said(both[i]) \in DOMAIN said}
  BY DEF Telling, EventsOf
<1>5. /\ \A i \in Speaks(both) : EventsOf(both)[i].kind = Said(both[i])
      /\ \A i \in Speaks(old) : EventsOf(old)[i].kind = Said(old[i])
  BY DEF EventsOf
<1> HIDE DEF both, n, p, before, after
<1>6. CASE word \notin DOMAIN said
  <2>1. \A i \in Speaks(new) : Said(both[n + i]) \notin DOMAIN said
    BY <1>1, <1>6
  <2>2. after = before
    BY <1>1, <1>3, <1>4, <2>1
  <2>3. Latest(EventsOf(both), said, otherwise) = Latest(EventsOf(old), said, otherwise)
    <3>1. CASE before = {}
      BY <2>2, <3>1 DEF Latest, before, after
    <3>2. CASE before # {}
      <4>1. before \in SUBSET (0 .. n)
        BY <1>1, <1>2, <1>3
      <4>2. Max(before) \in before
        BY <1>2, <3>2, <4>1, MaxIs
      <4>3. EventsOf(both)[Max(before)].kind = EventsOf(old)[Max(before)].kind
        BY <1>1, <1>3, <1>5, <4>2
      <4> QED BY <2>2, <3>2, <4>3 DEF Latest, before, after
    <3> QED BY <3>1, <3>2
  <2> QED BY <1>6, <2>3 DEF both
<1>7. CASE word \in DOMAIN said
  <2>1. Speaks(new) = {Len(new)} /\ Said(both[p]) = word /\ p \in Speaks(both) /\ Len(new) >= 1
    <3>1. Speaks(new) = {Len(new)} /\ Said(new[Len(new)]) = word
      BY <1>7
    <3>2. Len(new) \in Speaks(new)
      BY <3>1
    <3>3. Said(both[n + Len(new)]) = word /\ n + Len(new) \in Speaks(both) /\ Len(new) \in 1 .. Len(new)
      BY <1>1, <3>1, <3>2
    <3> QED BY <1>2, <3>1, <3>3
  <2>2. p \in after /\ after \in SUBSET (0 .. p) /\ \A i \in after : i = p \/ i < p
    <3>1. p \in after
      BY <1>4, <1>7, <2>1
    <3>2. \A i \in Speaks(both) : i \in 1 .. n \/ i = p
      BY <1>1, <1>2, <2>1
    <3>3. \A i \in 1 .. n : i \in 0 .. p /\ i < p
      BY <1>2, <2>1
    <3>4. p \in 0 .. p
      BY <1>2
    <3>5. \A i \in Speaks(both) : i \in 0 .. p /\ (i = p \/ i < p)
      BY <3>2, <3>3, <3>4
    <3>6. \A i \in after : i \in Speaks(both)
      BY <1>4
    <3> QED BY <3>1, <3>5, <3>6
  <2>3. Max(after) = p
    <3>1. Max(after) \in after /\ \A y \in after : y <= Max(after)
      BY <1>2, <2>2, MaxIs
    <3>2. p <= Max(after)
      BY <2>2, <3>1
    <3>3. (Max(after) = p \/ Max(after) < p) /\ Max(after) \in 0 .. p
      BY <2>2, <3>1
    <3> QED BY <1>2, <3>2, <3>3
  <2>4. Latest(EventsOf(both), said, otherwise) = said[word]
    <3>1. EventsOf(both)[p].kind = word
      BY <1>5, <2>1
    <3>2. Telling(EventsOf(both), said) = after /\ after # {}
      BY <2>2 DEF after
    <3> QED BY <2>3, <3>1, <3>2 DEF Latest
  <2> QED BY <1>7, <2>4 DEF both
<1> QED BY <1>6, <1>7

\* The charges that a trace names, one more or as many as before.
Charged(trace) == {i \in Speaks(trace) : Said(trace[i]) = "charged"}
LEMMA ChargedIs ==
  ASSUME NEW S, NEW old \in Seq(S), NEW new \in Seq(S), NEW word,
         IF word = "none" THEN Speaks(new) = {} ELSE Speaks(new) = {Len(new)} /\ Said(new[Len(new)]) = word
  PROVE  /\ Cardinality(Charged(old \o new)) = Cardinality(Charged(old)) + (IF word = "charged" THEN 1 ELSE 0)
         /\ Cardinality(Charged(old)) \in Nat
<1> DEFINE both == old \o new  n == Len(old)  p == Len(old) + Len(new)
<1>1. /\ Speaks(both) = Speaks(old) \cup {n + i : i \in Speaks(new)}
      /\ \A i \in Speaks(old) : Said(both[i]) = Said(old[i])
      /\ \A i \in Speaks(new) : Said(both[n + i]) = Said(new[i])
      /\ Speaks(old) \in SUBSET (1 .. n) /\ Speaks(new) \in SUBSET (1 .. Len(new))
  BY TraceGoesOn
<1>2. n \in Nat /\ Len(new) \in Nat /\ p = n + Len(new)
  OBVIOUS
<1> HIDE DEF both, n, p
<1>3. IsFiniteSet(Charged(old)) /\ Cardinality(Charged(old)) \in Nat /\ Charged(old) \in SUBSET (1 .. n)
  <2>1. Charged(old) \in SUBSET (1 .. n)
    BY <1>1 DEF Charged
  <2>2. IsFiniteSet(1 .. n)
    BY <1>2, FS_Interval
  <2> QED BY <2>1, <2>2, FS_Subset, FS_CardinalityType
<1>4. CASE word # "charged"
  <2>1. \A i \in Speaks(new) : Said(both[n + i]) # "charged"
    BY <1>1, <1>4
  <2>2. Charged(both) = Charged(old)
    BY <1>1, <2>1 DEF Charged
  <2> QED BY <1>3, <1>4, <2>2 DEF both
<1>5. CASE word = "charged"
  <2>1. Speaks(new) = {Len(new)} /\ Said(new[Len(new)]) = "charged" /\ Len(new) \in Speaks(new)
    BY <1>5
  <2>2. Said(both[p]) = "charged" /\ Speaks(both) = Speaks(old) \cup {p} /\ Len(new) >= 1
    BY <1>1, <1>2, <2>1
  <2>3. Charged(both) = Charged(old) \cup {p}
    BY <1>1, <2>2 DEF Charged
  <2>4. p \notin Charged(old)
    BY <1>2, <1>3, <2>2
  <2>5. Cardinality(Charged(both)) = Cardinality(Charged(old)) + 1
    BY <1>3, <2>3, <2>4, FS_AddElement
  <2> QED BY <1>3, <1>5, <2>5 DEF both
<1> QED BY <1>4, <1>5

Sayings == {"charged", "created", "cancelled", "resumed", "plan-updated", "revoked", "authority-closed"}

\* What a call adds to the trace says one word or none.
LEMMA OneWord ==
  ASSUME NEW s \in Chains, s.kind = chain.kind, NEW call, call.ix \in Calls \cup Foreign, NEW newer \in BOOLEAN,
         Causes(s, call.ix) = {}
  PROVE  LET new == Trace(s, call, newer) IN
         \E word \in Sayings \cup {"none"} :
           /\ IF word = "none" THEN Speaks(new) = {} ELSE Speaks(new) = {Len(new)} /\ Said(new[Len(new)]) = word
           /\ Readable(new) => word = Means(call.ix)
<1> DEFINE new == Trace(s, call, newer)  l1 == Line(call, "instruction", newer)  l2 == Line(call, "event", newer)
<1>1. new \in Seq({l1, l2}) /\ DOMAIN new = 1 .. Len(new)
  <2>1. new \in Seq({l1, l2})
    BY TraceSays
  <2> QED BY <2>1
<1>2. \A i \in DOMAIN new : new[i] \in {l1, l2}
  BY <1>1
<1>3. /\ l1.what = "instruction" /\ l2.what = "event" /\ l1.newer = newer /\ l2.newer = newer
  BY DEF Line
<1>4. Readable(new) => IF Means(call.ix) = "none" THEN Speaks(new) = {}
                       ELSE Speaks(new) = {Len(new)} /\ Said(new[Len(new)]) = Means(call.ix)
  BY TraceSays
<1>5. Means(call.ix) \in Sayings \cup {"none"}
  BY DEF Means, Sayings
<1> HIDE DEF new, l1, l2
<1>6. CASE Readable(new)
  BY <1>4, <1>5, <1>6 DEF new
<1>7. CASE ~Readable(new)
  <2>1. PICK i \in DOMAIN new : ~(ReadProgramEvent(new[i]) = "event" \/ Parses(new[i]))
    BY <1>7 DEF Readable
  <2>2. newer
    BY <1>2, <1>3, <2>1 DEF ReadProgramEvent, Parses
  <2>3. \A j \in DOMAIN new : Said(new[j]) = "none"
    BY <1>2, <1>3, <2>2 DEF Said, ReadProgramEvent, Parses
  <2>4. Speaks(new) = {}
    BY <2>3 DEF Speaks
  <2> QED BY <1>7, <2>4 DEF new
<1> QED BY <1>6, <1>7

(***************************************************************************)
(* What is said of the permission, step by step.                           *)
(***************************************************************************)
Tolds == [perm : {"absent", "live", "cancelled"}, auth : {"live", "closed"}]
Tells(t, s) ==
  /\ t.perm = "absent" <=> s.perm = "absent"
  /\ s.kind = "subscription" => (t.perm = "cancelled" <=> s.perm \in {"cancelled", "ended"})
  /\ s.perm # "absent" => (t.auth = "closed" <=> s.auth # "live")
Hears(t, word) ==
  [perm |-> IF word \in DOMAIN PermTold THEN PermTold[word] ELSE t.perm,
   auth |-> IF word \in DOMAIN AuthTold THEN AuthTold[word] ELSE t.auth]

\* What is said after one more word.
LEMMA HeardIs ==
  ASSUME NEW t \in Tolds, NEW word
  PROVE  /\ Hears(t, word) \in Tolds
         /\ Hears(t, word).perm = (IF word = "revoked" THEN "absent" ELSE IF word = "cancelled" THEN "cancelled"
                                   ELSE IF word \in {"created", "resumed"} THEN "live" ELSE t.perm)
         /\ Hears(t, word).auth = (IF word = "created" THEN "live" ELSE IF word = "authority-closed" THEN "closed"
                                   ELSE t.auth)
BY DEF Tolds, Hears, PermTold, AuthTold

\* What was true of it before a call is true after it, and after a creation whatever was said before.
LEMMA HeardIsTrue ==
  ASSUME NEW t \in Tolds, NEW s \in Chains, NEW ix \in Calls \cup Foreign, Causes(s, ix) = {},
         Tells(t, s) \/ Means(ix) = "created"
  PROVE  Tells(Hears(t, Means(ix)), After(s, ix))
<1> DEFINE a == After(s, ix)  h == Hears(t, Means(ix))
<1>1. ix.op \in {"charge", "updatePlan", "openPayee"} \cup Owners
  BY CallsAre, WentThrough
<1>2. /\ a \in Chains /\ a.kind = s.kind
      /\ a.perm = (CASE ix.op \in {"create", "resume"} -> "live" [] ix.op = "cancel" -> "cancelled"
                     [] ix.op \in {"revoke", "abandon"} -> "absent" [] OTHER -> s.perm)
      /\ a.auth = (CASE ix.op = "create" -> "live" [] ix.op = "closeAuthority" -> "closed"
                     [] ix.op = "openAuthority" -> IF s.perm = "absent" THEN "live" ELSE "rotated"
                     [] OTHER -> s.auth)
  BY AfterIs
<1>3. /\ h.perm = (IF Means(ix) = "revoked" THEN "absent" ELSE IF Means(ix) = "cancelled" THEN "cancelled"
                   ELSE IF Means(ix) \in {"created", "resumed"} THEN "live" ELSE t.perm)
      /\ h.auth = (IF Means(ix) = "created" THEN "live" ELSE IF Means(ix) = "authority-closed" THEN "closed"
                   ELSE t.auth)
  BY HeardIs
<1> HIDE DEF a, h
<1>4. CASE ix.op = "create"
  <2>1. Means(ix) = "created" /\ a.perm = "live" /\ a.auth = "live" /\ h.perm = "live" /\ h.auth = "live"
    BY <1>2, <1>3, <1>4 DEF Means
  <2> QED BY <2>1 DEF Tells, a, h
<1>5. CASE ix.op = "cancel"
  <2>1. Means(ix) = "cancelled" /\ a.perm = "cancelled" /\ a.auth = s.auth /\ h.perm = "cancelled" /\ h.auth = t.auth
    BY <1>2, <1>3, <1>5 DEF Means
  <2>2. s.perm = "live" /\ Tells(t, s)
    BY <1>5, <2>1, WentThrough
  <2> QED BY <2>1, <2>2 DEF Tells, a, h
<1>6. CASE ix.op = "resume"
  <2>1. Means(ix) = "resumed" /\ a.perm = "live" /\ a.auth = s.auth /\ h.perm = "live" /\ h.auth = t.auth
    BY <1>2, <1>3, <1>6 DEF Means
  <2>2. s.perm = "cancelled" /\ Tells(t, s)
    BY <1>6, <2>1, WentThrough
  <2> QED BY <2>1, <2>2 DEF Tells, a, h
<1>7. CASE ix.op \in {"revoke", "abandon"}
  <2>1. Means(ix) = "revoked" /\ a.perm = "absent" /\ h.perm = "absent"
    BY <1>2, <1>3, <1>7 DEF Means
  <2> QED BY <2>1 DEF Tells, a, h
<1>8. CASE ix.op = "closeAuthority"
  <2>1. /\ Means(ix) = "authority-closed" /\ a.perm = s.perm /\ a.auth = "closed" /\ h.perm = t.perm
        /\ h.auth = "closed"
    BY <1>2, <1>3, <1>8 DEF Means
  <2>2. Tells(t, s)
    BY <2>1
  <2> QED BY <1>2, <2>1, <2>2 DEF Tells, a, h
<1>9. CASE ix.op = "openAuthority"
  <2>1. /\ Means(ix) = "none" /\ a.perm = s.perm /\ h.perm = t.perm /\ h.auth = t.auth
        /\ s.perm # "absent" => a.auth = "rotated"
    BY <1>2, <1>3, <1>9 DEF Means
  <2>2. s.auth = "closed" /\ Tells(t, s)
    BY <1>9, <2>1, WentThrough
  <2> QED BY <1>2, <2>1, <2>2 DEF Tells, a, h
<1>10. CASE ix.op \in {"charge", "updatePlan", "openPayee"}
  <2>1. /\ Means(ix) \in {"charged", "plan-updated", "none"} /\ a.perm = s.perm /\ a.auth = s.auth
        /\ h.perm = t.perm /\ h.auth = t.auth
    BY <1>2, <1>3, <1>10 DEF Means
  <2>2. Tells(t, s)
    BY <2>1
  <2> QED BY <1>2, <2>1, <2>2 DEF Tells, a, h
<1> QED BY <1>1, <1>4, <1>5, <1>6, <1>7, <1>8, <1>9, <1>10 DEF Owners

\* A trace that goes on is heard to its end.
LEMMA ApplyGoesOn ==
  ASSUME NEW S, NEW old \in Seq(S), NEW new \in Seq(S), NEW word,
         IF word = "none" THEN Speaks(new) = {} ELSE Speaks(new) = {Len(new)} /\ Said(new[Len(new)]) = word
  PROVE  Apply(told, EventsOf(old \o new)) = Hears(Apply(told, EventsOf(old)), word)
<1>1. "none" \notin DOMAIN PermTold /\ "none" \notin DOMAIN AuthTold
  BY DEF PermTold, AuthTold
<1>2. Latest(EventsOf(old \o new), PermTold, told.perm) =
        IF word \in DOMAIN PermTold THEN PermTold[word] ELSE Latest(EventsOf(old), PermTold, told.perm)
  BY <1>1, LatestIs
<1>3. Latest(EventsOf(old \o new), AuthTold, told.auth) =
        IF word \in DOMAIN AuthTold THEN AuthTold[word] ELSE Latest(EventsOf(old), AuthTold, told.auth)
  <2> DEFINE said == AuthTold
  <2> HIDE DEF said
  <2>1. "none" \notin DOMAIN said
    BY <1>1 DEF said
  <2>2. Latest(EventsOf(old \o new), said, told.auth) =
          IF word \in DOMAIN said THEN said[word] ELSE Latest(EventsOf(old), said, told.auth)
    BY <2>1, LatestIs
  <2> QED BY <2>2 DEF said
<1> QED BY <1>2, <1>3 DEF Apply, Hears

(***************************************************************************)
(* A run of the calls of a transaction.                                    *)
(***************************************************************************)
LinesOf(tx, newer) == {Line(tx[i], what, newer) : i \in DOMAIN tx, what \in {"instruction", "event"}}

\* A transaction: one call or two, that name the same wrong authority or none.
TxTrue(tx) ==
  /\ Len(tx) \in {1, 2} /\ DOMAIN tx = 1 .. Len(tx)
  /\ \A i \in DOMAIN tx : tx[i].ix \in Calls \cup Foreign /\ tx[i].outer \in {1, 2} /\ tx[i].direct \in BOOLEAN
  /\ \A i, j \in DOMAIN tx : tx[i].ix.fault = "authority" <=> tx[j].ix.fault = "authority"

\* All transactions are.
LEMMA TxIs == \A tx \in Single \cup Pairs : TxTrue(tx)
<1>1. ASSUME NEW d \in BOOLEAN, NEW ix \in Calls PROVE TxTrue(<<Call(1, d, ix)>>)
  BY DEF TxTrue, Call
<1>2. ASSUME NEW ix \in Plain, NEW iy \in Plain, NEW d \in BOOLEAN, NEW k \in {1, 2}
      PROVE TxTrue(<<Call(1, d, ix), Call(k, d, iy)>>)
  <2>1. /\ ix \in Calls \cup Foreign /\ iy \in Calls \cup Foreign
        /\ ix.fault = "none" /\ iy.fault = "none"
    BY CallsAre DEF Plain, Foreign, Ix
  <2> DEFINE tx == <<Call(1, d, ix), Call(k, d, iy)>>
  <2>2. Len(tx) = 2 /\ DOMAIN tx = {1, 2} /\ 1 .. 2 = {1, 2} /\ tx[1] = Call(1, d, ix) /\ tx[2] = Call(k, d, iy)
    OBVIOUS
  <2> HIDE DEF tx
  <2>3. \A i \in DOMAIN tx : /\ tx[i].ix \in Calls \cup Foreign /\ tx[i].outer \in {1, 2} /\ tx[i].direct \in BOOLEAN
                             /\ tx[i].ix.fault = "none"
    BY <2>1, <2>2 DEF Call
  <2>4. TxTrue(tx)
    BY <2>2, <2>3 DEF TxTrue
  <2> QED BY <2>4 DEF tx
<1>3. \A tx \in Single : TxTrue(tx)
  BY <1>1 DEF Single
<1>4. \A tx \in Pairs : TxTrue(tx)
  <2> DEFINE Beside(ix, iy) == <<Call(1, TRUE, ix), Call(2, TRUE, iy)>>
             Within(ix, iy) == <<Call(1, FALSE, ix), Call(1, FALSE, iy)>>
             T == Plain \ Foreign
             both == {Beside(ix, iy) : ix \in Plain, iy \in T}
             inside == {Within(ix, iy) : ix \in T, iy \in Plain}
  <2>1. \A ix \in Plain, iy \in T : TxTrue(Beside(ix, iy))
    BY <1>2
  <2>2. \A ix \in T, iy \in Plain : TxTrue(Within(ix, iy))
    BY <1>2
  <2>3. Pairs = both \cup inside
    BY DEF Pairs
  <2> HIDE DEF Beside, Within, T
  <2>4. \A tx \in both : TxTrue(tx)
    BY <2>1
  <2>5. \A tx \in inside : TxTrue(tx)
    BY <2>2
  <2> HIDE DEF both, inside
  <2> QED BY <2>3, <2>4, <2>5
<1> QED BY <1>3, <1>4

\* What it has done after its first k calls.
Charge(ix) == IF ix.op = "charge" THEN 1 ELSE 0
Created(trace) == \E i \in Speaks(trace) : Said(trace[i]) = "created"
RunTrue(tx, newer, r, k) ==
  /\ r \in [state : Chains, refused : 0 .. k, n : 0 .. k, trace : Seq(LinesOf(tx, newer)), taken : Nat]
  /\ r.refused = 0 => r.n = k
  /\ r.state.kind = chain.kind /\ (r.state.purse = -1 <=> chain.purse = -1) /\ (chain.payee => r.state.payee)
  /\ Apply(told, EventsOf(r.trace)) \in Tolds
  /\ \A i \in Speaks(r.trace) : Said(r.trace[i]) \in Sayings
  /\ Readable(r.trace) =>
       /\ Cardinality(Charged(r.trace)) = r.taken
       /\ complete \/ Created(r.trace) => Tells(Apply(told, EventsOf(r.trace)), r.state)

\* An empty trace says nothing.
LEMMA Silence ==
  /\ Speaks(<<>>) = {} /\ Readable(<<>>) /\ Charged(<<>>) = {} /\ Cardinality(Charged(<<>>)) = 0 /\ ~Created(<<>>)
  /\ Apply(told, EventsOf(<<>>)) = [perm |-> told.perm, auth |-> told.auth]
<1>1. DOMAIN <<>> = {}
  OBVIOUS
<1>2. Speaks(<<>>) = {} /\ Readable(<<>>)
  BY <1>1 DEF Speaks, Readable
<1>3. Charged(<<>>) = {} /\ ~Created(<<>>)
  BY <1>2 DEF Charged, Created
<1>4. DOMAIN EventsOf(<<>>) = {}
  BY <1>2 DEF EventsOf
<1>5. \A said : Telling(EventsOf(<<>>), said) = {}
  BY <1>4 DEF Telling
<1>6. Apply(told, EventsOf(<<>>)) = [perm |-> told.perm, auth |-> told.auth]
  BY <1>5 DEF Apply, Latest
<1> QED BY <1>2, <1>3, <1>6, FS_EmptySet

\* A run begins with what is on the chain, which is what was said of it.
LEMMA Begins ==
  ASSUME DecodeTypeOK, FeedTellsChain, NEW tx, NEW newer
  PROVE  RunTrue(tx, newer, Started, 0)
<1>1. chain \in Chains /\ told \in Tolds
  BY DEF DecodeTypeOK, Tolds
<1>2. [perm |-> told.perm, auth |-> told.auth] = told
  BY <1>1 DEF Tolds
<1>3. complete => Tells(told, chain)
  BY DEF FeedTellsChain, Tells
<1>4. <<>> \in Seq(LinesOf(tx, newer))
  OBVIOUS
<1>5. /\ Started.state = chain /\ Started.refused = 0 /\ Started.n = 0 /\ Started.trace = <<>> /\ Started.taken = 0
      /\ Started \in [state : Chains, refused : 0 .. 0, n : 0 .. 0, trace : Seq(LinesOf(tx, newer)), taken : Nat]
  BY <1>1, <1>4 DEF Started
<1> QED BY <1>1, <1>2, <1>3, <1>5, Silence DEF RunTrue

\* A call that goes through adds its word, and what is said stays true.
LEMMA GoesThrough ==
  ASSUME DecodeTypeOK, NEW tx, TxTrue(tx), NEW newer \in BOOLEAN, NEW r, NEW k \in Nat, RunTrue(tx, newer, r, k),
         k + 1 \in DOMAIN tx, r.refused = 0, Causes(r.state, tx[k + 1].ix) = {}
  PROVE  RunTrue(tx, newer, Step(r, tx[k + 1], newer), k + 1)
<1> DEFINE call == tx[k + 1]  ix == call.ix  s == r.state  q == Step(r, call, newer)  new == Trace(s, call, newer)
           old == r.trace  both == old \o new  S == LinesOf(tx, newer)
<1>1. /\ s \in Chains /\ s.kind = chain.kind /\ ix \in Calls \cup Foreign /\ old \in Seq(S) /\ r.n = k /\ r.taken \in Nat
      /\ Apply(told, EventsOf(old)) \in Tolds /\ Causes(s, ix) = {}
  BY DEF RunTrue, TxTrue
<1>2. /\ q = [state |-> After(s, ix), refused |-> 0, n |-> k + 1, trace |-> both, taken |-> r.taken + Charge(ix)]
  BY <1>1 DEF Step, Charge
<1>3. new \in Seq(S)
  <2>1. new \in Seq({Line(call, "instruction", newer), Line(call, "event", newer)})
    BY <1>1, TraceSays
  <2>2. {Line(call, "instruction", newer), Line(call, "event", newer)} \subseteq S
    BY DEF LinesOf
  <2> HIDE DEF new, S, call
  <2> QED BY <2>1, <2>2
<1>4. PICK word \in Sayings \cup {"none"} :
        /\ IF word = "none" THEN Speaks(new) = {} ELSE Speaks(new) = {Len(new)} /\ Said(new[Len(new)]) = word
        /\ Readable(new) => word = Means(ix)
  BY <1>1, OneWord, SMTT(40)
<1>5. /\ After(s, ix) \in Chains /\ After(s, ix).kind = s.kind /\ (After(s, ix).purse = -1 <=> s.purse = -1)
      /\ (s.payee => After(s, ix).payee)
  BY <1>1, AfterIs
<1>6. /\ s.purse = -1 <=> chain.purse = -1
      /\ chain.payee => s.payee
      /\ \A i \in Speaks(old) : Said(old[i]) \in Sayings
      /\ Readable(old) =>
           /\ Cardinality(Charged(old)) = r.taken
           /\ complete \/ Created(old) => Tells(Apply(told, EventsOf(old)), s)
  BY DEF RunTrue
<1> HIDE DEF call, ix, s, q, new, old, S
<1>7. /\ both \in Seq(S) /\ (Readable(both) <=> Readable(old) /\ Readable(new))
      /\ Speaks(both) = Speaks(old) \cup {Len(old) + i : i \in Speaks(new)}
      /\ \A i \in Speaks(old) : Said(both[i]) = Said(old[i])
      /\ \A i \in Speaks(new) : Said(both[Len(old) + i]) = Said(new[i])
  BY <1>1, <1>3, TraceGoesOn
<1>8. Apply(told, EventsOf(both)) = Hears(Apply(told, EventsOf(old)), word)
  BY <1>1, <1>3, <1>4, ApplyGoesOn
<1>9. /\ Cardinality(Charged(both)) = Cardinality(Charged(old)) + (IF word = "charged" THEN 1 ELSE 0)
      /\ Cardinality(Charged(old)) \in Nat
  BY <1>1, <1>3, <1>4, ChargedIs
<1> HIDE DEF both
<1>10. Apply(told, EventsOf(both)) \in Tolds
  BY <1>1, <1>8, HeardIs
<1>11. \A i \in Speaks(new) : Said(new[i]) = word /\ word # "none"
  BY <1>4
<1>12. \A i \in Speaks(both) : Said(both[i]) \in Sayings
  BY <1>4, <1>6, <1>7, <1>11
<1>13. ASSUME Readable(both) PROVE Cardinality(Charged(both)) = r.taken + Charge(ix)
  <2>1. word = Means(ix) /\ Cardinality(Charged(old)) = r.taken
    BY <1>4, <1>6, <1>7, <1>13
  <2>2. (Means(ix) = "charged") <=> (ix.op = "charge")
    <3>1. ix.op \in {"charge", "updatePlan", "openPayee", "refuse"} \cup Owners
      BY <1>1, CallsAre
    <3> QED BY <3>1 DEF Means, Owners
  <2> QED BY <1>9, <2>1, <2>2 DEF Charge
<1>14. ASSUME Readable(both), complete \/ Created(both) PROVE Tells(Apply(told, EventsOf(both)), After(s, ix))
  <2>1. word = Means(ix) /\ Readable(old)
    BY <1>4, <1>7, <1>14
  <2>2. Created(both) => Created(old) \/ word = "created"
    BY <1>7, <1>11 DEF Created
  <2>3. Tells(Apply(told, EventsOf(old)), s) \/ Means(ix) = "created"
    BY <1>6, <1>14, <2>1, <2>2
  <2> QED BY <1>1, <1>8, <2>1, <2>3, HeardIsTrue
<1>15. /\ q.state = After(s, ix) /\ q.refused = 0 /\ q.n = k + 1 /\ q.trace = both /\ q.taken = r.taken + Charge(ix)
       /\ q \in [state : Chains, refused : 0 .. k + 1, n : 0 .. k + 1, trace : Seq(S), taken : Nat]
  <2>1. r.taken + Charge(ix) \in Nat /\ 0 \in 0 .. k + 1 /\ k + 1 \in 0 .. k + 1
    BY <1>1 DEF Charge
  <2> QED BY <1>2, <1>5, <1>7, <2>1
<1>16. RunTrue(tx, newer, q, k + 1)
  BY <1>1, <1>5, <1>6, <1>10, <1>12, <1>13, <1>14, <1>15 DEF RunTrue, S
<1> QED BY <1>16 DEF q, call

\* So does any call, for one that is refused, or not reached, changes nothing.
LEMMA RunGoesOn ==
  ASSUME DecodeTypeOK, NEW tx, TxTrue(tx), NEW newer \in BOOLEAN, NEW r, NEW k \in Nat, RunTrue(tx, newer, r, k),
         k + 1 \in DOMAIN tx
  PROVE  RunTrue(tx, newer, Step(r, tx[k + 1], newer), k + 1)
<1> DEFINE q == Step(r, tx[k + 1], newer)
<1>1. CASE r.refused # 0
  <2>1. q = r
    BY <1>1 DEF Step
  <2>2. 0 .. k \subseteq 0 .. k + 1
    OBVIOUS
  <2>3. r \in [state : Chains, refused : 0 .. k + 1, n : 0 .. k + 1, trace : Seq(LinesOf(tx, newer)), taken : Nat]
    BY <2>2 DEF RunTrue
  <2> QED BY <1>1, <2>1, <2>3 DEF RunTrue
<1>2. CASE r.refused = 0 /\ Causes(r.state, tx[k + 1].ix) # {}
  <2>1. q = [r EXCEPT !.refused = r.n + 1]
    BY <1>2 DEF Step
  <2>2. r \in [state : Chains, refused : 0 .. k, n : 0 .. k, trace : Seq(LinesOf(tx, newer)), taken : Nat] /\ r.n = k
    BY <1>2 DEF RunTrue
  <2>3. /\ q.state = r.state /\ q.refused = k + 1 /\ q.n = k /\ q.trace = r.trace /\ q.taken = r.taken
        /\ q \in [state : Chains, refused : 0 .. k + 1, n : 0 .. k + 1, trace : Seq(LinesOf(tx, newer)), taken : Nat]
    BY <2>1, <2>2
  <2> HIDE DEF q
  <2>4. k + 1 # 0
    OBVIOUS
  <2>5. RunTrue(tx, newer, q, k + 1)
    BY <2>3, <2>4 DEF RunTrue
  <2> QED BY <2>5 DEF q
<1>3. CASE r.refused = 0 /\ Causes(r.state, tx[k + 1].ix) = {}
  BY <1>3, GoesThrough
<1> QED BY <1>1, <1>2, <1>3

\* The whole transaction.
LEMMA RanIs ==
  ASSUME DecodeTypeOK, FeedTellsChain, NEW tx \in Single \cup Pairs, NEW newer \in BOOLEAN
  PROVE  RunTrue(tx, newer, Ran(tx, newer), Len(tx))
<1>1. TxTrue(tx)
  BY TxIs
<1>2. Len(tx) \in {1, 2} /\ DOMAIN tx = 1 .. Len(tx)
  BY <1>1 DEF TxTrue
<1>3. RunTrue(tx, newer, Step(Started, tx[1], newer), 1)
  <2>1. 0 + 1 \in DOMAIN tx /\ 0 + 1 = 1
    BY <1>2
  <2>2. RunTrue(tx, newer, Step(Started, tx[0 + 1], newer), 0 + 1)
    BY <1>1, <2>1, Begins, RunGoesOn
  <2> QED BY <2>1, <2>2
<1>4. CASE Len(tx) = 1
  BY <1>3, <1>4 DEF Ran
<1>5. CASE Len(tx) = 2
  <2>1. 1 + 1 \in DOMAIN tx /\ 1 + 1 = 2
    BY <1>2, <1>5
  <2> DEFINE first == Step(Started, tx[1], newer)
  <2> HIDE DEF first
  <2>2. RunTrue(tx, newer, first, 1)
    BY <1>3 DEF first
  <2>3. RunTrue(tx, newer, Step(first, tx[1 + 1], newer), 1 + 1)
    BY <1>1, <2>1, <2>2, RunGoesOn
  <2>4. Ran(tx, newer) = Step(first, tx[2], newer)
    BY <1>5 DEF Ran, first
  <2> QED BY <1>5, <2>1, <2>3, <2>4
<1> QED BY <1>2, <1>4, <1>5

(***************************************************************************)
(* What a transaction that is refused is decoded to.                       *)
(***************************************************************************)

\* The log that is left names the innermost failure first.
LEMMA LogsAre ==
  ASSUME NEW call, NEW cause, cause.by \in {"ours", "token", "other"},
         NEW n \in 0 .. Len(FailedLines(call, cause))
  PROVE  LET logs == SubSeq(FailedLines(call, cause), 1, n) IN
         /\ FailingProgram(logs) = IF n = 0 THEN "unknown" ELSE cause.by
         /\ n > 0 => cause.by \in ToSet(logs)
<1> DEFINE all == FailedLines(call, cause)  logs == SubSeq(all, 1, n)
<1>1. all \in Seq({"ours", "token", "other"}) /\ Len(all) \in 1 .. 3 /\ all[1] = cause.by
  <2> DEFINE A == IF cause.by = "token" THEN <<"token">> ELSE <<>>
             B == IF cause.by = "other" THEN <<>> ELSE <<"ours">>
             C == IF call.direct /\ cause.by # "other" THEN <<>> ELSE <<"other">>
             T == {"ours", "token", "other"}
  <2>1. all = A \o B \o C
    BY DEF FailedLines
  <2>2. A \in Seq(T) /\ B \in Seq(T) /\ C \in Seq(T) /\ Len(A) \in {0, 1} /\ Len(B) \in {0, 1} /\ Len(C) \in {0, 1}
    <3>1. /\ <<>> \in Seq(T) /\ Len(<<>>) = 0
          /\ \A w \in T : <<w>> \in Seq(T) /\ Len(<<w>>) = 1
      OBVIOUS
    <3>2. A \in Seq(T) /\ Len(A) \in {0, 1}
      BY <3>1
    <3>3. B \in Seq(T) /\ Len(B) \in {0, 1}
      BY <3>1
    <3>4. C \in Seq(T) /\ Len(C) \in {0, 1}
      BY <3>1
    <3> QED BY <3>2, <3>3, <3>4
  <2>3. CASE cause.by = "token"
    <3>1. A = <<"token">> /\ Len(A) = 1 /\ A[1] = "token"
      BY <2>3
    <3> QED BY <2>1, <2>2, <2>3, <3>1
  <2>4. CASE cause.by = "ours"
    <3>1. A = <<>> /\ B = <<"ours">> /\ Len(A) = 0 /\ Len(B) = 1 /\ B[1] = "ours"
      BY <2>4
    <3> QED BY <2>1, <2>2, <2>4, <3>1
  <2>5. CASE cause.by = "other"
    <3>1. A = <<>> /\ B = <<>> /\ C = <<"other">> /\ Len(A) = 0 /\ Len(B) = 0 /\ Len(C) = 1 /\ C[1] = "other"
      BY <2>5
    <3> QED BY <2>1, <2>2, <2>5, <3>1
  <2> QED BY <2>3, <2>4, <2>5
<1> HIDE DEF all
<1>2. n \in 0 .. Len(all)
  BY DEF all
<1>3. logs \in Seq({"ours", "token", "other"}) /\ Len(logs) = n /\ (n > 0 => logs[1] = cause.by)
  BY <1>1, <1>2
<1> HIDE DEF logs
<1>4. logs = <<>> <=> n = 0
  BY <1>1, <1>2, <1>3
<1>5. n > 0 => cause.by \in ToSet(logs)
  BY <1>1, <1>2, <1>3 DEF ToSet
<1>6. FailingProgram(logs) = IF n = 0 THEN "unknown" ELSE cause.by
  BY <1>1, <1>2, <1>3, <1>4 DEF FailingProgram
<1> QED BY <1>5, <1>6 DEF logs, all

\* A line between others.
LEMMA InBetween ==
  ASSUME NEW S, NEW a \in Seq(S), NEW b \in Seq(S), 1 \in DOMAIN b, NEW c \in Seq(S)
  PROVE  /\ a \o b \o c \in Seq(S) /\ Len(a) + 1 \in DOMAIN (a \o b \o c)
         /\ (a \o b \o c)[Len(a) + 1] = b[1]
<1> DEFINE ab == a \o b  n == Len(a) + 1
<1>1. ab \in Seq(S) /\ n \in DOMAIN ab /\ ab[n] = b[1]
  <2>1. Len(b) \in Nat /\ DOMAIN b = 1 .. Len(b) /\ Len(a) \in Nat
    OBVIOUS
  <2>2. ab \in Seq(S) /\ DOMAIN ab = 1 .. Len(a) + Len(b) /\ \A i \in 1 .. Len(b) : ab[Len(a) + i] = b[i]
    OBVIOUS
  <2> HIDE DEF ab
  <2> QED BY <2>1, <2>2
<1> HIDE DEF ab, n
<1>2. ab \o c \in Seq(S) /\ DOMAIN ab \subseteq DOMAIN (ab \o c) /\ \A i \in DOMAIN ab : (ab \o c)[i] = ab[i]
  BY <1>1
<1> QED BY <1>1, <1>2 DEF ab, n

\* The lines of a refused transaction: of its calls, the refused one after those that went through.
LEMMA ReachedIs ==
  ASSUME NEW tx, TxTrue(tx), NEW newer, NEW r, r.trace \in Seq(LinesOf(tx, newer)), r.refused \in DOMAIN tx
  PROVE  LET trace == Reached(tx, r, newer) IN
         /\ trace \in Seq(LinesOf(tx, newer))
         /\ \E p \in DOMAIN trace : trace[p] = Line(tx[r.refused], "instruction", newer)
<1> DEFINE S == LinesOf(tx, newer)  one == <<Line(tx[r.refused], "instruction", newer)>>
           rest == [i \in 1 .. Len(tx) - r.refused |-> Line(tx[r.refused + i], "instruction", newer)]
           old == r.trace
<1>1. one \in Seq(S) /\ 1 \in DOMAIN one /\ one[1] = Line(tx[r.refused], "instruction", newer)
  <2>1. Line(tx[r.refused], "instruction", newer) \in S
    BY DEF LinesOf
  <2> HIDE DEF S
  <2> QED BY <2>1
<1>2. rest \in Seq(S)
  <2>1. Len(tx) \in {1, 2} /\ DOMAIN tx = 1 .. Len(tx) /\ r.refused \in 1 .. Len(tx)
    BY DEF TxTrue
  <2>2. Len(tx) - r.refused \in Nat
    BY <2>1
  <2>3. ASSUME NEW i \in 1 .. Len(tx) - r.refused PROVE rest[i] \in S
    <3>1. r.refused + i \in DOMAIN tx
      BY <2>1, <2>3
    <3> QED BY <2>3, <3>1 DEF LinesOf
  <2> HIDE DEF S
  <2>4. rest \in [1 .. Len(tx) - r.refused -> S]
    BY <2>3
  <2> HIDE DEF rest
  <2> QED BY <2>2, <2>4
<1>3. old \in Seq(S)
  OBVIOUS
<1>4. Reached(tx, r, newer) = old \o one \o rest
  BY DEF Reached
<1> HIDE DEF S, one, rest, old
<1>5. /\ old \o one \o rest \in Seq(S) /\ Len(old) + 1 \in DOMAIN (old \o one \o rest)
      /\ (old \o one \o rest)[Len(old) + 1] = one[1]
  BY <1>1, <1>2, <1>3, InBetween
<1> QED BY <1>1, <1>4, <1>5 DEF S

\* The report of a refusal, and what is read in it.
Refusal(tx, newer, r, cause, balances, n) ==
  Report(TRUE, [index |-> tx[r.refused].outer, cause |-> cause], Reached(tx, r, newer),
         SubSeq(FailedLines(tx[r.refused], cause), 1, n), chain, balances)

\* Every event of it is a rejection of one of its calls, with the reported cause; and a refused charge is among them.
LEMMA RefusalIs ==
  ASSUME DecodeTypeOK, NEW tx, TxTrue(tx), NEW newer \in BOOLEAN, NEW r, RunTrue(tx, newer, r, Len(tx)), r.refused # 0,
         NEW cause \in Causes(r.state, tx[r.refused].ix), NEW balances \in BOOLEAN,
         NEW n \in 0 .. Len(FailedLines(tx[r.refused], cause))
  PROVE  LET report == Refusal(tx, newer, r, cause, balances, n)
             d  == DecodeTransaction(report)
             ix == tx[r.refused].ix IN
         /\ r.state \in Chains /\ ix \in Calls \cup Foreign
         /\ \A i \in DOMAIN d.events :
              /\ d.events[i].kind = "rejected"
              /\ \E iy \in Calls \cup Foreign : /\ d.events[i] = Rejected(report, iy)
                                                /\ iy.fault = "authority" <=> ix.fault = "authority"
         /\ FailingProgram(report.logs) = IF n = 0 THEN "unknown" ELSE cause.by
         /\ ~newer /\ ix.op = "charge" =>
              /\ DOMAIN d.events # {} \/ d.problems # {}
              /\ n > 0 /\ cause.by = "ours" => \E i \in DOMAIN d.events : d.events[i] = Rejected(report, ix)
<1> DEFINE report == Refusal(tx, newer, r, cause, balances, n)  d == DecodeTransaction(report)
           call == tx[r.refused]  ix == call.ix  trace == Reached(tx, r, newer)
           logs == SubSeq(FailedLines(call, cause), 1, n)
<1>1. r.refused \in DOMAIN tx /\ r.trace \in Seq(LinesOf(tx, newer)) /\ r.state \in Chains
  <2>1. r.refused \in 0 .. Len(tx) /\ r.trace \in Seq(LinesOf(tx, newer)) /\ r.state \in Chains
    BY DEF RunTrue
  <2>2. Len(tx) \in {1, 2} /\ DOMAIN tx = 1 .. Len(tx)
    BY DEF TxTrue
  <2> QED BY <2>1, <2>2
<1>2. ix \in Calls \cup Foreign /\ call.outer \in {1, 2}
  BY <1>1 DEF TxTrue
<1>3. cause.by \in {"ours", "token", "other"}
  BY <1>1, <1>2, Why
<1>4. /\ report.trace = trace /\ report.failed = TRUE /\ report.logs = logs
      /\ report.error = [index |-> call.outer, cause |-> cause]
  BY DEF Refusal, Report
<1>5. report.error # NoError /\ report.error.index = call.outer
  BY <1>2, <1>4 DEF NoError
<1>6. trace \in Seq(LinesOf(tx, newer)) /\ \E p \in DOMAIN trace : trace[p] = Line(call, "instruction", newer)
  BY <1>1, ReachedIs
<1>7. FailingProgram(logs) = (IF n = 0 THEN "unknown" ELSE cause.by) /\ (n > 0 => cause.by \in ToSet(logs))
  BY <1>3, LogsAre
<1>8. d = DecodeFailed(report)
  BY <1>4 DEF DecodeTransaction
<1>9. /\ DOMAIN d.events \subseteq Attempts(report)
      /\ \A i \in DOMAIN d.events : d.events[i] = Rejected(report, report.trace[i].ix)
      /\ Attempts(report) # {} => DOMAIN d.events # {} \/ d.problems # {}
      /\ Attempts(report) # {} /\ RefusedByUs(report) => DOMAIN d.events = Attempts(report)
  <2> HIDE DEF report
  <2>1. CASE Attempts(report) = {}
    <3>1. d.events = NoEvents
      BY <1>8, <2>1 DEF DecodeFailed, Decoded
    <3> QED BY <2>1, <3>1 DEF NoEvents
  <2>2. CASE Attempts(report) # {} /\ ~RefusedByUs(report)
    <3>1. d.events = NoEvents /\ d.problems = {"unattributed-failure"}
      BY <1>5, <1>8, <2>2 DEF DecodeFailed, Decoded
    <3> QED BY <2>2, <3>1 DEF NoEvents
  <2>3. CASE Attempts(report) # {} /\ RefusedByUs(report)
    <3>1. d.events = RejectedIn(report)
      BY <1>5, <1>8, <2>3 DEF DecodeFailed, Decoded
    <3> QED BY <2>3, <3>1 DEF RejectedIn
  <2> QED BY <2>1, <2>2, <2>3
<1>10. ASSUME NEW i \in DOMAIN d.events
       PROVE  /\ d.events[i].kind = "rejected"
              /\ \E iy \in Calls \cup Foreign : /\ d.events[i] = Rejected(report, iy)
                                                /\ iy.fault = "authority" <=> ix.fault = "authority"
  <2>1. d.events[i] = Rejected(report, report.trace[i].ix) /\ i \in Attempts(report)
    BY <1>9, <1>10
  <2>2. i \in DOMAIN trace
    BY <1>4, <2>1 DEF Attempts, InFailed, Ours, AllInstructions
  <2>3. trace[i] \in LinesOf(tx, newer)
    BY <1>6, <2>2
  <2>4. PICK j \in DOMAIN tx : trace[i].ix = tx[j].ix
    BY <2>3 DEF LinesOf, Line
  <2>5. tx[j].ix \in Calls \cup Foreign /\ (tx[j].ix.fault = "authority" <=> ix.fault = "authority")
    BY <1>1 DEF TxTrue
  <2>6. d.events[i].kind = "rejected"
    BY <2>1 DEF Rejected
  <2>7. d.events[i] = Rejected(report, tx[j].ix)
    BY <1>4, <2>1, <2>4
  <2> QED BY <2>5, <2>6, <2>7
<1>11. ASSUME ~newer, ix.op = "charge"
       PROVE  /\ DOMAIN d.events # {} \/ d.problems # {}
              /\ n > 0 /\ cause.by = "ours" => \E i \in DOMAIN d.events : d.events[i] = Rejected(report, ix)
  <2>1. PICK p \in DOMAIN trace : trace[p] = Line(call, "instruction", newer)
    BY <1>6
  <2>2. trace[p].program = "ours" /\ trace[p].outer = call.outer /\ trace[p].ix = ix /\ Parses(trace[p])
    BY <1>2, <1>11, <2>1, CallsAre DEF Line, Program, Parses
  <2>3. p \in Attempts(report)
    BY <1>4, <1>5, <1>11, <2>2 DEF Attempts, InFailed, Ours, AllInstructions
  <2>4. n > 0 /\ cause.by = "ours" => RefusedByUs(report)
    BY <1>4, <1>7 DEF RefusedByUs
  <2> QED BY <1>4, <1>9, <2>2, <2>3, <2>4
<1> QED BY <1>1, <1>2, <1>4, <1>7, <1>10, <1>11

(***************************************************************************)
(* What was decoded of the last transaction.                               *)
(***************************************************************************)

\* What a reason tells of the permission and the call it was refused for.
Stands(reason, s, ix) ==
  \/ reason = "unmapped"
  \/ reason = "revoked" /\ (s.perm = "absent" \/ s.auth # "live" \/ (s.perm = "ended" /\ s.kind = "subscription"))
  \/ reason = "cap_exceeded" /\ s.left = 0
  \/ reason = "expired" /\ (s.perm = "ended" \/ s.plan = "ended")
  \/ reason = "insufficient_funds" /\ s.purse < 1
  \/ reason = "merchant_account_missing" /\ ~s.payee
  \/ reason = "wrong_mint" /\ ix.fault = "mint"
  \/ reason = "not_due_yet" /\ ix.fault = "early"

\* The reason that is shown for a refusal was in the way.
LEMMA ReasonStands ==
  ASSUME NEW s \in Chains, NEW ix \in Calls \cup Foreign, NEW cause \in Causes(s, ix),
         NEW report, report.before.purse = -1 <=> s.purse = -1, report.before.payee \in BOOLEAN,
         report.before.payee => s.payee, report.balances \in BOOLEAN,
         report.error.cause = cause, FailingProgram(report.logs) \in {"unknown", cause.by},
         NEW iy, iy.fault = "authority" <=> ix.fault = "authority"
  PROVE  Stands(Reason(Rejected(report, iy)), s, ix)
<1> DEFINE event == Rejected(report, iy)
<1>1. /\ event.raisedBy = FailingProgram(report.logs) /\ event.failure.type = cause.type
      /\ event.failure.code = cause.code /\ event.existing = Existing(report)
      /\ event.authority = AuthorityFacts(report, iy)
  BY DEF Rejected
<1>2. /\ cause.by \in {"ours", "token", "other"} /\ cause.type \in {"custom", "runtime"} /\ cause.code \in Int
      /\ ix.op # "charge" => cause.type = "custom" /\ ((cause.by = "ours" /\ cause.code = 2) \/ cause.by = "other")
      /\ cause.type = "runtime" => cause.by = "ours" /\ s.perm = "absent"
      /\ cause.by = "token" => (cause.code = 1 /\ s.purse = 0) \/ (cause.code = 3 /\ ix.fault = "mint")
      /\ ix.op = "charge" /\ cause.type = "custom" /\ cause.by = "ours" =>
           \/ cause.code = 103 /\ (ix.fault = "authority" \/ s.auth = "closed")
           \/ cause.code = 136 /\ s.auth = "rotated"
           \/ cause.code = 125 /\ ix.fault = "mint"
           \/ cause.code = 1
           \/ cause.code = 508 /\ s.perm = "ended" /\ s.kind = "subscription"
           \/ cause.code = 128 /\ s.perm = "ended"
           \/ cause.code = 501 /\ s.plan = "ended"
           \/ cause.code \in Ceiling /\ s.left = 0
           \/ cause.code \in NotDue /\ ix.fault = "early"
           \/ cause.code \in NoAccount /\ (s.purse = -1 \/ ~s.payee)
  BY Why
<1> HIDE DEF event
<1> SUFFICES Stands(Reason(event), s, ix)
  BY DEF event
<1>4. CASE event.raisedBy = "unknown"
  BY <1>4 DEF Stands, Reason, ClassifyRejection
<1>5. CASE event.raisedBy # "unknown" /\ cause.type = "runtime"
  <2>1. event.raisedBy = "ours" /\ s.perm = "absent"
    BY <1>1, <1>2, <1>5
  <2>2. Reason(event) = "revoked"
    BY <1>1, <1>5, <2>1 DEF Reason, ClassifyRejection
  <2> QED BY <2>1, <2>2 DEF Stands
<1>6. CASE event.raisedBy # "unknown" /\ cause.type = "custom" /\ cause.by = "token"
  <2>1. event.raisedBy = "token"
    BY <1>1, <1>6
  <2>2. CASE cause.code = 1 /\ s.purse = 0
    <3>1. Reason(event) = "insufficient_funds"
      BY <1>1, <1>6, <2>1, <2>2 DEF Reason, ClassifyRejection, ByProgramAndCode
    <3> QED BY <2>2, <3>1 DEF Stands
  <2>3. CASE cause.code = 3 /\ ix.fault = "mint"
    <3>1. Reason(event) = "wrong_mint"
      BY <1>1, <1>6, <2>1, <2>3 DEF Reason, ClassifyRejection, ByProgramAndCode
    <3> QED BY <2>3, <3>1 DEF Stands
  <2> QED BY <1>2, <1>6, <2>2, <2>3
<1>7. CASE event.raisedBy # "unknown" /\ cause.type = "custom" /\ cause.by = "other"
  <2>1. event.raisedBy = "other"
    BY <1>1, <1>7
  <2>2. Reason(event) = "unmapped"
    BY <1>1, <1>7, <2>1 DEF Reason, ClassifyRejection, ByProgramAndCode
  <2> QED BY <2>2 DEF Stands
<1>8. CASE event.raisedBy # "unknown" /\ cause.type = "custom" /\ cause.by = "ours"
  <2>1. event.raisedBy = "ours" /\ event.failure.type = "custom" /\ event.failure.code = cause.code
    BY <1>1, <1>8
  <2>2. Reason(event) = IF cause.code = 508 THEN "revoked"
                        ELSE IF cause.code \in NoAccount THEN MissingAccount(event.existing)
                        ELSE IF cause.code = 103 THEN IF event.authority = "gone" THEN "revoked" ELSE "unmapped"
                        ELSE ByProgramAndCode("ours", cause.code)
    BY <2>1 DEF Reason, ClassifyRejection
  <2>3. CASE ix.op # "charge"
    <3>1. cause.code = 2
      BY <1>2, <1>8, <2>3
    <3>2. Reason(event) = "unmapped"
      BY <2>2, <3>1 DEF ByProgramAndCode, Ceiling, NotDue, NoAccount
    <3> QED BY <3>2 DEF Stands
  <2>4. CASE cause.code = 103 /\ (ix.fault = "authority" \/ s.auth = "closed")
    <3>1. CASE event.authority = "gone"
      <4>1. iy.fault # "authority"
        BY <1>1, <3>1 DEF AuthorityFacts
      <4>2. s.auth = "closed" /\ Reason(event) = "revoked"
        BY <2>2, <2>4, <3>1, <4>1 DEF NoAccount
      <4> QED BY <4>2 DEF Stands
    <3>2. CASE event.authority # "gone"
      <4>1. Reason(event) = "unmapped"
        BY <2>2, <2>4, <3>2 DEF NoAccount
      <4> QED BY <4>1 DEF Stands
    <3> QED BY <3>1, <3>2
  <2>5. CASE cause.code = 136 /\ s.auth = "rotated"
    <3>1. Reason(event) = "revoked"
      BY <2>2, <2>5 DEF ByProgramAndCode, Ceiling, NotDue, NoAccount
    <3> QED BY <2>5, <3>1 DEF Stands
  <2>6. CASE cause.code = 125 /\ ix.fault = "mint"
    <3>1. Reason(event) = "wrong_mint"
      BY <2>2, <2>6 DEF ByProgramAndCode, Ceiling, NotDue, NoAccount
    <3> QED BY <2>6, <3>1 DEF Stands
  <2>7. CASE cause.code = 1
    <3>1. Reason(event) = "unmapped"
      BY <2>2, <2>7 DEF ByProgramAndCode, Ceiling, NotDue, NoAccount
    <3> QED BY <3>1 DEF Stands
  <2>8. CASE cause.code = 508 /\ s.perm = "ended" /\ s.kind = "subscription"
    <3>1. Reason(event) = "revoked"
      BY <2>2, <2>8
    <3> QED BY <2>8, <3>1 DEF Stands
  <2>9. CASE (cause.code = 128 /\ s.perm = "ended") \/ (cause.code = 501 /\ s.plan = "ended")
    <3>1. Reason(event) = "expired"
      BY <2>2, <2>9 DEF ByProgramAndCode, Ceiling, NotDue, NoAccount
    <3> QED BY <2>9, <3>1 DEF Stands
  <2>10. CASE cause.code \in Ceiling /\ s.left = 0
    <3>1. cause.code \in {300, 400}
      BY <2>10 DEF Ceiling
    <3>2. Reason(event) = "cap_exceeded"
      BY <2>2, <3>1 DEF ByProgramAndCode, Ceiling, NotDue, NoAccount
    <3> QED BY <2>10, <3>2 DEF Stands
  <2>12. CASE cause.code \in NotDue /\ ix.fault = "early"
    <3>1. cause.code \in {401, 407}
      BY <2>12 DEF NotDue
    <3>2. Reason(event) = "not_due_yet"
      BY <2>2, <3>1 DEF ByProgramAndCode, Ceiling, NotDue, NoAccount
    <3> QED BY <2>12, <3>2 DEF Stands
  <2>11. CASE cause.code \in NoAccount /\ (s.purse = -1 \/ ~s.payee)
    <3>1. Reason(event) = MissingAccount(Existing(report))
      BY <1>1, <2>2, <2>11 DEF NoAccount
    <3>2. CASE Existing(report) = "source"
      <4>1. s.purse # -1 /\ Reason(event) = "merchant_account_missing"
        BY <3>1, <3>2 DEF Existing, MissingAccount
      <4> QED BY <2>11, <4>1 DEF Stands
    <3>3. CASE Existing(report) = "destination"
      <4>1. s.purse = -1 /\ Reason(event) = "insufficient_funds"
        BY <3>1, <3>3 DEF Existing, MissingAccount
      <4> QED BY <4>1 DEF Stands
    <3>4. CASE Existing(report) \notin {"source", "destination"}
      <4>1. Reason(event) = "unmapped"
        BY <3>1, <3>4 DEF MissingAccount
      <4> QED BY <4>1 DEF Stands
    <3> QED BY <3>2, <3>3, <3>4
  <2> QED BY <1>2, <1>8, <2>3, <2>4, <2>5, <2>6, <2>7, <2>8, <2>9, <2>10, <2>11, <2>12
<1> QED BY <1>2, <1>4, <1>5, <1>6, <1>7, <1>8

\* That is what the reason must stand for.
LEMMA HoldsThen ==
  ASSUME NEW reason, Stands(reason, last'.at, last'.ix)
  PROVE  Holds(reason)'
BY DEF Stands, Holds

\* A refusal that means the subscriber took the permission away is shown as that.
LEMMA NamedRevoked ==
  ASSUME NEW event, event.raisedBy = "ours", event.failure.type \in {"custom", "runtime"},
         event.failure.type = "runtime" \/ event.failure.code \in {103, 136, 508},
         event.failure.type = "custom" /\ event.failure.code = 103 => event.authority = "gone"
  PROVE  Reason(event) = "revoked"
<1>1. CASE event.failure.type = "runtime"
  BY <1>1 DEF Reason, ClassifyRejection
<1>2. CASE event.failure.type = "custom" /\ event.failure.code = 103
  BY <1>2 DEF Reason, ClassifyRejection, NoAccount
<1>3. CASE event.failure.type = "custom" /\ event.failure.code = 136
  BY <1>3 DEF Reason, ClassifyRejection, ByProgramAndCode, Ceiling, NotDue, NoAccount
<1>4. CASE event.failure.type = "custom" /\ event.failure.code = 508
  BY <1>4 DEF Reason, ClassifyRejection
<1> QED BY <1>1, <1>2, <1>3, <1>4

\* Where no refusal is recorded, and none was, there is nothing to be said of one.
LEMMA NoRefusal ==
  ASSUME last'.outcome # "refused", last'.clear = FALSE,
         \A i \in DOMAIN last'.decoded.events : last'.decoded.events[i].kind # "rejected"
  PROVE  ReasonTrue' /\ RefusalKept' /\ RevocationNamed'
<1>1. Events("rejected")' = {}
  BY DEF Events
<1> QED BY <1>1 DEF ReasonTrue, RefusalKept, RevocationNamed

\* Nothing is made of a transaction that was undone: what was said before stays said.
LEMMA StoredUndone ==
  ASSUME DecodeTypeOK, FeedTellsChain, NEW d, Store(d), UNCHANGED chain,
         \A i \in DOMAIN d.events : d.events[i].kind = "rejected"
  PROVE  DecodeTypeOK' /\ FeedTellsChain'
<1>1. "created" \notin {d.events[i].kind : i \in DOMAIN d.events}
  OBVIOUS
<1>2. complete' = (d.problems = {} /\ complete)
  <2>1. complete' = (d.problems = {} /\ (complete \/ "created" \in {d.events[i].kind : i \in DOMAIN d.events}))
    BY DEF Store
  <2> QED BY <1>1, <2>1
<1>3. Telling(d.events, PermTold) = {} /\ Telling(d.events, AuthTold) = {}
  BY DEF Telling, PermTold, AuthTold
<1>4. told \in Tolds
  BY DEF DecodeTypeOK, Tolds
<1>5. Apply(told, d.events) = told
  BY <1>3, <1>4 DEF Apply, Latest, Tolds
<1>6. told' = IF complete' THEN told ELSE Untold
  BY <1>5 DEF Store
<1>7. told' \in Tolds /\ complete' \in BOOLEAN
  BY <1>2, <1>4, <1>6 DEF Untold, Tolds
<1>8. DecodeTypeOK'
  BY <1>7 DEF DecodeTypeOK, Tolds
<1>9. FeedTellsChain'
  BY <1>2, <1>6 DEF FeedTellsChain
<1> QED BY <1>8, <1>9

\* The invariant holds at the start.
LEMMA DecodeStart == DecodeInit => DecodeInv
<1> SUFFICES ASSUME DecodeInit PROVE DecodeInv
  OBVIOUS
<1>1. MaxLeft \in 0 .. MaxLeft /\ MaxLeft \in -1 .. MaxLeft /\ 0 \in 0 .. MaxLeft
  BY ChainBounds
<1>2. chain \in [kind : Kinds, perm : {"absent"}, auth : {"live"}, left : {0}, purse : {MaxLeft}, payee : {TRUE},
                 plan : {"open"}] /\ told = Untold /\ complete = TRUE /\ last = NoOutcome
  BY DEF DecodeInit
<1>3. chain \in Chains /\ chain.perm = "absent"
  BY <1>1, <1>2 DEF Chains
<1>4. DecodeTypeOK /\ FeedTellsChain
  BY <1>2, <1>3 DEF DecodeTypeOK, FeedTellsChain, Untold
<1>5. /\ last.outcome = "none" /\ last.clear = FALSE /\ last.taken = 0 /\ DOMAIN last.decoded.events = {}
  BY <1>2 DEF NoOutcome, Decoded, NoEvents
<1>6. \A kind : Events(kind) = {}
  BY <1>5 DEF Events
<1>7. ChargesAsTaken /\ ReasonTrue /\ RefusalKept /\ RevocationNamed
  BY <1>5, <1>6, FS_EmptySet DEF ChargesAsTaken, ReasonTrue, RefusalKept, RevocationNamed
<1> QED BY <1>4, <1>7 DEF DecodeInv

\* A step that leaves nothing decoded.
LEMMA NothingDecoded ==
  ASSUME last'.outcome # "refused", last'.clear = FALSE, last'.taken = 0, DOMAIN last'.decoded.events = {},
         DecodeTypeOK', FeedTellsChain'
  PROVE  DecodeInv'
<1>1. \A kind : Events(kind)' = {}
  BY DEF Events
<1>2. ChargesAsTaken'
  BY <1>1, FS_EmptySet DEF ChargesAsTaken
<1>3. ReasonTrue' /\ RefusalKept' /\ RevocationNamed'
  BY NoRefusal
<1> QED BY <1>2, <1>3 DEF DecodeInv

\* Time, accounts and the plan change.
LEMMA ElsewhereKeeps == ASSUME DecodeInv, Elsewhere PROVE DecodeInv'
<1>1. PICK left \in 0 .. MaxLeft, purse \in -1 .. MaxLeft, payee \in BOOLEAN, terms \in {"open", "ended"},
           perm \in {chain.perm, "ended"} :
        /\ perm # chain.perm => chain.perm = "cancelled" \/ (chain.perm = "live" /\ chain.kind # "subscription")
        /\ chain' = [chain EXCEPT !.left = left, !.purse = purse, !.payee = payee, !.plan = terms, !.perm = perm]
  BY DEF Elsewhere
<1>2. UNCHANGED <<told, complete>> /\ last' = [NoOutcome EXCEPT !.at = chain']
  BY DEF Elsewhere
<1>3. chain \in Chains /\ DecodeTypeOK /\ FeedTellsChain
  BY DEF DecodeInv, DecodeTypeOK
<1>4. /\ chain' \in Chains /\ chain'.perm = perm /\ chain'.kind = chain.kind /\ chain'.auth = chain.auth
  BY <1>1, <1>3 DEF Chains
<1>5. DecodeTypeOK'
  BY <1>2, <1>3, <1>4 DEF DecodeTypeOK
<1>6. FeedTellsChain'
  BY <1>1, <1>2, <1>3, <1>4 DEF FeedTellsChain
<1>7. last'.outcome = "none" /\ last'.clear = FALSE /\ last'.taken = 0 /\ DOMAIN last'.decoded.events = {}
  BY <1>2 DEF NoOutcome, Decoded, NoEvents
<1> QED BY <1>5, <1>6, <1>7, NothingDecoded

\* The next transaction is awaited.
LEMMA SettleKeeps == ASSUME DecodeInv, Settle PROVE DecodeInv'
<1>1. last' = NoOutcome /\ UNCHANGED <<chain, told, complete>> /\ DecodeTypeOK /\ FeedTellsChain
  BY DEF Settle, DecodeInv
<1>2. last'.outcome = "none" /\ last'.clear = FALSE /\ last'.taken = 0 /\ DOMAIN last'.decoded.events = {}
  BY <1>1 DEF NoOutcome, Decoded, NoEvents
<1>3. DecodeTypeOK' /\ FeedTellsChain'
  BY <1>1 DEF DecodeTypeOK, FeedTellsChain
<1> QED BY <1>2, <1>3, NothingDecoded

\* The transaction is refused as a whole.
LEMMA FailsWholeKeeps ==
  ASSUME DecodeInv, NEW tx, NEW newer, NEW r, FailsWhole(tx, newer, r) PROVE DecodeInv'
<1> DEFINE report == Report(TRUE, NoError, r.trace, <<>>, chain, TRUE)  d == DecodeTransaction(report)
<1>1. Store(d) /\ last' = [NoOutcome EXCEPT !.outcome = "undone", !.decoded = d] /\ UNCHANGED chain
  BY DEF FailsWhole
<1>2. d = Decoded(NoEvents, {})
  BY DEF DecodeTransaction, DecodeFailed, Report
<1> HIDE DEF d
<1>3. DOMAIN d.events = {}
  BY <1>2 DEF Decoded, NoEvents
<1>4. DecodeTypeOK' /\ FeedTellsChain'
  BY <1>1, <1>3, StoredUndone DEF DecodeInv
<1>5. last'.outcome = "undone" /\ last'.clear = FALSE /\ last'.taken = 0 /\ last'.decoded = d
  BY <1>1 DEF NoOutcome
<1> QED BY <1>3, <1>4, <1>5, NothingDecoded

\* It goes through.
LEMMA SucceedsKeeps ==
  ASSUME DecodeInv, NEW tx \in Single \cup Pairs, NEW newer \in BOOLEAN, Succeeds(tx, newer, Ran(tx, newer))
  PROVE  DecodeInv'
<1> DEFINE r == Ran(tx, newer)  trace == r.trace  d == DecodeTransaction(Happened(trace))
<1>1. /\ chain' = r.state /\ Store(d)
      /\ last' = [NoOutcome EXCEPT !.outcome = "ok", !.taken = r.taken, !.decoded = d, !.at = chain']
  BY DEF Succeeds, Happened
<1>2. RunTrue(tx, newer, r, Len(tx))
  BY RanIs DEF DecodeInv
<1>3. d.events = EventsOf(trace) /\ (d.problems = {} <=> Readable(trace))
  BY SucceededIs
<1> HIDE DEF r, trace, d
<1>4. /\ r.state \in Chains /\ Apply(told, EventsOf(trace)) \in Tolds
      /\ \A i \in Speaks(trace) : Said(trace[i]) \in Sayings
      /\ Readable(trace) =>
           /\ Cardinality(Charged(trace)) = r.taken
           /\ complete \/ Created(trace) => Tells(Apply(told, EventsOf(trace)), r.state)
  BY <1>2 DEF RunTrue, trace
<1>5. DOMAIN d.events = Speaks(trace) /\ \A i \in Speaks(trace) : d.events[i].kind = Said(trace[i])
  BY <1>3 DEF EventsOf
<1>6. "created" \in {d.events[i].kind : i \in DOMAIN d.events} <=> Created(trace)
  BY <1>5 DEF Created
<1>7. complete' = (Readable(trace) /\ (complete \/ Created(trace)))
  <2>1. complete' = (d.problems = {} /\ (complete \/ "created" \in {d.events[i].kind : i \in DOMAIN d.events}))
    BY <1>1 DEF Store
  <2> QED BY <1>3, <1>6, <2>1
<1>8. told' = IF complete' THEN Apply(told, EventsOf(trace)) ELSE Untold
  BY <1>1, <1>3 DEF Store
<1>9. DecodeTypeOK'
  <2>1. complete' \in BOOLEAN
    BY <1>7
  <2>2. told' \in Tolds
    BY <1>4, <1>8 DEF Untold, Tolds
  <2> QED BY <1>1, <1>4, <2>1, <2>2 DEF DecodeTypeOK, Tolds
<1>10. FeedTellsChain'
  <2>1. complete' => Tells(told', chain')
    BY <1>1, <1>4, <1>7, <1>8
  <2> QED BY <2>1 DEF Tells, FeedTellsChain
<1>11. last'.outcome = "ok" /\ last'.clear = FALSE /\ last'.taken = r.taken /\ last'.decoded = d
  BY <1>1 DEF NoOutcome
<1>12. ChargesAsTaken'
  <2>1. Events("charged")' = Charged(trace)
    BY <1>5, <1>11 DEF Events, Charged
  <2> QED BY <1>3, <1>4, <1>11, <2>1 DEF ChargesAsTaken
<1>13. ReasonTrue' /\ RefusalKept' /\ RevocationNamed'
  <2>1. "rejected" \notin Sayings
    BY DEF Sayings
  <2> QED BY <1>4, <1>5, <1>11, <2>1, NoRefusal
<1> QED BY <1>9, <1>10, <1>12, <1>13 DEF DecodeInv

\* One of its calls is refused.
LEMMA FailsKeeps ==
  ASSUME DecodeInv, NEW tx \in Single \cup Pairs, NEW newer \in BOOLEAN, Fails(tx, newer, Ran(tx, newer))
  PROVE  DecodeInv'
<1> DEFINE r == Ran(tx, newer)  ix == tx[r.refused].ix  s == r.state
<1>1. TxTrue(tx) /\ RunTrue(tx, newer, r, Len(tx)) /\ r.refused # 0
  BY TxIs, RanIs DEF DecodeInv, Fails
<1> HIDE DEF r
<1> DEFINE Reported(cause, balances, n) ==
             LET d == DecodeTransaction(Refusal(tx, newer, r, cause, balances, n))
             IN /\ Store(d)
                /\ last' = [NoOutcome EXCEPT !.outcome = "refused", !.ix = ix, !.cause = cause,
                              !.at = s, !.newer = newer, !.decoded = d,
                              !.clear = n > 0 /\ balances /\ chain.purse # -1 /\ chain.auth = s.auth]
<1>a. /\ UNCHANGED chain
      /\ \E cause \in Causes(s, ix), balances \in BOOLEAN :
           \E n \in 0 .. Len(FailedLines(tx[r.refused], cause)) : Reported(cause, balances, n)
  <2>1. /\ UNCHANGED chain
        /\ \E cause \in Causes(s, ix), balances \in Given(tx, TRUE, {FALSE}) :
             \E n \in Given(tx, Len(FailedLines(tx[r.refused], cause)), 0 .. Len(FailedLines(tx[r.refused], cause))) :
               Reported(cause, balances, n)
    BY DEF Fails, r, Refusal
  <2> HIDE DEF Reported
  <2>2. \A lines \in Nat : Given(tx, lines, 0 .. lines) \subseteq 0 .. lines
    BY DEF Given
  <2>3. Given(tx, TRUE, {FALSE}) \subseteq BOOLEAN
    BY DEF Given
  <2>4. \A cause : Len(FailedLines(tx[r.refused], cause)) \in Nat
    BY DEF FailedLines
  <2> QED BY <2>1, <2>2, <2>3, <2>4
<1> HIDE DEF Reported
<1>b. PICK cause \in Causes(s, ix), balances \in BOOLEAN :
        \E n \in 0 .. Len(FailedLines(tx[r.refused], cause)) : Reported(cause, balances, n)
  BY <1>a
<1>2. PICK n \in 0 .. Len(FailedLines(tx[r.refused], cause)) : Reported(cause, balances, n)
  BY <1>b
<1> DEFINE report == Refusal(tx, newer, r, cause, balances, n)  d == DecodeTransaction(report)
<1>3. /\ Store(d) /\ UNCHANGED chain
      /\ last' = [NoOutcome EXCEPT !.outcome = "refused", !.ix = ix, !.cause = cause,
                    !.at = s, !.newer = newer, !.decoded = d,
                    !.clear = n > 0 /\ balances /\ chain.purse # -1 /\ chain.auth = s.auth]
  BY <1>a, <1>2 DEF Reported
<1>4. /\ last'.outcome = "refused" /\ last'.ix = ix /\ last'.cause = cause /\ last'.at = s /\ last'.newer = newer
      /\ last'.decoded = d /\ last'.taken = 0
      /\ last'.clear = (n > 0 /\ balances /\ chain.purse # -1 /\ chain.auth = s.auth)
  BY <1>3 DEF NoOutcome
<1>5. /\ s \in Chains /\ ix \in Calls \cup Foreign
      /\ \A i \in DOMAIN d.events :
           /\ d.events[i].kind = "rejected"
           /\ \E iy \in Calls \cup Foreign : /\ d.events[i] = Rejected(report, iy)
                                             /\ iy.fault = "authority" <=> ix.fault = "authority"
      /\ FailingProgram(report.logs) = IF n = 0 THEN "unknown" ELSE cause.by
      /\ ~newer /\ ix.op = "charge" =>
           /\ DOMAIN d.events # {} \/ d.problems # {}
           /\ n > 0 /\ cause.by = "ours" => \E i \in DOMAIN d.events : d.events[i] = Rejected(report, ix)
  BY <1>1, RefusalIs DEF DecodeInv
<1>6. /\ report.before = chain /\ report.balances = balances /\ report.error.cause = cause
  BY DEF Refusal, Report
<1>7. /\ chain \in Chains /\ (s.purse = -1 <=> chain.purse = -1) /\ (chain.payee => s.payee)
      /\ chain.payee \in BOOLEAN
  BY <1>1 DEF RunTrue, DecodeInv, DecodeTypeOK, Chains
<1> HIDE DEF report, d
<1>8. DecodeTypeOK' /\ FeedTellsChain'
  BY <1>3, <1>5, StoredUndone DEF DecodeInv
<1>9. ChargesAsTaken'
  <2>1. Events("charged")' = {}
    BY <1>4, <1>5 DEF Events
  <2> QED BY <1>4, <2>1, FS_EmptySet DEF ChargesAsTaken
<1> PICK events : events = d.events
  OBVIOUS
<1>10. ReasonTrue'
  <2>1. ASSUME NEW i \in DOMAIN events PROVE Holds(Reason(events[i]))'
    <3>1. PICK iy \in Calls \cup Foreign : /\ events[i] = Rejected(report, iy)
                                           /\ iy.fault = "authority" <=> ix.fault = "authority"
      BY <1>5
    <3>2. Stands(Reason(Rejected(report, iy)), s, ix)
      BY <1>5, <1>6, <1>7, <3>1, ReasonStands
    <3>3. Stands(Reason(events[i]), last'.at, last'.ix)
      BY <1>4, <3>1, <3>2
    <3> QED BY <3>3, HoldsThen
  <2>2. last'.decoded.events = events
    BY <1>4
  <2>3. \A i \in Events("rejected")' : i \in DOMAIN events
    BY <2>2 DEF Events
  <2> QED BY <2>1, <2>2, <2>3 DEF ReasonTrue
<1>11. RefusalKept'
  <2>1. Events("rejected")' = DOMAIN d.events
    BY <1>4, <1>5 DEF Events
  <2> QED BY <1>4, <1>5, <2>1 DEF RefusalKept
<1>12. RevocationNamed'
  <2>1. ASSUME n > 0, balances, chain.purse # -1, chain.auth = s.auth, ~newer, ix = Ix("charge", "none"),
               cause.by = "ours", cause.type = "runtime" \/ cause.code \in {103, 136, 508}
        PROVE  \E i \in DOMAIN events : events[i].kind = "rejected" /\ Reason(events[i]) = "revoked"
    <3>1. ix.op = "charge" /\ ix.fault = "none"
      BY <2>1 DEF Ix
    <3>2. PICK i \in DOMAIN events : events[i] = Rejected(report, ix) /\ events[i].kind = "rejected"
      BY <1>5, <2>1, <3>1
    <3>3. cause.type \in {"custom", "runtime"} /\ (cause.type = "custom" /\ cause.code = 103 => s.auth = "closed")
      BY <1>5, <2>1, <3>1, Why DEF Ceiling, NotDue, NoAccount
    <3>4. FailingProgram(report.logs) = "ours" /\ (s.auth = "closed" => AuthorityFacts(report, ix) = "gone")
      BY <1>5, <1>6, <2>1, <3>1 DEF AuthorityFacts
    <3>5. /\ events[i].raisedBy = "ours" /\ events[i].failure.type = cause.type
          /\ events[i].failure.code = cause.code /\ events[i].authority = AuthorityFacts(report, ix)
      BY <1>6, <3>2, <3>4 DEF Rejected
    <3>6. Reason(events[i]) = "revoked"
      BY <2>1, <3>3, <3>4, <3>5, NamedRevoked
    <3> QED BY <3>2, <3>6
  <2>2. last'.decoded.events = events
    BY <1>4
  <2> QED BY <1>4, <2>1, <2>2 DEF RevocationNamed, Events
<1> QED BY <1>8, <1>9, <1>10, <1>11, <1>12 DEF DecodeInv

\* Every step keeps it.
LEMMA DecodeKeeps == DecodeInv /\ [DecodeNext]_decodeVars => DecodeInv'
<1> SUFFICES ASSUME DecodeInv, [DecodeNext]_decodeVars PROVE DecodeInv'
  OBVIOUS
<1>1. ASSUME NEW tx \in Single \cup Pairs, NEW newer \in BOOLEAN, Transact(tx, newer) PROVE DecodeInv'
  <2>1. \/ Succeeds(tx, newer, Ran(tx, newer)) \/ FailsWhole(tx, newer, Ran(tx, newer))
        \/ Fails(tx, newer, Ran(tx, newer))
    BY <1>1 DEF Transact
  <2> QED BY <2>1, SucceedsKeeps, FailsWholeKeeps, FailsKeeps
<1>2. CASE UNCHANGED decodeVars
  <2>1. UNCHANGED <<chain, told, complete, last>>
    BY <1>2 DEF decodeVars
  <2>2. DecodeTypeOK' /\ FeedTellsChain'
    BY <2>1 DEF DecodeInv, DecodeTypeOK, FeedTellsChain
  <2>3. \A kind : Events(kind)' = Events(kind)
    BY <2>1 DEF Events
  <2>4. ChargesAsTaken' /\ RefusalKept'
    BY <2>1, <2>3 DEF DecodeInv, ChargesAsTaken, RefusalKept
  <2>5. \A reason : Holds(reason)' <=> Holds(reason)
    BY <2>1 DEF Holds
  <2>6. ReasonTrue'
    BY <2>1, <2>3, <2>5 DEF DecodeInv, ReasonTrue
  <2>7. RevocationNamed'
    BY <2>1, <2>3 DEF DecodeInv, RevocationNamed
  <2> QED BY <2>2, <2>4, <2>6, <2>7 DEF DecodeInv
<1>3. CASE DecodeNext
  <2>1. \/ Elsewhere \/ Settle
        \/ \E tx \in Single, newer \in BOOLEAN : Transact(tx, newer)
        \/ \E tx \in Pairs : Transact(tx, FALSE)
    BY <1>3 DEF DecodeNext
  <2>2. CASE \E tx \in Single, newer \in BOOLEAN : Transact(tx, newer)
    BY <1>1, <2>2
  <2>3. CASE \E tx \in Pairs : Transact(tx, FALSE)
    BY <1>1, <2>3
  <2> QED BY <2>1, <2>2, <2>3, ElsewhereKeeps, SettleKeeps
<1> QED BY <1>2, <1>3

\* The indexer's reading of transactions is true whatever is followed.
LEMMA DecodeInvariant == HistorySpec => []DecodeInv
<1>1. HistoryInit => DecodeInv
  BY DecodeStart DEF HistoryInit
<1>2. DecodeInv /\ [HistoryNext]_historyVars => DecodeInv'
  <2>1. [HistoryNext]_historyVars => [DecodeNext]_decodeVars
    BY DEF HistoryNext, historyVars, decodeVars
  <2> QED BY <2>1, DecodeKeeps
<1> QED BY <1>1, <1>2, PTL DEF HistorySpec

(***************************************************************************)
(* Nothing in the events of a transaction is wrong and nothing of it is    *)
(* left out unsaid: what the events tell of the permission is how it       *)
(* stands, charges are recorded as they were taken, a reason that is shown *)
(* did stand in the way, and a refusal leaves a trace, a revocation under  *)
(* its name (decode.ts, reasons.ts).                                       *)
(***************************************************************************)
THEOREM EventsAreTrue == HistorySpec => []EventsTrue
<1>1. DecodeInv => EventsTrue
  BY DEF DecodeInv, EventsTrue
<1> QED BY <1>1, DecodeInvariant, PTL
=============================================================================
