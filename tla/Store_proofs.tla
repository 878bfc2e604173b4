---------------------------- MODULE Store_proofs ----------------------------
(***************************************************************************)
(* Store, proved for every set of permissions and indexers, every history  *)
(* and every lag of the node: rows are true and never go back, the cursor  *)
(* covers; and on a node that is never behind, the feed is complete.       *)
(***************************************************************************)
EXTENDS Store, TLAPS

RowType  == [status : {"none", "active", "revoked"}, slot : 0 .. MaxTx]
ReadType == [state : {"unread", "unreadable", "closed", "live", "dead"}, slot : 0 .. MaxTx]
Tx       == [kind : Kind, on : SUBSET Pda]
Account  == [Pda -> {"closed", "live", "dead"}]

(***************************************************************************)
(* What a read does to a row.                                              *)
(***************************************************************************)

\* Applying a read to a row keeps the row, or makes it what the read says; a row never
\* disappears and never goes back, and an open read leaves a row.
LEMMA AppliedRow ==
  ASSUME NEW old \in RowType, NEW read \in ReadType
  PROVE  /\ Applied(old, read) \in RowType
         /\ old.status # "none" =>
              Applied(old, read).status # "none" /\ old.slot <= Applied(old, read).slot
         /\ \/ Applied(old, read) = old
            \/ /\ read.state \in {"closed", "live", "dead"}
               /\ Applied(old, read).slot = read.slot
               /\ Applied(old, read).status = StatusOf(read.state)
         /\ read.state \in {"live", "dead"} => Applied(old, read).status # "none"
         /\ read.state = "unread" => Applied(old, read) = old
         /\ read.state \in {"closed", "live", "dead"} /\ Applied(old, read).status # "none" =>
              read.slot <= Applied(old, read).slot
<1>1. CASE read.state \in {"unread", "unreadable"}
  BY <1>1, StoreAssumption DEF Applied, RowType, ReadType
<1>2. CASE read.state = "closed"
  BY <1>2, StoreAssumption DEF Applied, MarkClosed, StatusOf, RowType, ReadType
<1>3. CASE read.state \in {"live", "dead"}
  BY <1>3, StoreAssumption DEF Applied, Upsert, StatusOf, RowType, ReadType
<1>4. QED
  BY <1>1, <1>2, <1>3 DEF ReadType

(***************************************************************************)
(* The chain only grows.                                                   *)
(***************************************************************************)

\* A transaction lands behind all others and changes none of them.
LEMMA LandGrows ==
  ASSUME ChainType, NEW kind \in Kind, NEW on \in SUBSET Pda, Land(kind, on)
  PROVE  /\ ChainType'
         /\ Tip \in Nat /\ Tip' = Tip + 1
         /\ \A i \in 1 .. Tip : log'[i] = log[i] /\ hist'[i] = hist[i]
<1> DEFINE tx  == [kind |-> kind, on |-> on]
           acc == [p \in Pda |->
             IF p \notin on THEN StateAt(p, Tip)
             ELSE CASE kind = "create" -> "live"
                    [] kind = "revoke" -> "closed"
                    [] kind = "authority" /\ StateAt(p, Tip) = "live" -> "dead"
                    [] OTHER -> StateAt(p, Tip)]
<1>1. log \in Seq(Tx) /\ hist \in Seq(Account) /\ Len(hist) = Tip /\ Tip \in Nat
  BY DEF ChainType, Tip, Tx, Account
<1>2. \A p \in Pda : StateAt(p, Tip) \in {"closed", "live", "dead"}
  BY <1>1 DEF StateAt, Account
<1>3. acc \in Account /\ tx \in Tx
  BY <1>2 DEF Account, Tx
<1>4. log' = Append(log, tx) /\ hist' = Append(hist, acc) /\ Tip < MaxTx
  BY DEF Land
<1> HIDE DEF tx, acc
<1>5. log' \in Seq(Tx) /\ Len(log') = Len(log) + 1 /\ \A i \in 1 .. Len(log) : log'[i] = log[i]
  BY <1>1, <1>3, <1>4
<1>6. hist' \in Seq(Account) /\ Len(hist') = Len(hist) + 1
      /\ \A i \in 1 .. Len(hist) : hist'[i] = hist[i]
  BY <1>1, <1>3, <1>4
<1>7. QED
  BY <1>1, <1>4, <1>5, <1>6, StoreAssumption DEF ChainType, Tip, Tx, Account

\* A transaction of the history names permissions.
LEMMA LogEntry ==
  ASSUME ChainType, NEW i \in 1 .. Tip
  PROVE  log[i] \in Tx /\ log[i].on \in SUBSET Pda
<1>1. log \in Seq(Tx) /\ Len(log) = Tip
  BY DEF ChainType, Tx, Tip
<1>2. log[i] \in Tx
  BY <1>1
<1>3. QED
  BY <1>2 DEF Tx

\* Nothing but a landing changes the chain; what was, stays.
LEMMA ChainStays ==
  ASSUME ChainType, [Next]_vars
  PROVE  /\ ChainType' /\ Tip \in Nat /\ Tip <= Tip' /\ Tip' <= MaxTx
         /\ \A i \in 1 .. Tip : log'[i] = log[i]
         /\ \A p \in Pda, s \in 0 .. Tip : StateAt(p, s)' = StateAt(p, s)
<1>1. ASSUME NEW kind \in Kind, NEW on \in SUBSET Pda, Land(kind, on)
      PROVE  /\ ChainType' /\ Tip \in Nat /\ Tip' = Tip + 1
             /\ \A i \in 1 .. Tip : log'[i] = log[i] /\ hist'[i] = hist[i]
  BY <1>1, LandGrows
<1>2. CASE \E kind \in Kind, on \in SUBSET Pda : Land(kind, on)
  <2>1. /\ ChainType' /\ Tip \in Nat /\ Tip' = Tip + 1
        /\ \A i \in 1 .. Tip : log'[i] = log[i] /\ hist'[i] = hist[i]
    BY <1>1, <1>2
  <2>2. Tip' <= MaxTx
    BY <2>1 DEF ChainType
  <2>3. ASSUME NEW p \in Pda, NEW s \in 0 .. Tip
        PROVE  StateAt(p, s)' = StateAt(p, s)
    BY <2>1 DEF StateAt
  <2>4. QED
    BY <2>1, <2>2, <2>3
<1>3. CASE UNCHANGED chain
  BY <1>3 DEF chain, ChainType, Tip, StateAt
<1>4. QED
  BY <1>2, <1>3 DEF Next, vars, BeginWrite, CommitWrite, Restart, BeginRefresh, CommitRefresh,
                    Abandon, ReadChain

(***************************************************************************)
(* The work in hand.                                                       *)
(***************************************************************************)

\* A process that begins or ends its work has no read in hand.
LEMMA CollectStarts ==
  ASSUME WorkType, NEW w \in Proc, NEW expanded \in SUBSET Pda, NEW named \in SUBSET Pda,
         Collect(w, expanded, named)
  PROVE  /\ phase' \in [Proc -> {"idle", "reading"}]
         /\ under' \in [Proc -> SUBSET Pda] /\ todo' \in [Proc -> SUBSET Pda]
         /\ reads' \in [Proc -> [Pda -> ReadType]]
         /\ \A p \in Pda : reads'[w][p] = NoRead
         /\ \A p : p \in todo'[w] <=> p \in expanded \/ p \in named
         /\ \A v \in Proc \ {w} : phase'[v] = phase[v] /\ todo'[v] = todo[v]
                                   /\ reads'[v] = reads[v]
  BY StoreAssumption DEF Collect, WorkType, NoRead, ReadType

LEMMA FinishClears ==
  ASSUME WorkType, NEW w \in Proc, Finish(w)
  PROVE  /\ phase' \in [Proc -> {"idle", "reading"}]
         /\ under' \in [Proc -> SUBSET Pda] /\ todo' \in [Proc -> SUBSET Pda]
         /\ reads' \in [Proc -> [Pda -> ReadType]]
         /\ \A p \in Pda : reads'[w][p] = NoRead
         /\ phase'[w] = "idle" /\ todo'[w] = {}
         /\ \A v \in Proc \ {w} : phase'[v] = phase[v] /\ todo'[v] = todo[v]
                                   /\ reads'[v] = reads[v]
  BY StoreAssumption DEF Finish, WorkType, NoRead, ReadType

\* One answer of the node.
LEMMA ReadAdds ==
  ASSUME TypeOK, NEW w \in Proc, NEW p \in Pda, NEW slot \in 0 .. MaxTx,
         ReadChain(w, p, slot)
  PROVE  /\ reads' \in [Proc -> [Pda -> ReadType]]
         /\ todo' \in [Proc -> SUBSET Pda]
         /\ slot <= Tip /\ Tip <= slot + MaxLag
         /\ reads'[w][p].slot = slot
         /\ reads'[w][p].state # "unread"
         /\ reads'[w][p].state = StateAt(p, slot)
              \/ (reads'[w][p].state = "unreadable" /\ p \in Unreadable)
         /\ \A v \in Proc, q \in Pda :
              (v = w /\ q = p) \/ (reads'[v][q] = reads[v][q] /\ (q \in todo'[v] <=> q \in todo[v]))
<1>1. StateAt(p, slot) \in {"closed", "live", "dead"}
  BY DEF StateAt, ReadChain, TypeOK, ChainType, Tip
<1>2. QED
  BY <1>1, StoreAssumption DEF ReadChain, TypeOK, WorkType, ReadType

\* A commit applies each read to its row.
LEMMA ApplyTypes ==
  ASSUME TypeOK, NEW w \in Proc, ApplyReads(w)
  PROVE  /\ row' \in [Pda -> RowType]
         /\ \A p \in Pda : row'[p] = Applied(row[p], reads[w][p])
         /\ \A p \in Pda : row[p] \in RowType /\ reads[w][p] \in ReadType
<1>1. \A p \in Pda : row[p] \in RowType /\ reads[w][p] \in ReadType
  BY DEF TypeOK, TableType, WorkType, RowType, ReadType
<1>2. row' = [p \in Pda |-> Applied(row[p], reads[w][p])]
  BY DEF ApplyReads
<1>3. \A p \in Pda : Applied(row[p], reads[w][p]) \in RowType
  BY <1>1, AppliedRow
<1>4. QED
  BY <1>1, <1>2, <1>3


(***************************************************************************)
(* Types.                                                                  *)
(***************************************************************************)

\* Every action keeps the tables well-typed; only commits touch them.
LEMMA TableStep ==
  ASSUME TypeOK, Reading, [Next]_vars
  PROVE  TableType'
<1> USE StoreAssumption
<1>1. Tip \in Nat /\ Tip <= Tip' /\ Tip' <= MaxTx
  BY ChainStays DEF TypeOK
<1>2. CASE UNCHANGED <<tables, written>>
  <2>1. Tip' \in Nat
    BY ChainStays DEF TypeOK, ChainType
  <2>2. QED
    BY <1>1, <1>2, <2>1 DEF tables, TypeOK, TableType, ChainType
<1>3. ASSUME NEW w \in Writer, CommitWrite(w)
      PROVE  TableType'
  <2>1. w \in Proc /\ ApplyReads(w) /\ at[w] \in 1 .. Tip /\ Tip' = Tip
    BY <1>1, <1>3 DEF CommitWrite, ApplyReads, Reading, TypeOK, WorkType, Proc, chain, Tip
  <2>2. row' \in [Pda -> RowType]
    BY <2>1, ApplyTypes
  <2>3. log[at[w]].on \in SUBSET Pda /\ under[w] \in SUBSET Pda
    BY <2>1, LogEntry DEF TypeOK, WorkType
  <2>4. feed' \subseteq (1 .. Tip) \X Pda
    BY <1>3, <2>1, <2>3 DEF CommitWrite, TypeOK, TableType
  <2>5. cursor' \in 0 .. Tip /\ written' \subseteq 1 .. Tip
    <3>1. cursor \in 0 .. Tip /\ written \subseteq 1 .. Tip
      BY DEF TypeOK, TableType
    <3>2. cursor' = (IF cursor <= at[w] THEN at[w] ELSE cursor) /\ written' = written \cup {at[w]}
      BY <1>3 DEF CommitWrite
    <3> DEFINE tip == Tip
    <3>3. at[w] \in 1 .. tip /\ tip \in Nat
      BY <1>1, <2>1
    <3>4. cursor \in 0 .. tip /\ written \subseteq 1 .. tip
      BY <3>1
    <3> HIDE DEF tip
    <3>5. cursor' \in 0 .. tip
      BY <3>2, <3>3, <3>4
    <3>6. written' \subseteq 1 .. tip
      BY <3>2, <3>3, <3>4, Zenon
    <3>7. QED
      BY <3>5, <3>6 DEF tip
  <2>6. QED
    BY <2>1, <2>2, <2>4, <2>5 DEF TableType, RowType
<1>4. CASE CommitRefresh
  <2>1. row' \in [Pda -> RowType]
    BY <1>4, ApplyTypes DEF CommitRefresh, Proc
  <2>2. QED
    BY <1>4, <2>1 DEF CommitRefresh, TypeOK, TableType, RowType, chain, Tip
<1>5. QED
  BY <1>2, <1>3, <1>4 DEF Next, vars, Land, BeginWrite, Restart, BeginRefresh, Abandon, ReadChain

\* Every action keeps what is in hand well-typed.
LEMMA WorkStep ==
  ASSUME TypeOK, Reading, ReadsTrue, [Next]_vars
  PROVE  WorkType'
<1> USE StoreAssumption
<1>1. Tip \in Nat /\ Tip <= Tip' /\ Tip' \in Nat
  BY ChainStays DEF TypeOK, ChainType
<1>2. at \in [Writer -> 1 .. Tip'  + 1] /\ seenClosed \in [Pda -> 0 .. Tip']
  BY <1>1 DEF TypeOK, WorkType
<1>3. WorkType
  BY DEF TypeOK
<1>4. CASE UNCHANGED <<work, seenClosed>>
  BY <1>2, <1>3, <1>4 DEF work, WorkType
<1>5. ASSUME NEW w \in Writer, BeginWrite(w)
      PROVE  WorkType'
  <2>1. w \in Proc /\ Held \in SUBSET Pda /\ at[w] \in 1 .. Tip
    BY <1>1, <1>5 DEF BeginWrite, Proc, Held, TypeOK, WorkType
  <2>2. PICK e \in SUBSET Pda, d \in SUBSET Pda : Collect(w, e, d)
    BY <1>5, <2>1, LogEntry DEF BeginWrite, TypeOK
  <2>3. QED
    BY <1>2, <1>3, <1>5, <2>1, <2>2, CollectStarts DEF BeginWrite, WorkType, ReadType
<1>6. ASSUME NEW due \in SUBSET Pda, BeginRefresh(due)
      PROVE  WorkType'
  <2>1. QED
    BY <1>2, <1>3, <1>6, CollectStarts DEF BeginRefresh, WorkType, ReadType, Proc
<1>7. ASSUME NEW w \in Proc, NEW p \in Pda, NEW slot \in 0 .. MaxTx, ReadChain(w, p, slot)
      PROVE  WorkType'
  BY <1>2, <1>3, <1>7, ReadAdds DEF ReadChain, WorkType, ReadType
<1>8. ASSUME NEW w \in Proc, ApplyReads(w)
      PROVE  seenClosed' \in [Pda -> 0 .. Tip']
  <2>1. \A p \in Pda : reads[w][p].slot \in 0 .. Tip'
    BY <1>1, <1>3 DEF ReadsTrue, WorkType
  <2>2. QED
    BY <1>2, <1>8, <2>1 DEF ApplyReads
<1>9. ASSUME NEW w \in Writer, CommitWrite(w)
      PROVE  WorkType'
  <2>1. w \in Proc /\ ApplyReads(w) /\ Finish(w) /\ at[w] \in 1 .. Tip
    BY <1>1, <1>9 DEF CommitWrite, ApplyReads, Reading, TypeOK, WorkType, Proc
  <2>2. at' \in [Writer -> 1 .. Tip' + 1]
    BY <1>1, <1>2, <1>9, <2>1 DEF CommitWrite
  <2>3. QED
    BY <1>3, <1>8, <2>1, <2>2, FinishClears DEF WorkType, ReadType
<1>10. CASE CommitRefresh
  <2>1. Notifier \in Proc /\ ApplyReads(Notifier) /\ Finish(Notifier) /\ at' = at
    BY <1>10 DEF CommitRefresh, ApplyReads, Proc
  <2>2. QED
    BY <1>2, <1>3, <1>8, <2>1, FinishClears DEF WorkType, ReadType
<1>11. ASSUME NEW w \in Proc, Abandon(w)
       PROVE  WorkType'
  BY <1>2, <1>3, <1>11, FinishClears DEF Abandon, WorkType, ReadType
<1>12. ASSUME NEW w \in Writer, Restart(w)
       PROVE  WorkType'
  <2>1. at' \in [Writer -> 1 .. Tip' + 1]
    <3> DEFINE tip == Tip
               new == Tip'
    <3>0. cursor \in 0 .. tip /\ tip \in Nat /\ new \in Nat /\ tip <= new
      BY <1>1 DEF TypeOK, TableType
    <3> HIDE DEF tip, new
    <3>1. cursor + 1 \in 1 .. new + 1
      BY <3>0
    <3> USE DEF new
    <3>2. at' = [at EXCEPT ![w] = cursor + 1]
      BY <1>12 DEF Restart
    <3>3. QED
      BY <1>2, <3>1, <3>2
  <2>2. QED
    BY <1>2, <1>3, <1>12, <2>1, FinishClears DEF Restart, WorkType, ReadType, Proc
<1>13. QED
  BY <1>4, <1>5, <1>6, <1>7, <1>9, <1>10, <1>11, <1>12 DEF Next, vars, Land


(***************************************************************************)
(* Rows and reads are true.                                                *)
(***************************************************************************)

\* Every read in hand says what the chain said; the chain never changes it.
LEMMA ReadsStep ==
  ASSUME TypeOK, ReadsTrue, [Next]_vars
  PROVE  ReadsTrue'
<1> DEFINE Then(p, s) == IF s = 0 THEN "closed" ELSE hist'[s][p]
           T(w, p) ==
             /\ reads'[w][p].slot <= Tip'
             /\ reads'[w][p].state \in {"closed", "live", "dead"} =>
                  reads'[w][p].state = Then(p, reads'[w][p].slot)
             /\ reads'[w][p].state = "unreadable" => p \in Unreadable
<1>1. /\ Tip \in Nat /\ Tip' \in Nat /\ Tip <= Tip'
      /\ \A p \in Pda, s \in 0 .. Tip : Then(p, s) = StateAt(p, s)
  BY ChainStays DEF TypeOK, ChainType, StateAt
<1>2. \A w \in Proc, p \in Pda : reads[w][p].slot \in 0 .. Tip
  BY <1>1 DEF ReadsTrue, TypeOK, WorkType
<1>3. ASSUME NEW w \in Proc, NEW p \in Pda, reads'[w][p] = reads[w][p]
      PROVE  T(w, p)
  BY <1>1, <1>2, <1>3 DEF ReadsTrue
<1>4. ASSUME NEW w \in Proc, NEW p \in Pda, reads'[w][p] = NoRead
      PROVE  T(w, p)
  BY <1>1, <1>4 DEF NoRead
<1>5. ASSUME NEW w \in Proc, NEW p \in Pda, NEW slot \in 0 .. MaxTx, ReadChain(w, p, slot)
      PROVE  T(w, p)
  <2>1. /\ slot \in 0 .. Tip /\ reads'[w][p].slot = slot
        /\ reads'[w][p].state = StateAt(p, slot)
             \/ (reads'[w][p].state = "unreadable" /\ p \in Unreadable)
    BY <1>1, <1>5, ReadAdds
  <2>2. StateAt(p, slot)' = StateAt(p, slot) /\ StateAt(p, slot) # "unreadable"
    BY <1>1, <2>1 DEF StateAt, TypeOK, ChainType, Tip
  <2>3. QED
    BY <1>1, <2>1, <2>2
<1> HIDE DEF T, Then
<1>6. ASSUME NEW w \in Proc,
             \A v \in Proc \ {w} : reads'[v] = reads[v],
             \A p \in Pda : reads'[w][p] = NoRead
      PROVE  \A v \in Proc, p \in Pda : T(v, p)
  BY <1>3, <1>4, <1>6
<1>7. \A v \in Proc, p \in Pda : T(v, p)
  <2>1. WorkType
    BY DEF TypeOK
  <2>2. CASE UNCHANGED reads
    BY <1>3, <2>2
  <2>3. ASSUME NEW w \in Writer, BeginWrite(w)
        PROVE  \A v \in Proc, p \in Pda : T(v, p)
    <3>1. w \in Proc /\ Held \in SUBSET Pda /\ at[w] \in 1 .. Tip
      BY <1>1, <2>3 DEF BeginWrite, Proc, Held, TypeOK, WorkType
    <3>2. PICK e \in SUBSET Pda, d \in SUBSET Pda : Collect(w, e, d)
      BY <2>3, <3>1, LogEntry DEF BeginWrite, TypeOK
    <3>3. QED
      BY <1>6, <2>1, <3>1, <3>2, CollectStarts
  <2>4. ASSUME NEW due \in SUBSET Pda, BeginRefresh(due)
        PROVE  \A v \in Proc, p \in Pda : T(v, p)
    <3>1. Notifier \in Proc /\ Collect(Notifier, {}, due)
      BY <2>4 DEF BeginRefresh, Proc
    <3>2. QED
      BY <1>6, <2>1, <3>1, CollectStarts
  <2>5. ASSUME NEW w \in Proc, NEW p \in Pda, NEW slot \in 0 .. MaxTx, ReadChain(w, p, slot)
        PROVE  \A v \in Proc, q \in Pda : T(v, q)
    BY <1>3, <1>5, <2>5, ReadAdds
  <2>6. ASSUME NEW w \in Proc, Finish(w)
        PROVE  \A v \in Proc, p \in Pda : T(v, p)
    BY <1>6, <2>1, <2>6, FinishClears
  <2>7. QED
    BY <2>2, <2>3, <2>4, <2>5, <2>6
    DEF Next, vars, work, Land, CommitWrite, CommitRefresh, ApplyReads, Abandon, Restart, Proc
<1>8. QED
  BY <1>7 DEF ReadsTrue, T, Then, StateAt

\* A commit writes into a row what its read says, or leaves it; nothing else writes rows.
LEMMA RowsStep ==
  ASSUME TypeOK, ReadsTrue, RowsTrue, [Next]_vars
  PROVE  RowsTrue'
<1> DEFINE Then(p, s) == IF s = 0 THEN "closed" ELSE hist'[s][p]
           T(p) == /\ row'[p].slot <= Tip'
                   /\ row'[p].status # "none" =>
                        row'[p].status = StatusOf(Then(p, row'[p].slot))
<1>1. /\ Tip \in Nat /\ Tip' \in Nat /\ Tip <= Tip'
      /\ \A p \in Pda, s \in 0 .. Tip : Then(p, s) = StateAt(p, s)
  BY ChainStays DEF TypeOK, ChainType, StateAt
<1>2. \A p \in Pda : row[p].slot \in 0 .. Tip
  BY <1>1 DEF RowsTrue, TypeOK, TableType
<1>3. ASSUME NEW p \in Pda, row'[p] = row[p]
      PROVE  T(p)
  BY <1>1, <1>2, <1>3 DEF RowsTrue, RowIsChainState
<1>4. ASSUME NEW w \in Proc, ApplyReads(w), NEW p \in Pda
      PROVE  T(p)
  <2>1. /\ row'[p] = Applied(row[p], reads[w][p])
        /\ row[p] \in RowType /\ reads[w][p] \in ReadType
    BY <1>4, ApplyTypes
  <2>2. CASE Applied(row[p], reads[w][p]) = row[p]
    BY <1>3, <2>1, <2>2
  <2>3. CASE /\ reads[w][p].state \in {"closed", "live", "dead"}
             /\ Applied(row[p], reads[w][p]).slot = reads[w][p].slot
             /\ Applied(row[p], reads[w][p]).status = StatusOf(reads[w][p].state)
    <3>1. /\ reads[w][p].slot \in 0 .. Tip
          /\ reads[w][p].state = StateAt(p, reads[w][p].slot)
      BY <1>1, <2>1, <2>3 DEF ReadsTrue, ReadType
    <3>2. QED
      BY <1>1, <2>1, <2>3, <3>1
  <2>4. QED
    BY <2>1, <2>2, <2>3, AppliedRow
<1> HIDE DEF T, Then
<1>5. \A p \in Pda : T(p)
  <2>1. CASE UNCHANGED row
    BY <1>3, <2>1
  <2>2. QED
    BY <1>4, <2>1 DEF Next, vars, tables, Land, BeginWrite, BeginRefresh, ReadChain,
                      CommitWrite, CommitRefresh, Abandon, Restart, Proc
<1>6. QED
  BY <1>5 DEF RowsTrue, RowIsChainState, T, Then, StateAt


(***************************************************************************)
(* The cursor covers.                                                      *)
(***************************************************************************)

\* An indexer commits the next of what it has behind it; one that starts again starts
\* where the cursor is, and all before that is written.
LEMMA CoverStep ==
  ASSUME TypeOK, Reading, CursorCovers, WriterCovers, [Next]_vars
  PROVE  CursorCovers' /\ WriterCovers'
<1>1. /\ Tip \in Nat /\ Tip' \in Nat /\ Tip <= Tip' /\ cursor \in 0 .. Tip
      /\ at \in [Writer -> 1 .. Tip + 1]
  BY ChainStays DEF TypeOK, ChainType, TableType, WorkType
<1>2. \A w \in Writer, i \in Nat \ {0} : i < at[w] => i \in written
  BY <1>1 DEF WriterCovers
<1>3. \A i \in Nat \ {0} : i <= cursor => i \in written
  BY <1>1 DEF CursorCovers
<1>4. CASE UNCHANGED <<cursor, at, written>>
  BY <1>1, <1>2, <1>3, <1>4 DEF CursorCovers, WriterCovers
<1>5. ASSUME NEW w \in Writer, CommitWrite(w)
      PROVE  CursorCovers' /\ WriterCovers'
  <2>1. at[w] \in Nat \ {0}
    BY <1>1
  <2>2. /\ cursor' = (IF cursor <= at[w] THEN at[w] ELSE cursor)
        /\ written' = written \cup {at[w]}
        /\ at' = [at EXCEPT ![w] = @ + 1]
    BY <1>5 DEF CommitWrite
  <2>3. \A i \in Nat \ {0} : i < at[w] + 1 => i \in written'
    BY <1>2, <2>1, <2>2
  <2>4. CursorCovers'
    BY <1>1, <1>3, <2>1, <2>2, <2>3 DEF CursorCovers
  <2>5. ASSUME NEW v \in Writer, NEW i \in Nat \ {0}, i < at'[v]
        PROVE  i \in written'
    BY <1>1, <1>2, <2>2, <2>3, <2>5
  <2>6. QED
    BY <1>1, <2>4, <2>5 DEF WriterCovers
<1>6. ASSUME NEW w \in Writer, Restart(w)
      PROVE  CursorCovers' /\ WriterCovers'
  <2>1. at' = [at EXCEPT ![w] = cursor + 1] /\ cursor' = cursor /\ written' = written
    BY <1>6 DEF Restart, tables
  <2>2. ASSUME NEW v \in Writer, NEW i \in Nat \ {0}, i < at'[v]
        PROVE  i \in written'
    BY <1>1, <1>2, <1>3, <2>1, <2>2
  <2>3. QED
    BY <1>1, <1>3, <2>1, <2>2 DEF CursorCovers, WriterCovers
<1>7. QED
  BY <1>4, <1>5, <1>6 DEF Next, vars, tables, work, Land, BeginWrite, BeginRefresh, ReadChain,
                          CommitRefresh, Abandon

(***************************************************************************)
(* The feed is complete.                                                   *)
(***************************************************************************)

\* What Reading says of one writer.
Prepared(w) ==
  phase[w] = "reading" =>
    /\ at[w] <= Tip
    /\ \A p \in Pda :
         /\ log[at[w]].kind \in Direct /\ p \in log[at[w]].on =>
              p \in todo[w] \/ reads[w][p].state # "unread"
         /\ MaxLag = 0 /\ reads[w][p].state # "unread" => at[w] <= reads[w][p].slot

\* A write reads what its transaction names, after it; no other process reads for it.
LEMMA ReadingStep ==
  ASSUME TypeOK, Reading, [Next]_vars
  PROVE  Reading'
<1>1. /\ Tip \in Nat /\ Tip' \in Nat /\ Tip <= Tip'
      /\ \A i \in 1 .. Tip : log'[i] = log[i]
      /\ WorkType /\ at \in [Writer -> 1 .. Tip + 1]
  BY ChainStays DEF TypeOK, ChainType, WorkType
<1>2. \A w \in Writer : Prepared(w) /\ w \in Proc /\ w # Notifier
  BY StoreAssumption DEF Reading, Prepared, Proc
<1>3. ASSUME NEW w \in Writer, phase'[w] = phase[w], todo'[w] = todo[w], reads'[w] = reads[w],
             at'[w] = at[w]
      PROVE  Prepared(w)'
  <2>1. phase[w] = "reading" => at[w] \in 1 .. Tip /\ log'[at[w]] = log[at[w]] /\ at[w] <= Tip'
    BY <1>1, <1>2 DEF Prepared
  <2>2. QED
    BY <1>2, <1>3, <2>1 DEF Prepared
<1>4. ASSUME NEW w \in Writer, phase'[w] = "idle"
      PROVE  Prepared(w)'
  BY <1>4 DEF Prepared
<1>5. ASSUME NEW w \in Writer, BeginWrite(w), NEW v \in Writer
      PROVE  Prepared(v)'
  <2>1. w \in Proc /\ Held \in SUBSET Pda /\ at[w] \in 1 .. Tip /\ at' = at /\ log' = log
    BY <1>1, <1>5 DEF BeginWrite, Proc, Held, chain
  <2>2. log[at[w]].on \in SUBSET Pda
    BY <2>1, LogEntry DEF TypeOK
  <2>3. PICK e \in SUBSET Pda, d \in SUBSET Pda :
          Collect(w, e, d) /\ (log[at[w]].kind \in Direct => d = log[at[w]].on)
    BY <1>5, <2>1, <2>2 DEF BeginWrite
  <2>4. /\ \A p \in Pda : reads'[w][p] = NoRead
        /\ \A p \in d : p \in todo'[w]
        /\ \A u \in Proc \ {w} : phase'[u] = phase[u] /\ todo'[u] = todo[u]
                                  /\ reads'[u] = reads[u]
    BY <1>1, <2>1, <2>3, CollectStarts
  <2>5. CASE v = w
    BY <1>1, <2>1, <2>3, <2>4, <2>5 DEF Prepared, NoRead
  <2>6. CASE v # w
    BY <1>2, <1>3, <2>1, <2>4, <2>6
  <2>7. QED
    BY <2>5, <2>6
<1>6. ASSUME NEW due \in SUBSET Pda, BeginRefresh(due), NEW v \in Writer
      PROVE  Prepared(v)'
  <2>1. Notifier \in Proc /\ Collect(Notifier, {}, due) /\ at' = at
    BY <1>6 DEF BeginRefresh, Proc
  <2>2. phase'[v] = phase[v] /\ todo'[v] = todo[v] /\ reads'[v] = reads[v]
    BY <1>1, <1>2, <2>1, CollectStarts
  <2>3. QED
    BY <1>3, <2>1, <2>2
<1>7. ASSUME NEW w \in Proc, NEW p \in Pda, NEW slot \in 0 .. MaxTx, ReadChain(w, p, slot),
             NEW v \in Writer
      PROVE  Prepared(v)'
  <2>1. phase' = phase /\ at' = at /\ log' = log /\ Tip' = Tip
    BY <1>7 DEF ReadChain, chain, Tip
  <2>2. /\ slot <= Tip /\ Tip <= slot + MaxLag
        /\ reads'[w][p].slot = slot /\ reads'[w][p].state # "unread"
        /\ \A u \in Proc, q \in Pda :
             (u = w /\ q = p) \/ (reads'[u][q] = reads[u][q] /\ (q \in todo'[u] <=> q \in todo[u]))
    BY <1>7, ReadAdds
  <2>3. SUFFICES ASSUME phase[v] = "reading"
                 PROVE  Prepared(v)'
    BY <2>1 DEF Prepared
  <2>4. at[v] \in 1 .. Tip
    BY <1>1, <1>2, <2>3 DEF Prepared
  <2>5. ASSUME NEW q \in Pda
        PROVE  /\ log[at[v]].kind \in Direct /\ q \in log[at[v]].on =>
                    q \in todo'[v] \/ reads'[v][q].state # "unread"
               /\ MaxLag = 0 /\ reads'[v][q].state # "unread" => at[v] <= reads'[v][q].slot
    <3>1. CASE v = w /\ q = p
      BY <1>1, <2>2, <2>4, <3>1
    <3>2. CASE ~(v = w /\ q = p)
      BY <1>2, <2>2, <2>3, <3>2 DEF Prepared
    <3>3. QED
      BY <3>1, <3>2
  <2>6. QED
    BY <2>1, <2>4, <2>5 DEF Prepared
<1>8. ASSUME NEW w \in Proc, Finish(w), NEW v \in Writer, v = w \/ at'[v] = at[v]
      PROVE  Prepared(v)'
  BY <1>1, <1>2, <1>3, <1>4, <1>8, FinishClears
<1>9. \A v \in Writer : Prepared(v)'
  <2>1. CASE UNCHANGED work
    BY <1>3, <2>1 DEF work
  <2>2. ASSUME NEW w \in Writer, CommitWrite(w) \/ Restart(w), NEW v \in Writer
        PROVE  Prepared(v)'
    <3>1. Finish(w) /\ (v = w \/ at'[v] = at[v])
      BY <1>1, <2>2 DEF CommitWrite, Restart, ApplyReads
    <3>2. QED
      BY <1>2, <1>8, <3>1
  <2>3. ASSUME NEW w \in Proc, Abandon(w) \/ (w = Notifier /\ CommitRefresh), NEW v \in Writer
        PROVE  Prepared(v)'
    BY <1>8, <2>3 DEF Abandon, CommitRefresh, ApplyReads
  <2>4. QED
    BY <1>5, <1>6, <1>7, <2>1, <2>2, <2>3 DEF Next, vars, Land, Proc
<1>10. QED
  BY <1>9 DEF Reading, Prepared

\* A direct permission a commit leaves out of the feed has no row, so its read found it
\* closed, at a slot no older than the transaction, or unreadable.
LEMMA FedStep ==
  ASSUME TypeOK, ReadsTrue, Reading, Fed, MaxLag = 0, [Next]_vars
  PROVE  Fed'
<1> DEFINE Then(p, s) == IF s = 0 THEN "closed" ELSE hist'[s][p]
           T(i, p) == p \in Unreadable \/ \E s \in i .. Tip' : Then(p, s) = "closed"
<1>1. /\ Tip \in Nat /\ Tip' \in Nat /\ Tip <= Tip'
      /\ \A i \in 1 .. Tip : log'[i] = log[i]
      /\ \A p \in Pda, s \in 0 .. Tip : Then(p, s) = StateAt(p, s)
  <2>1. Tip \in Nat /\ Tip <= Tip' /\ \A i \in 1 .. Tip : log'[i] = log[i]
    BY ChainStays DEF TypeOK
  <2>2. Tip' \in Nat /\ \A p \in Pda, s \in 0 .. Tip : Then(p, s) = StateAt(p, s)
    BY ChainStays DEF TypeOK, ChainType, StateAt
  <2>3. QED
    BY <2>1, <2>2
<1>2. written \subseteq 1 .. Tip
  BY DEF TypeOK, TableType
<1>3. ASSUME NEW i \in written, NEW p \in Pda, log'[i].kind \in Direct, p \in log'[i].on,
             <<i, p>> \notin feed
      PROVE  T(i, p)
  <2>1. i \in 1 .. Tip /\ log'[i] = log[i]
    BY <1>1, <1>2
  <2>2. p \in Unreadable \/ \E s \in i .. Tip : StateAt(p, s) = "closed"
    BY <1>3, <2>1 DEF Fed
  <2>3. \A s \in i .. Tip : s \in i .. Tip' /\ Then(p, s) = StateAt(p, s)
    BY <1>1, <2>1
  <2>4. QED
    BY <2>2, <2>3
<1>4. ASSUME NEW w \in Writer, CommitWrite(w), NEW p \in Pda,
             log[at[w]].kind \in Direct, p \in log[at[w]].on, <<at[w], p>> \notin feed'
      PROVE  T(at[w], p)
  <2>1. /\ w \in Proc /\ ApplyReads(w) /\ phase[w] = "reading" /\ todo[w] = {}
        /\ at[w] \in 1 .. Tip
    BY <1>1, <1>4 DEF CommitWrite, ApplyReads, Reading, TypeOK, WorkType, Proc
  <2>2. reads[w][p].state # "unread" /\ at[w] <= reads[w][p].slot
    BY <1>4, <2>1 DEF Reading
  <2>3. row'[p].status = "none"
    BY <1>4 DEF CommitWrite
  <2>4. /\ row'[p] = Applied(row[p], reads[w][p])
        /\ row[p] \in RowType /\ reads[w][p] \in ReadType
    BY <2>1, ApplyTypes
  <2>5. reads[w][p].state \notin {"live", "dead"}
    BY <2>3, <2>4, AppliedRow
  <2>6. CASE reads[w][p].state = "unreadable"
    BY <2>1, <2>6 DEF ReadsTrue
  <2>7. CASE reads[w][p].state = "closed"
    <3> DEFINE slot == reads[w][p].slot
    <3>1. slot \in 0 .. Tip /\ slot \in at[w] .. Tip' /\ StateAt(p, slot) = "closed"
      BY <1>1, <2>1, <2>2, <2>4, <2>7 DEF ReadsTrue, ReadType
    <3>2. Then(p, slot) = "closed"
      BY <1>1, <3>1
    <3>3. QED
      BY <3>1, <3>2
  <2>8. QED
    BY <2>2, <2>4, <2>5, <2>6, <2>7 DEF ReadType
<1> HIDE DEF T
<1>5. ASSUME NEW i \in written', NEW p \in Pda, log'[i].kind \in Direct, p \in log'[i].on,
             <<i, p>> \notin feed'
      PROVE  T(i, p)
  <2>1. CASE UNCHANGED <<feed, written>>
    BY <1>3, <1>5, <2>1
  <2>2. ASSUME NEW w \in Writer, CommitWrite(w)
        PROVE  T(i, p)
    <3>1. written' = written \cup {at[w]} /\ log' = log
      BY <2>2 DEF CommitWrite, chain
    <3>2. feed \subseteq feed'
      BY <2>2 DEF CommitWrite
    <3>3. QED
      BY <1>3, <1>4, <1>5, <2>2, <3>1, <3>2
  <2>3. QED
    BY <2>1, <2>2 DEF Next, vars, tables, Land, BeginWrite, BeginRefresh, ReadChain,
                      CommitRefresh, Abandon, Restart
<1>6. QED
  BY <1>5 DEF Fed, T, StateAt

(***************************************************************************)
(* The cache follows: one indexer, on a node that is never behind.         *)
(***************************************************************************)

\* A landing turns only permissions it names, and live ones whose authority it closes.
LEMMA LandTurns ==
  ASSUME ChainType, NEW kind \in Kind, NEW on \in SUBSET Pda, Land(kind, on)
  PROVE  /\ log'[Tip + 1] = [kind |-> kind, on |-> on]
         /\ \A p \in Pda : StatusOf(hist'[Tip + 1][p]) # StatusOf(StateAt(p, Tip)) =>
              \/ kind \in Direct /\ p \in on
              \/ kind = "authority" /\ StateAt(p, Tip) = "live"
<1> DEFINE acc == [p \in Pda |->
             IF p \notin on THEN StateAt(p, Tip)
             ELSE CASE kind = "create" -> "live"
                    [] kind = "revoke" -> "closed"
                    [] kind = "authority" /\ StateAt(p, Tip) = "live" -> "dead"
                    [] OTHER -> StateAt(p, Tip)]
<1>1. log' = Append(log, [kind |-> kind, on |-> on]) /\ hist' = Append(hist, acc)
  BY DEF Land
<1>2. \A p \in Pda : acc[p] # StateAt(p, Tip) =>
        \/ kind \in Direct /\ p \in on
        \/ kind = "authority" /\ StateAt(p, Tip) = "live"
  BY DEF Direct
<1> HIDE DEF acc
<1>3. log'[Tip + 1] = [kind |-> kind, on |-> on] /\ hist'[Tip + 1] = acc
  BY <1>1 DEF ChainType, Tip
<1>4. QED
  BY <1>2, <1>3

LEMMA TurnsStep ==
  ASSUME ChainType, TurnsAreNamed, [Next]_vars
  PROVE  TurnsAreNamed'
<1> DEFINE Then(p, s) == IF s = 0 THEN "closed" ELSE hist'[s][p]
           T(p, i) == StatusOf(Then(p, i)) # StatusOf(Then(p, i - 1)) =>
             \/ log'[i].kind \in Direct /\ p \in log'[i].on
             \/ log'[i].kind = "authority" /\ Then(p, i - 1) = "live"
<1>1. CASE UNCHANGED chain
  BY <1>1 DEF chain, TurnsAreNamed, Tip, StateAt
<1>2. ASSUME NEW kind \in Kind, NEW on \in SUBSET Pda, Land(kind, on)
      PROVE  TurnsAreNamed'
  <2>1. /\ Tip \in Nat /\ Tip' = Tip + 1
        /\ \A i \in 1 .. Tip : log'[i] = log[i]
        /\ \A p \in Pda, s \in 0 .. Tip : Then(p, s) = StateAt(p, s)
    BY <1>2, LandGrows, ChainStays DEF StateAt
  <2>2. ASSUME NEW p \in Pda, NEW i \in 1 .. Tip
        PROVE  T(p, i)
    <3>1. /\ log'[i] = log[i] /\ i - 1 \in 0 .. Tip
          /\ Then(p, i) = StateAt(p, i) /\ Then(p, i - 1) = StateAt(p, i - 1)
      BY <2>1
    <3> HIDE DEF Then
    <3>2. QED
      BY <3>1 DEF TurnsAreNamed
  <2>3. ASSUME NEW p \in Pda, NEW i \in {Tip + 1}
        PROVE  T(p, i)
    <3>1. Then(p, i) = hist'[i][p] /\ Then(p, i - 1) = StateAt(p, Tip) /\ i = Tip + 1
      BY <2>1
    <3>2. /\ log'[i] = [kind |-> kind, on |-> on]
          /\ StatusOf(hist'[i][p]) # StatusOf(StateAt(p, Tip)) =>
               \/ kind \in Direct /\ p \in on
               \/ kind = "authority" /\ StateAt(p, Tip) = "live"
      BY <1>2, <3>1, LandTurns
    <3> HIDE DEF Then
    <3>3. QED
      BY <3>1, <3>2
  <2> HIDE DEF Then
  <2>4. \A i \in 1 .. Tip + 1, p \in Pda : T(p, i)
    BY <2>1, <2>2, <2>3
  <2>5. QED
    BY <2>1, <2>4 DEF TurnsAreNamed, StateAt, Then
<1>3. QED
  BY <1>1, <1>2 DEF Next, vars, BeginWrite, CommitWrite, Restart, BeginRefresh, CommitRefresh,
                    Abandon, ReadChain

\* One indexer has behind it what the cursor covers.
LEMMA NextStep ==
  ASSUME TypeOK, NextIsNext, NEW w, Writer = {w}, [Next]_vars
  PROVE  NextIsNext'
<1>1. cursor \in Nat /\ at \in [Writer -> Nat] /\ at[w] = cursor + 1
  BY DEF TypeOK, TableType, WorkType, ChainType, NextIsNext
<1>2. CASE CommitWrite(w)
  BY <1>1, <1>2 DEF CommitWrite, NextIsNext
<1>3. CASE Restart(w)
  BY <1>1, <1>3 DEF Restart, tables, NextIsNext
<1>4. CASE UNCHANGED <<cursor, at>>
  BY <1>4 DEF NextIsNext
<1>5. QED
  BY <1>2, <1>3, <1>4 DEF Next, vars, tables, work, Land, BeginWrite, BeginRefresh, ReadChain,
                          CommitRefresh, Abandon

\* A commit of a process finds the rows as they were, or puts into a row what it read.
LEMMA CommitRow ==
  ASSUME TypeOK, ReadsTrue, NEW v \in Proc, ApplyReads(v), NEW p \in Pda
  PROVE  /\ row[p] \in RowType /\ row'[p] \in RowType
         /\ reads[v][p] \in ReadType /\ reads[v][p].slot \in 0 .. Tip
         /\ reads[v][p].state = "unread" => row'[p] = row[p]
         /\ reads[v][p].state \notin {"unread", "unreadable"} /\ row'[p].status # "none" =>
              reads[v][p].slot <= row'[p].slot
         /\ row[p].status # "none" => row'[p].status # "none" /\ row[p].slot <= row'[p].slot
         /\ \/ row'[p] = row[p]
            \/ /\ row'[p].slot = reads[v][p].slot
               /\ row'[p].status = StatusOf(StateAt(p, reads[v][p].slot))
         /\ \/ seenClosed'[p] = seenClosed[p]
            \/ reads[v][p].state = "closed" /\ seenClosed'[p] = reads[v][p].slot
<1>1. /\ row'[p] = Applied(row[p], reads[v][p]) /\ row'[p] \in RowType
      /\ row[p] \in RowType /\ reads[v][p] \in ReadType
  BY ApplyTypes
<1>2. /\ reads[v][p].slot \in 0 .. Tip
      /\ reads[v][p].state \in {"closed", "live", "dead"} =>
           reads[v][p].state = StateAt(p, reads[v][p].slot)
  BY <1>1 DEF ReadsTrue, ReadType
<1>3. \/ seenClosed'[p] = seenClosed[p]
      \/ reads[v][p].state = "closed" /\ seenClosed'[p] = reads[v][p].slot
  BY DEF ApplyReads
<1>4. QED
  BY <1>1, <1>2, <1>3, AppliedRow DEF ReadType

\* A row whose process read nothing newer, or read it up to the cursor, keeps what held of it.
LEMMA CommitFollows ==
  ASSUME SInv, FInv, NEW w, Writer = {w}, NEW v \in Proc, ApplyReads(v),
         NEW p \in Pda \ Unreadable, row'[p].status # "none",
         v = Notifier \/ row'[p] = row[p]
  PROVE  /\ \A s \in row'[p].slot .. cursor : row'[p].status = StatusOf(StateAt(p, s))
         /\ row[p].status # "none" /\ row[p].slot <= row'[p].slot
         /\ row'[p].status = row[p].status \/ cursor < row'[p].slot
<1> USE DEF SInv, FInv
<1>1. /\ Tip \in Nat /\ cursor \in 0 .. Tip
      /\ row[p] \in RowType /\ row'[p] \in RowType
      /\ reads[v][p] \in ReadType /\ reads[v][p].slot \in 0 .. Tip
      /\ reads[v][p].state = "unread" => row'[p] = row[p]
      /\ row[p].status # "none" => row[p].slot <= row'[p].slot
      /\ \/ row'[p] = row[p]
         \/ /\ row'[p].slot = reads[v][p].slot
            /\ row'[p].status = StatusOf(StateAt(p, reads[v][p].slot))
  BY CommitRow DEF TypeOK, ChainType, TableType
<1>2. row[p].status # "none"
  BY <1>1 DEF SeenCovered
<1>3. \A s \in row[p].slot .. cursor : row[p].status = StatusOf(StateAt(p, s))
  BY <1>2 DEF RowsFollow
<1>4. CASE row'[p] = row[p]
  BY <1>1, <1>2, <1>3, <1>4 DEF RowType
<1>5. CASE /\ row'[p].slot = reads[v][p].slot
           /\ row'[p].status = StatusOf(StateAt(p, reads[v][p].slot))
  <2>1. row[p].slot \in Nat /\ row'[p].slot \in Nat /\ row[p].slot <= row'[p].slot
    BY <1>1, <1>2, StoreAssumption DEF RowType
  <2>2. row'[p].slot <= cursor => row'[p].status = row[p].status
    BY <1>1, <1>3, <1>5, <2>1
  <2>3. QED
    BY <1>1, <1>2, <1>3, <2>1, <2>2
<1>6. QED
  BY <1>1, <1>4, <1>5

\* From its row's slot to the cursor a permission did not turn: what the indexer did not read
\* its transaction did not turn, and what it read it read after it. A refresh only confirms a
\* row the cursor is past.
LEMMA RowsFollowStep ==
  ASSUME SInv, FInv, MaxLag = 0, NEW w, Writer = {w}, [Next]_vars
  PROVE  RowsFollow'
<1> USE DEF SInv, FInv
<1>1. /\ Tip \in Nat /\ cursor \in 0 .. Tip /\ at[w] = cursor + 1 /\ w \in Proc /\ Notifier \in Proc
      /\ \A p \in Pda, s \in 0 .. Tip : StateAt(p, s)' = StateAt(p, s)
      /\ \A p \in Pda : row[p] \in RowType /\ row[p].slot \in 0 .. Tip
  BY ChainStays DEF TypeOK, TableType, RowType, NextIsNext, Proc, RowsTrue
<1>2. CASE UNCHANGED <<row, cursor>>
  BY <1>1, <1>2 DEF RowsFollow
<1>3. CASE CommitRefresh
  <2>1. ApplyReads(Notifier) /\ cursor' = cursor /\ \A p \in Pda : row'[p] \in RowType
    BY <1>1, <1>3, ApplyTypes DEF CommitRefresh
  <2>2. ASSUME NEW p \in Pda \ Unreadable, row'[p].status # "none",
               NEW s \in row'[p].slot .. cursor
        PROVE  row'[p].status = StatusOf(StateAt(p, s)) /\ s \in 0 .. Tip
    <3>1. row'[p].status = StatusOf(StateAt(p, s))
      BY <1>1, <2>1, <2>2, CommitFollows
    <3>2. row'[p].slot \in Nat
      BY <2>1, StoreAssumption DEF RowType
    <3>3. QED
      BY <1>1, <2>2, <3>1, <3>2
  <2>3. QED
    BY <1>1, <2>1, <2>2 DEF RowsFollow
<1>4. CASE CommitWrite(w)
  <2>1. /\ ApplyReads(w) /\ phase[w] = "reading" /\ todo[w] = {} /\ UNCHANGED chain
        /\ cursor' = cursor + 1 /\ cursor + 1 \in 1 .. Tip
    BY <1>1, <1>4 DEF CommitWrite, ApplyReads, Reading
  <2>2. \A p \in Pda :
          /\ row'[p] \in RowType /\ row'[p].slot <= Tip
          /\ row'[p].status # "none" => row'[p].status = StatusOf(StateAt(p, row'[p].slot))
    <3>1. RowsTrue' /\ \A p \in Pda : row'[p] \in RowType
      BY <1>1, <2>1, RowsStep, ApplyTypes
    <3>2. QED
      BY <2>1, <3>1 DEF RowsTrue, RowIsChainState, StateAt, Tip, chain
  <2>3. ASSUME NEW p \in Pda \ Unreadable, row'[p].status # "none",
               NEW s \in row'[p].slot .. cursor + 1
        PROVE  row'[p].status = StatusOf(StateAt(p, s)) /\ s \in 0 .. Tip
    <3>1. row'[p].slot \in Nat /\ s \in 0 .. Tip
      BY <1>1, <2>1, <2>2, <2>3, StoreAssumption DEF RowType
    <3>2. CASE s = row'[p].slot
      BY <2>2, <2>3, <3>1, <3>2
    <3>3. CASE reads[w][p].state # "unread" /\ s # row'[p].slot
      <4>1. at[w] <= reads[w][p].slot /\ reads[w][p].state # "unreadable"
        BY <1>1, <2>1, <3>3 DEF Reading, ReadsTrue
      <4>2. reads[w][p].slot <= row'[p].slot /\ reads[w][p].slot \in Nat
        BY <1>1, <2>1, <2>3, <3>3, <4>1, CommitRow DEF ReadType
      <4>3. QED
        BY <1>1, <2>1, <3>1, <3>3, <4>1, <4>2
    <3>4. CASE reads[w][p].state = "unread" /\ s # row'[p].slot
      <4>1. row'[p] = row[p]
        BY <1>1, <2>1, <3>4, CommitRow
      <4>2. row[p].slot <= cursor /\ row[p].status = StatusOf(StateAt(p, cursor))
        BY <1>1, <2>1, <2>3, <3>1, <3>4, <4>1 DEF RowsFollow
      <4>3. StatusOf(StateAt(p, cursor + 1)) = StatusOf(StateAt(p, cursor))
        <5> SUFFICES ASSUME StatusOf(StateAt(p, cursor + 1)) # StatusOf(StateAt(p, cursor))
                     PROVE  FALSE
          OBVIOUS
        <5>1. PICK j \in 1 .. Tip : j = cursor + 1 /\ j - 1 = cursor
          BY <1>1, <2>1
        <5>2. \/ log[j].kind \in Direct /\ p \in log[j].on
              \/ log[j].kind = "authority" /\ StateAt(p, j - 1) = "live"
          BY <5>1 DEF TurnsAreNamed
        <5>3. CASE log[cursor + 1].kind \in Direct /\ p \in log[cursor + 1].on
          BY <1>1, <2>1, <3>4, <5>3 DEF Reading
        <5>4. CASE log[cursor + 1].kind = "authority" /\ StateAt(p, cursor) = "live"
          <6>1. row[p].status = "active"
            BY <4>2, <5>4 DEF StatusOf
          <6>2. at[w] <= row[p].slot
            BY <1>1, <2>1, <3>4, <5>4, <6>1 DEF LiveAsked
          <6>3. QED
            BY <1>1, <4>2, <6>2
        <5>5. QED
          BY <5>1, <5>2, <5>3, <5>4
      <4>4. CASE s = cursor + 1
        BY <3>1, <4>1, <4>2, <4>3, <4>4
      <4>5. CASE s <= cursor
        BY <1>1, <2>3, <3>1, <4>1, <4>5 DEF RowsFollow
      <4>6. QED
        BY <1>1, <2>3, <3>1, <4>4, <4>5
    <3>5. QED
      BY <3>1, <3>2, <3>3, <3>4
  <2>4. QED
    BY <1>1, <2>1, <2>3 DEF RowsFollow
<1>5. QED
  BY <1>2, <1>3, <1>4 DEF Next, vars, tables, Land, BeginWrite, BeginRefresh, ReadChain, Abandon,
                          Restart

\* A write of a closed authority starts from the rows held as active; a row that a refresh
\* made active meanwhile was read after it.
LEMMA LiveAskedStep ==
  ASSUME SInv, FInv, NEW w, Writer = {w}, [Next]_vars
  PROVE  LiveAsked'
<1> USE DEF SInv, FInv
<1> DEFINE L == phase'[w] = "reading" /\ log'[at'[w]].kind = "authority" =>
                  \A p \in Pda \ Unreadable : row'[p].status = "active" =>
                    p \in todo'[w] \/ reads'[w][p].state # "unread" \/ at'[w] <= row'[p].slot
<1>1. /\ Tip \in Nat /\ w \in Proc /\ Notifier \in Proc /\ w # Notifier /\ WorkType
      /\ cursor \in Nat /\ at[w] = cursor + 1
      /\ \A i \in 1 .. Tip : log'[i] = log[i]
      /\ phase[w] = "reading" => at[w] \in 1 .. Tip
  BY ChainStays, StoreAssumption DEF TypeOK, TableType, WorkType, Proc, NextIsNext, Reading
<1>2. ASSUME phase'[w] = phase[w], at'[w] = at[w], row' = row,
             \A p \in Pda : \/ todo'[w] = todo[w] /\ reads'[w] = reads[w]
                            \/ reads'[w][p].state # "unread"
                            \/ reads'[w][p] = reads[w][p] /\ (p \in todo'[w] <=> p \in todo[w])
      PROVE  L
  <2>1. phase[w] = "reading" => log'[at[w]] = log[at[w]]
    BY <1>1
  <2>2. QED
    BY <1>2, <2>1 DEF LiveAsked
<1>3. ASSUME phase'[w] = "idle" PROVE L
  BY <1>3
<1>4. ASSUME BeginWrite(w) PROVE L
  <2>1. at[w] \in 1 .. Tip /\ at' = at /\ row' = row /\ log' = log
    BY <1>1, <1>4 DEF BeginWrite, TypeOK, WorkType, chain, tables
  <2>2. log[at[w]].kind = "authority" => todo'[w] = Held
    BY <1>1, <1>4 DEF BeginWrite, Collect, Direct, WorkType
  <2>3. QED
    BY <2>1, <2>2 DEF Held
<1>5. ASSUME NEW due \in SUBSET Pda, BeginRefresh(due) PROVE L
  <2>1. Collect(Notifier, {}, due) /\ at' = at /\ row' = row
    BY <1>5 DEF BeginRefresh, tables
  <2>2. phase'[w] = phase[w] /\ todo'[w] = todo[w] /\ reads'[w] = reads[w]
    BY <1>1, <2>1, CollectStarts
  <2>3. QED
    BY <1>2, <2>1, <2>2
<1>6. ASSUME NEW v \in Proc, NEW p \in Pda, NEW slot \in 0 .. MaxTx, ReadChain(v, p, slot)
      PROVE  L
  <2>1. phase' = phase /\ at' = at /\ row' = row
    BY <1>6 DEF ReadChain, tables
  <2>2. \A q \in Pda : \/ reads'[w][q].state # "unread"
                       \/ reads'[w][q] = reads[w][q] /\ (q \in todo'[w] <=> q \in todo[w])
    BY <1>1, <1>6, ReadAdds
  <2>3. QED
    BY <1>2, <2>1, <2>2
<1>7. ASSUME CommitRefresh PROVE L
  <2>1. ApplyReads(Notifier) /\ at' = at /\ log' = log
    BY <1>7 DEF CommitRefresh, chain
  <2>2. phase'[w] = phase[w] /\ todo'[w] = todo[w] /\ reads'[w] = reads[w]
    BY <1>1, <2>1, FinishClears DEF ApplyReads
  <2>3. ASSUME NEW p \in Pda \ Unreadable, row'[p].status = "active"
        PROVE  \/ row[p].status = "active" /\ row[p].slot <= row'[p].slot
               \/ cursor < row'[p].slot
    BY <1>1, <2>1, <2>3, CommitFollows
  <2>4. \A p \in Pda : row[p].slot \in Nat /\ row'[p].slot \in Nat
    BY <1>1, <2>1, ApplyTypes, StoreAssumption DEF RowType
  <2>5. ASSUME phase[w] = "reading", log[at[w]].kind = "authority",
               NEW p \in Pda \ Unreadable, row'[p].status = "active"
        PROVE  p \in todo[w] \/ reads[w][p].state # "unread" \/ at[w] <= row'[p].slot
    <3>1. CASE row[p].status = "active" /\ row[p].slot <= row'[p].slot
      <4>1. p \in todo[w] \/ reads[w][p].state # "unread" \/ at[w] <= row[p].slot
        BY <2>5, <3>1 DEF LiveAsked
      <4>2. QED
        BY <1>1, <2>4, <3>1, <4>1
    <3>2. CASE cursor < row'[p].slot
      BY <1>1, <2>4, <3>2
    <3>3. QED
      BY <2>3, <2>5, <3>1, <3>2
  <2>6. QED
    BY <2>1, <2>2, <2>5
<1>8. ASSUME NEW v \in Proc, Abandon(v) PROVE L
  <2>1. Finish(v) /\ at' = at /\ row' = row
    BY <1>8 DEF Abandon, tables
  <2>2. CASE v = w
    BY <1>1, <1>3, <2>1, <2>2, FinishClears
  <2>3. CASE v # w
    <3>1. phase'[w] = phase[w] /\ todo'[w] = todo[w] /\ reads'[w] = reads[w]
      BY <1>1, <2>1, <2>3, FinishClears
    <3>2. QED
      BY <1>2, <2>1, <3>1
  <2>4. QED
    BY <2>2, <2>3
<1>9. ASSUME CommitWrite(w) \/ Restart(w) PROVE L
  <2>1. Finish(w)
    BY <1>9 DEF CommitWrite, Restart, ApplyReads
  <2>2. QED
    BY <1>1, <1>3, <2>1, FinishClears
<1>10. ASSUME UNCHANGED <<work, row>> PROVE L
  BY <1>2, <1>10 DEF work
<1> HIDE DEF L
<1>11. L
  BY <1>4, <1>5, <1>6, <1>7, <1>8, <1>9, <1>10 DEF Next, vars, tables, Land
<1>12. QED
  BY <1>11 DEF LiveAsked, L

\* A closing that was seen is no newer than the row, or than the read a row will come from:
\* the node is never behind, and only the indexer makes rows.
LEMMA SeenStep ==
  ASSUME SInv, FInv, MaxLag = 0, NEW w, Writer = {w}, [Next]_vars
  PROVE  SeenCovered'
<1> USE DEF SInv, FInv
<1> DEFINE C(p) ==
      /\ row'[p].status # "none" => seenClosed'[p] <= row'[p].slot
      /\ row'[p].status = "none" =>
           /\ p \notin todo'[Notifier] /\ reads'[Notifier][p].state = "unread"
           /\ reads'[w][p].state # "unread" => seenClosed'[p] <= reads'[w][p].slot
<1>1. /\ Tip \in Nat /\ w \in Proc /\ Notifier \in Proc /\ w # Notifier /\ WorkType
      /\ seenClosed \in [Pda -> 0 .. Tip]
      /\ \A p \in Pda : row[p] \in RowType /\ row[p].slot \in Nat /\ seenClosed[p] \in 0 .. Tip
  BY ChainStays, StoreAssumption DEF TypeOK, TableType, WorkType, Proc, RowType
<1>2. ASSUME NEW p \in Pda
      PROVE  /\ row[p].status # "none" => seenClosed[p] <= row[p].slot
             /\ row[p].status = "none" =>
                  /\ p \notin todo[Notifier] /\ reads[Notifier][p].state = "unread"
                  /\ reads[w][p].state # "unread" => seenClosed[p] <= reads[w][p].slot
  BY DEF SeenCovered
<1>3. ASSUME UNCHANGED <<work, row, seenClosed>>, NEW p \in Pda
      PROVE  C(p)
  BY <1>2, <1>3 DEF work
<1>4. ASSUME NEW v \in Proc, Finish(v), UNCHANGED <<row, seenClosed>>, NEW p \in Pda
      PROVE  C(p)
  BY <1>1, <1>2, <1>4, FinishClears DEF NoRead
<1>5. ASSUME BeginWrite(w), NEW p \in Pda
      PROVE  C(p)
  <2>1. at[w] \in 1 .. Tip /\ row' = row /\ seenClosed' = seenClosed /\ Held \in SUBSET Pda
    BY <1>1, <1>5 DEF BeginWrite, WorkType, tables, Held
  <2>2. PICK e \in SUBSET Pda, d \in SUBSET Pda : Collect(w, e, d)
    BY <1>5, <2>1, LogEntry DEF BeginWrite, TypeOK
  <2>3. /\ reads'[w][p] = NoRead
        /\ todo'[Notifier] = todo[Notifier] /\ reads'[Notifier] = reads[Notifier]
    BY <1>1, <2>2, CollectStarts
  <2>4. QED
    BY <1>2, <2>1, <2>3 DEF NoRead
<1>6. ASSUME NEW due \in SUBSET Pda, BeginRefresh(due), NEW p \in Pda
      PROVE  C(p)
  <2>1. Collect(Notifier, {}, due) /\ row' = row /\ seenClosed' = seenClosed /\ due \subseteq Held
    BY <1>6 DEF BeginRefresh, tables
  <2>2. /\ reads'[Notifier][p] = NoRead /\ reads'[w] = reads[w]
        /\ \A q : q \in todo'[Notifier] <=> q \in {} \/ q \in due
    <3>1. {} \in SUBSET Pda
      OBVIOUS
    <3>2. reads' \in [Proc -> [Pda -> ReadType]] /\ \A q \in Pda : reads'[Notifier][q] = NoRead
      BY <1>1, <2>1, <3>1, CollectStarts
    <3>3. todo'[Notifier] = {} \cup due
      BY <1>1, <2>1 DEF Collect, WorkType
    <3>4. reads'[w] = reads[w]
      BY <1>1, <2>1, <3>1, CollectStarts
    <3>5. QED
      BY <3>2, <3>3, <3>4
  <2>3. p \in due => row[p].status # "none"
    BY <2>1 DEF Held
  <2>4. QED
    BY <1>2, <2>1, <2>2, <2>3 DEF NoRead
<1>7. ASSUME NEW v \in Proc, NEW q \in Pda, NEW slot \in 0 .. MaxTx, ReadChain(v, q, slot),
             NEW p \in Pda
      PROVE  C(p)
  <2>1. row' = row /\ seenClosed' = seenClosed /\ q \in todo[v]
    BY <1>7 DEF ReadChain, tables
  <2>2. /\ slot <= Tip /\ Tip <= slot + MaxLag /\ reads'[v][q].slot = slot
        /\ \A u \in Proc, r \in Pda :
             (u = v /\ r = q) \/ (reads'[u][r] = reads[u][r] /\ (r \in todo'[u] <=> r \in todo[u]))
    BY <1>7, ReadAdds
  <2>3. v = w => seenClosed[q] <= reads'[w][q].slot
    BY <1>1, <2>2
  <2>4. v = Notifier => row[q].status # "none"
    BY <1>2, <2>1
  <2>5. QED
    BY <1>1, <1>2, <2>1, <2>2, <2>3, <2>4
<1>8. ASSUME NEW v \in Proc, ApplyReads(v), NEW p \in Pda
      PROVE  C(p)
  <2>1. /\ row'[p] \in RowType /\ reads[v][p] \in ReadType /\ reads[v][p].slot \in 0 .. Tip
        /\ reads[v][p].state = "unread" => row'[p] = row[p]
        /\ reads[v][p].state \notin {"unread", "unreadable"} /\ row'[p].status # "none" =>
              reads[v][p].slot <= row'[p].slot
        /\ row[p].status # "none" => row'[p].status # "none" /\ row[p].slot <= row'[p].slot
        /\ row'[p] = row[p] \/ row'[p].slot = reads[v][p].slot
        /\ \/ seenClosed'[p] = seenClosed[p]
           \/ reads[v][p].state = "closed" /\ seenClosed'[p] = reads[v][p].slot
    BY <1>8, CommitRow
  <2>2. /\ todo'[v] = {} /\ reads'[v][p] = NoRead
        /\ \A u \in Proc \ {v} : todo'[u] = todo[u] /\ reads'[u] = reads[u]
    BY <1>1, <1>8, FinishClears DEF ApplyReads
  <2>3. v = w \/ v = Notifier
    BY DEF Proc
  <2>4. row'[p].slot \in Nat /\ seenClosed[p] \in Nat /\ reads[v][p].slot \in Nat
    BY <1>1, <2>1, StoreAssumption DEF RowType
  <2>5. CASE row[p].status # "none"
    BY <1>1, <1>2, <2>1, <2>4, <2>5
  <2>6. CASE row[p].status = "none" /\ v = Notifier
    BY <1>1, <1>2, <2>1, <2>2, <2>6 DEF NoRead
  <2>7. CASE row[p].status = "none" /\ v = w /\ row'[p].status = "none"
    BY <1>1, <1>2, <2>2, <2>7 DEF NoRead
  <2>8. CASE row[p].status = "none" /\ v = w /\ row'[p].status # "none"
    <3>1. reads[w][p].state # "unread" /\ row'[p].slot = reads[w][p].slot
      BY <2>1, <2>8
    <3>2. seenClosed[p] <= reads[w][p].slot
      BY <1>2, <2>8, <3>1
    <3>3. QED
      BY <2>1, <2>4, <2>8, <3>1, <3>2
  <2>9. QED
    BY <2>3, <2>5, <2>6, <2>7, <2>8
<1> HIDE DEF C
<1>9. \A p \in Pda : C(p)
  BY <1>3, <1>4, <1>5, <1>6, <1>7, <1>8 DEF C, Next, vars, tables, Land, CommitWrite, Restart,
    CommitRefresh, Abandon, Proc
<1>10. QED
  BY <1>9 DEF SeenCovered, C

\* Caught up, the cursor is the end of the history, and no permission turned since its row.
LEMMA FollowsEnd ==
  ASSUME SInv, FInv, NEW w, Writer = {w}
  PROVE  CacheFollows
<1>1. Tip \in Nat /\ cursor \in 0 .. Tip /\ TableType
  BY DEF SInv, TypeOK, ChainType, TableType, Tip
<1>2. (\A v \in Writer : at[v] = Tip + 1) => cursor = Tip
  BY <1>1 DEF FInv, NextIsNext
<1>3. \A p \in Pda : row[p] \in RowType /\ row[p].slot <= Tip
  <2>1. row \in [Pda -> RowType]
    BY <1>1 DEF TableType, RowType
  <2>2. \A p \in Pda : row[p].slot <= Tip
    BY DEF SInv, RowsTrue
  <2>3. QED
    BY <2>1, <2>2
<1>4. ASSUME NEW p \in Pda
      PROVE  row[p].slot \in 0 .. Tip
  <2>1. row[p] \in RowType /\ row[p].slot <= Tip
    BY <1>3
  <2>2. row[p].slot \in 0 .. MaxTx
    BY <2>1 DEF RowType
  <2>3. QED
    BY <1>1, <2>1, <2>2, StoreAssumption
<1>5. CaughtUpMeansCurrent
  BY <1>1, <1>2, <1>4 DEF FInv, RowsFollow, CaughtUpMeansCurrent
<1>6. ClosedSeenStays
  BY DEF FInv, SeenCovered, ClosedSeenStays
<1>7. QED
  BY <1>5, <1>6 DEF CacheFollows

(***************************************************************************)
(* The theorems.                                                           *)
(***************************************************************************)

LEMMA SInvInit == Init => SInv
<1> SUFFICES ASSUME Init PROVE SInv
  OBVIOUS
<1> USE StoreAssumption
<1>1. log = <<>> /\ hist = <<>> /\ Tip = 0
  BY DEF Init, Tip
<1>2. ChainType
  BY <1>1 DEF ChainType
<1>3. TableType
  BY <1>1 DEF Init, TableType, NoRow
<1>4. WorkType
  BY <1>1 DEF Init, WorkType, NoRead
<1>5. ReadsTrue
  <2>1. \A w \in Proc, p \in Pda : reads[w][p].state = "unread" /\ reads[w][p].slot = 0
    BY DEF Init, NoRead
  <2>2. QED
    BY <1>1, <2>1 DEF ReadsTrue
<1>6. RowsTrue
  BY <1>1 DEF Init, RowsTrue, RowIsChainState, NoRow
<1>7. CursorCovers /\ WriterCovers /\ Fed
  BY <1>1 DEF Init, CursorCovers, WriterCovers, Fed
<1>8. Reading
  BY DEF Init, Reading, Proc
<1>9. QED
  BY <1>2, <1>3, <1>4, <1>5, <1>6, <1>7, <1>8 DEF SInv, TypeOK

LEMMA SInvStep == SInv /\ [Next]_vars => SInv'
<1> SUFFICES ASSUME SInv, [Next]_vars PROVE SInv'
  OBVIOUS
<1>1. TypeOK'
  BY ChainStays, TableStep, WorkStep DEF SInv, TypeOK
<1>2. ReadsTrue' /\ RowsTrue'
  BY ReadsStep, RowsStep DEF SInv
<1>3. CursorCovers' /\ WriterCovers' /\ Reading'
  BY CoverStep, ReadingStep DEF SInv
<1>4. Fed'
  BY FedStep DEF SInv, Fed
<1>5. QED
  BY <1>1, <1>2, <1>3, <1>4 DEF SInv

\* The inductive invariant holds of every behaviour.
THEOREM Invariance == Spec => []SInv
BY SInvInit, SInvStep, PTL DEF Spec

\* Every reachable state of the store is well-typed.
THEOREM TypeCorrect == Spec => []TypeOK
<1>1. SInv => TypeOK
  BY DEF SInv
<1>2. QED
  BY <1>1, Invariance, PTL

\* Every row of the cache says what the chain said of its permission at the row's
\* last_slot, with any number of indexers and a notifier writing at once.
THEOREM RowsTrueAlways == Spec => []RowIsChainState
<1>1. SInv => RowIsChainState
  BY DEF SInv, RowsTrue
<1>2. QED
  BY <1>1, Invariance, PTL

\* No commit deletes a row or puts an older read over a newer one.
THEOREM RowsNeverBack == Spec => RowsOnlyAdvance
<1> DEFINE Advance == \A p \in Pda : row[p].status # "none" =>
                        row'[p].status # "none" /\ row[p].slot <= row'[p].slot
<1>1. ASSUME TypeOK, [Next]_vars
      PROVE  [Advance]_vars
  <2>1. ASSUME NEW w \in Proc, ApplyReads(w)
        PROVE  Advance
    BY <1>1, <2>1, ApplyTypes, AppliedRow
  <2>2. CASE UNCHANGED row
    BY <1>1, <2>2, StoreAssumption DEF TypeOK, TableType
  <2> HIDE DEF Advance
  <2>3. QED
    BY <1>1, <2>1, <2>2 DEF Next, vars, tables, Land, BeginWrite, BeginRefresh, ReadChain,
                            CommitWrite, CommitRefresh, Abandon, Restart, Proc
<1>2. TypeOK /\ [Next]_vars => [Advance]_vars
  BY <1>1
<1>3. QED
  BY <1>2, TypeCorrect, PTL DEF Spec, RowsOnlyAdvance

\* Every transaction at or before the cursor was written by an indexer, whatever
\* restarts and overlaps there were.
THEOREM CursorSafe == Spec => []CursorCovers
<1>1. SInv => CursorCovers
  BY DEF SInv
<1>2. QED
  BY <1>1, Invariance, PTL

\* On a node that is never behind, the feed misses only permissions closed before the
\* indexer saw them, and unreadable ones.
THEOREM FeedComplete ==
  ASSUME MaxLag = 0
  PROVE  Spec => []FeedMissesOnlyClosed
<1>1. SInv => FeedMissesOnlyClosed
  BY DEF SInv, Fed, CursorCovers, FeedMissesOnlyClosed
<1>2. QED
  BY <1>1, Invariance, PTL

\* With one indexer, on a node that is never behind, the cache follows the chain: caught up,
\* no row disagrees with it, and no permission seen closed is brought back by an older read.
THEOREM CacheIsCurrent ==
  ASSUME MaxLag = 0, NEW CONSTANT w, Writer = {w}
  PROVE  Spec => []CacheFollows
<1>1. Init => FInv
  <2> SUFFICES ASSUME Init PROVE FInv
    OBVIOUS
  <2>1. Tip = 0 /\ cursor = 0 /\ at[w] = 1
    BY DEF Init, Tip
  <2>2. TurnsAreNamed /\ NextIsNext /\ RowsFollow
    BY <2>1 DEF Init, TurnsAreNamed, NextIsNext, RowsFollow, NoRow
  <2>3. LiveAsked /\ SeenCovered
    BY DEF Init, LiveAsked, SeenCovered, Proc, NoRead, NoRow
  <2>4. QED
    BY <2>2, <2>3 DEF FInv
<1>2. SInv /\ FInv /\ [Next]_vars => FInv'
  BY TurnsStep, NextStep, RowsFollowStep, LiveAskedStep, SeenStep DEF SInv, TypeOK, FInv
<1>3. SInv /\ FInv => CacheFollows
  BY FollowsEnd
<1>4. QED
  BY <1>1, <1>2, <1>3, Invariance, PTL DEF Spec
=============================================================================
