------------------------------- MODULE Store -------------------------------
(***************************************************************************)
(* The store (apps/indexer/src/store.ts): the cache of permissions, the    *)
(* feed and the program's cursor, written by indexers and refreshed by the *)
(* notifier from chain reads made before the database transaction.         *)
(*                                                                         *)
(* Transaction i of the program's history is in slot i. The permissions    *)
(* are one wallet's, in one mint and on one plan. `paused_at` is written   *)
(* nowhere in the code and left out, with the two rules that read it.      *)
(***************************************************************************)
EXTENDS Naturals, Sequences

CONSTANTS
  Pda,          \* permissions
  Writer,       \* indexers: one, or two during a rolling deploy
  Notifier,     \* the push notifier, which refreshes rows
  Unreadable,   \* permissions whose account cannot be read as one
  MaxTx,        \* bound: transactions that ever land
  MaxLag        \* bound: how many slots behind a node may answer

ASSUME StoreAssumption ==
  /\ MaxTx \in Nat /\ MaxLag \in Nat
  /\ Unreadable \subseteq Pda
  /\ Notifier \notin Writer

VARIABLES
  log,        \* the program's transactions, oldest first
  hist,       \* hist[s]: the state of every permission after slot s
  row,        \* the allowances table
  feed,       \* the events table: pairs of transaction and permission
  cursor,     \* indexer_cursor of the program
  at,         \* the transaction each writer handles
  phase,      \* what each process is doing
  under,      \* permissions a closed authority or an updated plan was expanded to
  todo,       \* permissions still to be read
  reads,      \* chain reads of the running write or refresh
  written,    \* history: transactions some writer committed
  seenClosed  \* history: newest slot at which a committed read found it closed

chain == <<log, hist>>
tables == <<row, feed, cursor>>
work  == <<at, phase, under, todo, reads>>
vars  == <<chain, tables, work, written, seenClosed>>

Proc   == Writer \cup {Notifier}
Tip    == Len(log)
Direct == {"create", "use", "revoke"}    \* "use": charged, rejected, cancelled, resumed
Kind   == Direct \cup {"authority", "plan"}
NoRead == [state |-> "unread", slot |-> 0]
NoRow  == [status |-> "none", slot |-> 0]

StateAt(p, s) == IF s = 0 THEN "closed" ELSE hist[s][p]

\* What a read of a permission at a slot says of it.
StatusOf(state) == IF state = "live" THEN "active" ELSE "revoked"

ChainType ==
  /\ log \in Seq([kind : Kind, on : SUBSET Pda]) /\ Tip <= MaxTx
  /\ hist \in Seq([Pda -> {"closed", "live", "dead"}]) /\ Len(hist) = Tip

TableType ==
  /\ row \in [Pda -> [status : {"none", "active", "revoked"}, slot : 0 .. MaxTx]]
  /\ feed \subseteq (1 .. Tip) \X Pda
  /\ cursor \in 0 .. Tip
  /\ written \subseteq 1 .. Tip

WorkType ==
  /\ at \in [Writer -> 1 .. Tip + 1]
  /\ phase \in [Proc -> {"idle", "reading"}]
  /\ under \in [Proc -> SUBSET Pda] /\ todo \in [Proc -> SUBSET Pda]
  /\ reads \in [Proc -> [Pda -> [state : {"unread", "unreadable", "closed", "live", "dead"},
                                 slot : 0 .. MaxTx]]]
  /\ seenClosed \in [Pda -> 0 .. Tip]

TypeOK == ChainType /\ TableType /\ WorkType

Init ==
  /\ log = <<>> /\ hist = <<>>
  /\ row = [p \in Pda |-> NoRow]
  /\ feed = {} /\ cursor = 0
  /\ at = [w \in Writer |-> 1]
  /\ phase = [w \in Proc |-> "idle"]
  /\ under = [w \in Proc |-> {}] /\ todo = [w \in Proc |-> {}]
  /\ reads = [w \in Proc |-> [p \in Pda |-> NoRead]]
  /\ written = {}
  /\ seenClosed = [p \in Pda |-> 0]

-----------------------------------------------------------------------------
(***************************************************************************)
(* The program on the chain (external).                                    *)
(***************************************************************************)

\* A transaction lands. A use may be a refused charge of a permission that is gone;
\* closing the authority leaves the accounts in place and kills them.
Land(kind, on) ==
  /\ Tip < MaxTx
  /\ kind = "create" => \A p \in on : StateAt(p, Tip) = "closed"
  /\ kind = "revoke" => \A p \in on : StateAt(p, Tip) # "closed"
  /\ kind \in Direct => \E p \in Pda : on = {p}
  /\ kind \notin Direct => on = Pda
  /\ log' = Append(log, [kind |-> kind, on |-> on])
  /\ hist' = Append(hist, [p \in Pda |->
       IF p \notin on THEN StateAt(p, Tip)
       ELSE CASE kind = "create" -> "live"
              [] kind = "revoke" -> "closed"
              [] kind = "authority" /\ StateAt(p, Tip) = "live" -> "dead"
              [] OTHER -> StateAt(p, Tip)])
  /\ UNCHANGED <<tables, work, written, seenClosed>>

-----------------------------------------------------------------------------
(***************************************************************************)
(* write and refresh: collect the permissions, read them from the chain,   *)
(* then apply everything in one database transaction.                      *)
(***************************************************************************)

\* Rows the cache does not hold as revoked: permissionsUnder, and a plan's subscriptions.
Held == {p \in Pda : row[p].status = "active"}

\* A process starts reading: `expanded` came from the cache, `named` from the transaction.
Collect(w, expanded, named) ==
  /\ phase[w] = "idle"
  /\ phase' = [phase EXCEPT ![w] = "reading"]
  /\ under' = [under EXCEPT ![w] = expanded]
  /\ todo' = [todo EXCEPT ![w] = expanded \cup named]
  /\ reads' = [reads EXCEPT ![w] = [p \in Pda |-> NoRead]]

\* What a process collected and read is local to its call.
Finish(w) ==
  /\ phase' = [phase EXCEPT ![w] = "idle"]
  /\ under' = [under EXCEPT ![w] = {}]
  /\ todo' = [todo EXCEPT ![w] = {}]
  /\ reads' = [reads EXCEPT ![w] = [p \in Pda |-> NoRead]]

\* Mutant of BeginWrite: the cursor moves before the transaction is written.
BeginWriteMovesCursor(w) ==
  /\ at[w] <= Tip
  /\ LET tx == log[at[w]]
     IN  IF tx.kind \in Direct THEN Collect(w, {}, tx.on) ELSE Collect(w, Held, {})
  /\ cursor' = IF cursor <= at[w] THEN at[w] ELSE cursor
  /\ UNCHANGED <<chain, row, feed, at, written, seenClosed>>

\* Mutant of BeginWrite: only permissions the transaction names are read again.
BeginWriteDirectOnly(w) ==
  /\ at[w] <= Tip
  /\ LET tx == log[at[w]]
     IN  IF tx.kind \in Direct THEN Collect(w, {}, tx.on) ELSE Collect(w, {}, {})
  /\ UNCHANGED <<chain, tables, at, written, seenClosed>>

BeginWrite(w) ==
  /\ at[w] <= Tip
  /\ LET tx == log[at[w]]
     IN  IF tx.kind \in Direct THEN Collect(w, {}, tx.on) ELSE Collect(w, Held, {})
  /\ UNCHANGED <<chain, tables, at, written, seenClosed>>

\* The notifier refreshes permissions with a charge due: active rows.
BeginRefresh(due) ==
  /\ due # {} /\ due \subseteq Held
  /\ Collect(Notifier, {}, due)
  /\ UNCHANGED <<chain, tables, at, written, seenClosed>>

\* chainStates: one read after another, each answered at the node's own slot.
ReadChain(w, p, slot) ==
  /\ phase[w] = "reading" /\ p \in todo[w]
  /\ slot \in 0 .. Tip /\ Tip <= slot + MaxLag
  /\ LET state == IF p \in Unreadable /\ StateAt(p, slot) # "closed"
                  THEN "unreadable" ELSE StateAt(p, slot)
     IN  reads' = [reads EXCEPT ![w][p] = [state |-> state, slot |-> slot]]
  /\ todo' = [todo EXCEPT ![w] = @ \ {p}]
  /\ UNCHANGED <<chain, tables, at, phase, under, written, seenClosed>>

\* Mutant of Upsert: the guard on last_slot is dropped.
UpsertUnguarded(old, read) == [status |-> StatusOf(read.state), slot |-> read.slot]

\* An older read never overwrites a newer one.
Upsert(old, read) ==
  IF old.status = "none" \/ old.slot <= read.slot
  THEN [status |-> StatusOf(read.state), slot |-> read.slot] ELSE old

\* Mutant of MarkClosed: last_slot is not stamped.
MarkClosedUnstamped(old, read) ==
  IF old.status # "none" /\ old.slot <= read.slot
  THEN [old EXCEPT !.status = "revoked"] ELSE old

\* An update: where there is no row, nothing is written.
MarkClosed(old, read) ==
  IF old.status # "none" /\ old.slot <= read.slot
  THEN [status |-> "revoked", slot |-> read.slot] ELSE old

Applied(old, read) ==
  CASE read.state \in {"unread", "unreadable"} -> old
    [] read.state = "closed" -> MarkClosed(old, read)
    [] OTHER -> Upsert(old, read)

ApplyReads(w) ==
  /\ phase[w] = "reading" /\ todo[w] = {}
  /\ row' = [p \in Pda |-> Applied(row[p], reads[w][p])]
  /\ seenClosed' = [p \in Pda |->
       IF reads[w][p].state = "closed" /\ seenClosed[p] < reads[w][p].slot
       THEN reads[w][p].slot ELSE seenClosed[p]]
  /\ Finish(w)

\* Mutant of CommitWrite: what is tracked is asked before the rows are written.
CommitWriteTrackedFirst(w) ==
  /\ ApplyReads(w)
  /\ LET pending == IF log[at[w]].kind \in Direct THEN log[at[w]].on
                    ELSE IF log[at[w]].kind = "authority" THEN under[w] ELSE {}
     IN  feed' = feed \cup {<<at[w], p>> : p \in {q \in pending : row[q].status # "none"}}
  /\ cursor' = IF cursor <= at[w] THEN at[w] ELSE cursor
  /\ written' = written \cup {at[w]}
  /\ at' = [at EXCEPT ![w] = @ + 1]
  /\ UNCHANGED chain

\* Mutant of CommitWrite: the cursor names the transaction to come.
CommitWriteNextCursor(w) ==
  /\ ApplyReads(w)
  /\ LET pending == IF log[at[w]].kind \in Direct THEN log[at[w]].on
                    ELSE IF log[at[w]].kind = "authority" THEN under[w] ELSE {}
     IN  feed' = feed \cup {<<at[w], p>> : p \in {q \in pending : row'[q].status # "none"}}
  /\ cursor' = IF cursor <= at[w] THEN at[w] + 1 ELSE cursor
  /\ written' = written \cup {at[w]}
  /\ at' = [at EXCEPT ![w] = @ + 1]
  /\ UNCHANGED chain

\* The rows, the feed of the permissions then tracked, and the cursor, at once.
CommitWrite(w) ==
  /\ ApplyReads(w)
  /\ LET pending == IF log[at[w]].kind \in Direct THEN log[at[w]].on
                    ELSE IF log[at[w]].kind = "authority" THEN under[w] ELSE {}
     IN  feed' = feed \cup {<<at[w], p>> : p \in {q \in pending : row'[q].status # "none"}}
  /\ cursor' = IF cursor <= at[w] THEN at[w] ELSE cursor
  /\ written' = written \cup {at[w]}
  /\ at' = [at EXCEPT ![w] = @ + 1]
  /\ UNCHANGED chain

CommitRefresh ==
  /\ ApplyReads(Notifier)
  /\ UNCHANGED <<chain, feed, cursor, at, written>>

\* A chain read or the database fails: a write is tried again, a refresh waits for
\* the next pass.
Abandon(w) ==
  /\ phase[w] = "reading"
  /\ Finish(w)
  /\ UNCHANGED <<chain, tables, at, written, seenClosed>>

\* An indexer dies or is replaced; its successor resumes from the cursor.
Restart(w) ==
  /\ at[w] # cursor + 1 \/ phase[w] # "idle"
  /\ at' = [at EXCEPT ![w] = cursor + 1]
  /\ Finish(w)
  /\ UNCHANGED <<chain, tables, written, seenClosed>>

Next ==
  \/ \E kind \in Kind, on \in SUBSET Pda : Land(kind, on)
  \/ \E w \in Writer : BeginWrite(w) \/ CommitWrite(w) \/ Restart(w)
  \/ \E due \in SUBSET Pda : BeginRefresh(due)
  \/ CommitRefresh
  \/ \E w \in Proc : Abandon(w) \/ \E p \in Pda, slot \in 0 .. MaxTx : ReadChain(w, p, slot)

Spec == Init /\ [][Next]_vars

-----------------------------------------------------------------------------
\* A row says what the chain said at its last_slot, whichever process wrote it and
\* however its write was interleaved with others.
RowIsChainState ==
  \A p \in Pda : row[p].status # "none" =>
    row[p].status = StatusOf(StateAt(p, row[p].slot))

\* "An older read never overwrites a newer one": a row never disappears and never
\* goes back to an older slot.
RowsOnlyAdvance ==
  [][\A p \in Pda : row[p].status # "none" =>
       row'[p].status # "none" /\ row[p].slot <= row'[p].slot]_vars

\* Every transaction at or before the cursor was written by some indexer, however
\* indexers overlap, die and resume: a restart loses none.
CursorCovers == \A i \in 1 .. cursor : i \in written

\* A write's events are left out of the feed only where its comment says: permissions
\* closed before the indexer first saw them, or unreadable ones.
FeedMissesOnlyClosed ==
  \A i \in 1 .. cursor, p \in Pda :
    log[i].kind \in Direct /\ p \in log[i].on /\ <<i, p>> \notin feed =>
      p \in Unreadable \/ \E s \in i .. Tip : StateAt(p, s) = "closed"

\* Once an indexer has handled everything, no row disagrees with the chain: closing,
\* dying with the authority and coming back all reached the cache.
CaughtUpMeansCurrent ==
  (\A w \in Writer : at[w] = Tip + 1) =>
    \A p \in Pda \ Unreadable : row[p].status # "none" =>
      row[p].status = StatusOf(StateAt(p, Tip))

\* A permission seen closed is not brought back by a read made before that.
ClosedSeenStays ==
  \A p \in Pda : row[p].status = "active" => seenClosed[p] <= row[p].slot

\* Both: the cache follows the chain's closings, at the end and on the way.
CacheFollows == CaughtUpMeansCurrent /\ ClosedSeenStays

\* "authority closed: a revoked row for each live permission": one the feed already
\* knows, live when its authority was closed, has the revocation in the feed.
AuthorityCloseInFeed ==
  \A i \in 1 .. cursor, p \in Pda :
    /\ log[i].kind = "authority"
    /\ StateAt(p, i - 1) = "live"
    /\ \E j \in 1 .. (i - 1) : <<j, p>> \in feed
    => <<i, p>> \in feed

-----------------------------------------------------------------------------
(***************************************************************************)
(* Why rows are true, the cursor covers and the feed is complete.          *)
(***************************************************************************)

\* A read says what the chain said at its slot.
ReadsTrue ==
  \A w \in Proc, p \in Pda :
    /\ reads[w][p].slot <= Tip
    /\ reads[w][p].state \in {"closed", "live", "dead"} =>
         reads[w][p].state = StateAt(p, reads[w][p].slot)
    /\ reads[w][p].state = "unreadable" => p \in Unreadable

RowsTrue == RowIsChainState /\ \A p \in Pda : row[p].slot <= Tip

\* What a writer has behind it is written.
WriterCovers == \A w \in Writer, i \in 1 .. Tip : i < at[w] => i \in written

\* A running write has read what its transaction names, or has it still to do; on a node
\* that is never behind, it read it as it was after that transaction, or later.
Reading ==
  \A w \in Writer : phase[w] = "reading" =>
    /\ at[w] <= Tip
    /\ \A p \in Pda :
         /\ log[at[w]].kind \in Direct /\ p \in log[at[w]].on =>
              p \in todo[w] \/ reads[w][p].state # "unread"
         /\ MaxLag = 0 /\ reads[w][p].state # "unread" => at[w] <= reads[w][p].slot

\* FeedMissesOnlyClosed, of every transaction some indexer wrote.
Fed ==
  MaxLag = 0 =>
    \A i \in written, p \in Pda :
      log[i].kind \in Direct /\ p \in log[i].on /\ <<i, p>> \notin feed =>
        p \in Unreadable \/ \E s \in i .. Tip : StateAt(p, s) = "closed"

SInv == TypeOK /\ ReadsTrue /\ RowsTrue /\ CursorCovers /\ WriterCovers /\ Reading /\ Fed

(***************************************************************************)
(* Why the cache follows: one indexer, on a node that is never behind.     *)
(***************************************************************************)

\* A permission opens or closes by a transaction that names it, or dies with its authority.
TurnsAreNamed ==
  \A i \in 1 .. Tip, p \in Pda : StatusOf(StateAt(p, i)) # StatusOf(StateAt(p, i - 1)) =>
    \/ log[i].kind \in Direct /\ p \in log[i].on
    \/ log[i].kind = "authority" /\ StateAt(p, i - 1) = "live"

\* What the indexer has behind it is what the cursor covers.
NextIsNext == \A w \in Writer : at[w] = cursor + 1

\* From the slot of a row to the cursor the permission did not turn.
RowsFollow ==
  \A p \in Pda \ Unreadable : row[p].status # "none" =>
    \A s \in row[p].slot .. cursor : row[p].status = StatusOf(StateAt(p, s))

\* A write of a closed authority reads each permission held as active, but those a refresh
\* has meanwhile read after it.
LiveAsked ==
  \A w \in Writer : phase[w] = "reading" /\ log[at[w]].kind = "authority" =>
    \A p \in Pda \ Unreadable : row[p].status = "active" =>
      p \in todo[w] \/ reads[w][p].state # "unread" \/ at[w] <= row[p].slot

\* No row is older than the closing it was seen to have, and a row still to come will not
\* be; without a row nothing is refreshed.
SeenCovered ==
  \A p \in Pda :
    /\ row[p].status # "none" => seenClosed[p] <= row[p].slot
    /\ row[p].status = "none" =>
         /\ p \notin todo[Notifier] /\ reads[Notifier][p].state = "unread"
         /\ \A w \in Writer : reads[w][p].state # "unread" => seenClosed[p] <= reads[w][p].slot

FInv == TurnsAreNamed /\ NextIsNext /\ RowsFollow /\ LiveAsked /\ SeenCovered
=============================================================================
