-------------------------------- MODULE Feed --------------------------------
(***************************************************************************)
(* The stored history of one permission's address: inserted by the         *)
(* indexer, cut by retention (apps/indexer/src/retention.ts), read page by *)
(* page with several queries a page (apps/api/src/feed.ts, routes/         *)
(* events.ts) and shown as one list (apps/web useFeed.ts, Subscription.tsx).*)
(* An event has its number in the chain's order; once it is stored, it has a *)
(* place in the feed's: slot, position, row id. A page is a set of places,   *)
(* newest first is the order of every one. Days are those of the block.      *)
(***************************************************************************)
EXTENDS Integers, Sequences, FiniteSets, SequencesExt, FiniteSetsExt

CONSTANTS
  Worker,     \* indexers that prune: two during a rolling deploy
  Days,       \* the window
  Batch,      \* rows per delete
  PageLimit,  \* events of a page
  MaxDay,     \* bound: the clock stops
  MaxEvents   \* bound: events that ever happen

ASSUME FeedAssumption == {Days, Batch, PageLimit, MaxDay, MaxEvents} \subseteq Nat \ {0}

VARIABLES
  day,        \* today
  log,        \* what happened at the address: kind, day, slot and position
  start,      \* the first event the indexer is to store; it starts anywhere
  filed,      \* the events it has stored, by their places
  stored,     \* the events table: the places that are still there
  pass,       \* what each worker's retention pass does
  retention,  \* the row events_retention
  req,        \* the request of the page that is under way
  list,       \* the pages the browser holds
  dirty,      \* an insert was announced since the list was asked for
  torn        \* ghost: a request for the list met a cut under way or left unfinished

feedVars == <<day, log, start, filed, stored, pass, retention, req, list, dirty, torn>>
storeVars == <<day, log, start, filed, stored>>
pageVars  == <<req, list, dirty, torn>>

Idle      == [phase |-> "idle", now |-> 0]
KeptSince == -Days                           \* of a row that was never written
NoRequest == [phase |-> "none", got |-> <<>>, pages |-> 0, creation |-> 0, rows |-> {}]
Page(items, cursor, more, truncatedAt) ==
  [items |-> items, cursor |-> cursor, more |-> more, truncatedAt |-> truncatedAt]
Items(pages) == UNION {pages[p].items : p \in DOMAIN pages}

\* The address is given to a new permission after it was closed.
Open == log # <<>> /\ Last(log).kind # "revoked"

FeedInit ==
  /\ day = 1 /\ log = <<>> /\ start \in 1 .. 2 /\ filed = <<>> /\ stored = {}
  /\ pass = [w \in Worker |-> Idle]
  /\ retention = [keptSince |-> KeptSince, ranAt |-> 0]
  /\ req = NoRequest /\ list = <<>> /\ dirty = FALSE /\ torn = FALSE

-----------------------------------------------------------------------------
\* The feed's order: slot, position in the transaction, and the row's id, which grows with
\* every insert. Two transactions of one slot may tie in the first two.
Key(e)    == 2 * e.slot + e.position
First(e)  == Key(e) * MaxEvents
Places(e) == First(e) .. First(e) + MaxEvents - 1

Past     == DOMAIN filed                \* the places that were ever given
Event(i) == log[filed[i]]
Missing  == {n \in start .. Len(log) : \A i \in Past : filed[i] # n}

\* In a new slot, or in that of the event before it: at its position or at an earlier one (a
\* later one is like a later slot).
Slot == IF log = <<>> THEN 0 ELSE Last(log).slot
Spot(kind, slot, position) == [kind |-> kind, at |-> day, slot |-> slot, position |-> position]
Spots(kind) ==
  {Spot(kind, Slot + 1, 1)}
    \cup {Spot(kind, Slot, position) : position \in
            IF log # <<>> /\ Last(log).at = day THEN 0 .. 1 ELSE {}}

\* The program and the clock (external).
Happens ==
  /\ Len(log) < MaxEvents
  /\ \E kind \in IF Open THEN {"charged", "revoked"} ELSE {"created"} :
       \E e \in Spots(kind) : log' = Append(log, e)
  /\ UNCHANGED <<day, start, filed, stored, pass, retention, pageVars>>

\* The indexer is behind by less than the window.
NewDay ==
  /\ day < MaxDay
  /\ \A n \in Missing : log[n].at >= day + 1 - Days
  /\ day' = day + 1
  /\ UNCHANGED <<log, start, filed, stored, pass, retention, pageVars>>

\* The indexer stores one of the events it has not stored, not always the oldest: catch-up
\* and the poller come to older transactions after newer ones. The database announces it
\* to open pages.
Insert ==
  /\ \E n \in Missing :
       \E place \in Places(log[n]) \ Past :
         /\ \A free \in Places(log[n]) \ Past : place <= free
         /\ filed' = [i \in Past \cup {place} |-> IF i = place THEN n ELSE filed[i]]
         /\ stored' = stored \cup {place}
  /\ dirty' = (list # <<>> \/ req # NoRequest)
  /\ UNCHANGED <<day, log, start, pass, retention, req, list, torn>>

-----------------------------------------------------------------------------
\* runRetention.
Cut(w) == pass[w].now - Days

BeginPass(w) ==
  /\ pass[w] = Idle
  /\ retention.ranAt # day \/ \E i \in stored : Event(i).at < day - Days  \* else nothing changes
  /\ pass' = [pass EXCEPT ![w] = [phase |-> "deleting", now |-> day]]
  /\ UNCHANGED <<storeVars, retention, pageVars>>

\* One statement: a batch of the rows older than the cut, in no order.
Old(w) == {i \in stored : Event(i).at < Cut(w)}
Batches(w) == kSubset(IF Cardinality(Old(w)) < Batch THEN Cardinality(Old(w)) ELSE Batch, Old(w))
Deleted(w, batch) ==
  /\ stored' = stored \ batch
  /\ torn' = (torn \/ (batch # {} /\ req # NoRequest))
  /\ UNCHANGED <<day, log, start, filed, retention, req, list, dirty>>

\* Mutant: one statement is taken for the whole cut.
DeleteBatchOnce(w) ==
  /\ pass[w].phase = "deleting"
  /\ \E batch \in Batches(w) : Deleted(w, batch)
  /\ pass' = [pass EXCEPT ![w].phase = "recording"]

DeleteBatch(w) ==
  /\ pass[w].phase = "deleting"
  /\ \E batch \in Batches(w) :
       /\ Deleted(w, batch)
       /\ pass' = IF Cardinality(batch) < Batch THEN [pass EXCEPT ![w].phase = "recording"] ELSE pass

\* The later pass wins.
RecordedCut(w) == [keptSince |-> Cut(w), ranAt |-> pass[w].now]
RecordLast(w) ==
  /\ pass[w].phase = "recording"
  /\ retention' = RecordedCut(w)
  /\ pass' = [pass EXCEPT ![w] = Idle]
  /\ UNCHANGED <<storeVars, pageVars>>

Record(w) ==
  /\ pass[w].phase = "recording"
  /\ retention' = IF retention.ranAt <= pass[w].now THEN RecordedCut(w) ELSE retention
  /\ pass' = [pass EXCEPT ![w] = Idle]
  /\ UNCHANGED <<storeVars, pageVars>>

PassFails(w) ==
  /\ pass[w] # Idle
  /\ pass' = [pass EXCEPT ![w] = Idle]
  /\ UNCHANGED <<storeVars, retention, pageVars>>

-----------------------------------------------------------------------------
\* readFeed: each query sees the table as it is then.
Ask(pages, got) == [NoRequest EXCEPT !.phase = "creation", !.got = got, !.pages = pages]

\* The page is opened, or told of an event: every page it holds is asked for again, and a
\* request that is under way is dropped.
Refetch ==
  /\ (list = <<>> /\ req = NoRequest) \/ dirty
  /\ req' = Ask(IF list = <<>> THEN 1 ELSE Len(list), <<>>)
  /\ dirty' = FALSE /\ torn' = FALSE
  /\ UNCHANGED <<storeVars, pass, retention, list>>

FetchNextPage ==
  /\ req = NoRequest /\ list # <<>> /\ Last(list).more
  /\ req' = Ask(Len(list) + 1, list)
  /\ UNCHANGED <<storeVars, pass, retention, list, dirty, torn>>

\* The newest creation, by slot and position: an earlier permission at the address is
\* another one.
Creations == {i \in stored : Event(i).kind = "created"}
Bound(creation) == First(Event(creation))
HalfCut == \E i \in Past \ stored, j \in stored : j < i
Bounded(creation) ==
  /\ req.phase = "creation"
  /\ req' = [req EXCEPT !.phase = "rows", !.creation = creation]
  /\ torn' = (torn \/ HalfCut)
  /\ UNCHANGED <<storeVars, pass, retention, list, dirty>>

ReadCreationOldest == Bounded(IF Creations = {} THEN 0 ELSE Bound(Min(Creations)))
ReadCreation       == Bounded(IF Creations = {} THEN 0 ELSE Bound(Max(Creations)))

\* Newest first: the first k of them.
Newest(k, events) == {i \in events : Cardinality({j \in events : j > i}) < k}
Before(got, i)  == got = <<>> \/ i < Last(got).cursor

\* After the last event the reader has, one more than a page holds.
RowsByOffset(creation, got) ==
  LET all == {i \in stored : i >= creation}
  IN Newest(PageLimit + 1, all \ Newest(Cardinality(Items(got)), all))

Following(creation, got) == {i \in stored : i >= creation /\ Before(got, i)}
Rows(creation, got)   == Newest(PageLimit + 1, Following(creation, got))

\* The cursor of the next page is the last event shown; the answer names a cut when the
\* store holds no creation.
TruncatedAt == IF req.creation # 0 \/ stored = {} THEN 0 ELSE Min({Event(i).at : i \in stored})
OnPage(rows) == Newest(PageLimit, rows)
Answered(rows, cursor, truncatedAt) == Page(OnPage(rows), cursor, Cardinality(rows) > PageLimit, truncatedAt)
Cursor(rows) == IF rows = {} THEN 0 ELSE Min(rows)

AnswerUncut(rows) == Answered(rows, Cursor(OnPage(rows)), 0)
AnswerSkips(rows) == Answered(rows, Cursor(rows), TruncatedAt)
Answer(rows)      == Answered(rows, Cursor(OnPage(rows)), TruncatedAt)

\* The browser: the next page of a refetch is asked for, or the list is replaced.
Take(page) ==
  LET got == Append(req.got, page)
  IN IF Len(got) < req.pages /\ page.more
     THEN req' = Ask(req.pages, got) /\ UNCHANGED list
     ELSE req' = NoRequest /\ list' = got

\* The oldest row is asked for only without a creation.
ReadRows ==
  /\ req.phase = "rows"
  /\ IF req.creation # 0 THEN Take(Answer(Rows(req.creation, req.got)))
     ELSE /\ req' = [req EXCEPT !.phase = "oldest", !.rows = Rows(0, req.got)]
          /\ UNCHANGED list
  /\ UNCHANGED <<storeVars, pass, retention, dirty, torn>>

ReadOldest ==
  /\ req.phase = "oldest"
  /\ Take(Answer(req.rows))
  /\ UNCHANGED <<storeVars, pass, retention, dirty, torn>>

FeedNext ==
  \/ Happens \/ NewDay \/ Insert
  \/ \E w \in Worker : BeginPass(w) \/ DeleteBatch(w) \/ Record(w) \/ PassFails(w)
  \/ Refetch \/ FetchNextPage \/ ReadCreation \/ ReadRows \/ ReadOldest

-----------------------------------------------------------------------------
Shown   == Items(list)
Settled == list # <<>> /\ req = NoRequest /\ ~dirty     \* not about to be asked for again
Current == Max({0} \cup {i \in Past : Event(i).kind = "created"})
Since   == IF Current = 0 THEN 0 ELSE Bound(Current)

\* However rows come and go between the pages, the list is in the chain's order from one page
\* to the next and shows no event twice (feed.ts:109-118, useFeed.ts:94).
InOrder(pages) ==
  \A p, q \in DOMAIN pages : p < q => \A i \in pages[p].items, j \in pages[q].items : i > j
NoneTwice == InOrder(list)

\* A list that is settled leaves out no stored event newer than the oldest it
\* shows: the pages join, though each was read at another moment (feed.ts:121-126).
NothingSkipped ==
  Settled => \A i \in stored : (i >= Since /\ \E j \in Shown : j < i) => i \in Shown

\* An event of the permission the chain has at the address: no creation came after it, save
\* one in its own slot.
OfCurrent(i) ==
  \A n \in start .. Len(log) :
    log[n].kind = "created" => n <= filed[i] \/ log[n].slot = Event(i).slot

\* It shows the permission that is at the address now, never the one before it (feed.ts:26-29),
\* unless a page met an unfinished cut: nothing before the newest creation that was stored, and
\* nothing before the newest of the chain's once the indexer misses none.
OnlyCurrent ==
  Settled /\ ~torn =>
    /\ \A i \in Shown : i >= Since
    /\ (\A n \in Missing : log[n].kind # "created") => \A i \in Shown : OfCurrent(i)

\* Where the page says that is everything since the permission was given (Subscription.tsx:477),
\* the list ends with its creation, though a pass of retention came between the pages; a last
\* page that came back empty is the known exception.
EndNamed ==
  (Settled /\ ~torn /\ ~Last(list).more /\ Last(list).truncatedAt = 0 /\ Last(list).items # {}) =>
    Current \in Shown /\ \A i \in Shown : i >= Since

\* The cut that is recorded is true of the table, with two workers, batches and passes that
\* fail half-way (api.ts:225: nothing older than this is kept for any permission).
NothingOlderKept == \A i \in stored : Event(i).at >= retention.keptSince

\* The recorded cut never moves back, however the passes of two workers overlap.
CutNeverBack == [][retention'.keptSince >= retention.keptSince]_feedVars
-----------------------------------------------------------------------------
(* What is true at every moment of the passes and the requests, and makes the above so. *)

Happening == [kind : {"created", "charged", "revoked"}, at : Nat \ {0}, slot : Nat \ {0},
              position : 0 .. 1]
PageType == [items : SUBSET Past, cursor : Nat, more : BOOLEAN, truncatedAt : Nat]

FeedTypeOK ==
  /\ day \in Nat \ {0} /\ start \in Nat \ {0}
  /\ log \in Seq(Happening) /\ Len(log) <= MaxEvents
  /\ filed \in [Past -> 1 .. Len(log)] /\ stored \subseteq Past
  /\ pass \in [Worker -> [phase : {"idle", "deleting", "recording"}, now : 0 .. day]]
  /\ retention \in [keptSince : Int, ranAt : 0 .. day]
  /\ req \in [phase : {"none", "creation", "rows", "oldest"}, got : Seq(PageType), pages : Nat,
               creation : Nat, rows : SUBSET Past]
  /\ list \in Seq(PageType) /\ dirty \in BOOLEAN /\ torn \in BOOLEAN

\* Slots follow the chain, days follow slots, and places follow slots and positions.
Chronicle ==
  /\ \A n, m \in DOMAIN log : n <= m => log[n].slot <= log[m].slot /\ log[n].at <= log[m].at
  /\ \A n, m \in DOMAIN log : log[n].slot = log[m].slot => log[n].at = log[m].at
  /\ \A n \in DOMAIN log : log[n].at <= day
  /\ \A i \in Past : i \in Places(Event(i))

\* No pass records a cut while an older row is there, and the indexer stores none.
PassesTrue ==
  /\ retention.keptSince = retention.ranAt - Days
  /\ \A n \in Missing : log[n].at >= day - Days
  /\ \A w \in Worker : pass[w].phase = "recording" => \A i \in stored : Event(i).at >= Cut(w)

\* Pages that follow each other: each but the last has more behind it, and ends where the next begins.
Joined(pages) ==
  /\ \A p \in DOMAIN pages :
       /\ \A i \in pages[p].items : pages[p].cursor <= i
       /\ IF pages[p].items # {} THEN pages[p].cursor \in pages[p].items ELSE pages[p].cursor = 0
       /\ pages[p].more => pages[p].items # {}
       /\ p < Len(pages) => pages[p].more
  /\ \A p, q \in DOMAIN pages : p < q => \A i \in pages[q].items : i < pages[p].cursor

\* Nothing that is stored is missing from them, as far as they go.
Whole(pages) ==
  pages # <<>> => \A i \in stored : (i >= Since /\ i >= Last(pages).cursor) => i \in Items(pages)

RequestTrue ==
  /\ req.phase = "none" <=> req = NoRequest
  /\ req.phase = "creation" => req.creation = 0
  /\ req.phase # "oldest" => req.rows = {}
  /\ req.phase = "oldest" => req.creation = 0 /\ \A i \in req.rows : Before(req.got, i)
  /\ req.creation # 0 => req.creation <= Since
  /\ Joined(list) /\ Joined(req.got)
  /\ \A p \in DOMAIN req.got : req.got[p].more

\* Nothing was stored since it was asked for: a page leaves out nothing.
WholeTrue ==
  ~dirty =>
    /\ Whole(req.got)
    /\ req = NoRequest => Whole(list)
    /\ req.phase = "oldest" =>
         \A i \in stored :
           /\ i >= Since /\ Before(req.got, i)
           /\ Cardinality(req.rows) <= PageLimit \/ \E j \in req.rows : j <= i
           => i \in req.rows

\* And no cut was met: what is read belongs to the permission that is there now.
OwnTrue ==
  ~dirty /\ ~torn =>
    /\ \A i \in Items(req.got) \cup req.rows : i >= Since
    /\ req.phase = "rows" /\ req.creation = 0 => \A i \in stored : i >= Since
    /\ req.phase = "rows" /\ req.creation # 0 => req.creation = Since /\ Current \in stored
    /\ req.rows \subseteq stored
    /\ req = NoRequest => \A i \in Items(list) : i >= Since
    /\ req = NoRequest /\ list # <<>> /\ ~Last(list).more /\ Last(list).truncatedAt = 0
       /\ Last(list).items # {} => Current \in Items(list)

FeedInv ==
  FeedTypeOK /\ Chronicle /\ PassesTrue /\ NothingOlderKept /\ RequestTrue /\ WholeTrue /\ OwnTrue
=============================================================================
