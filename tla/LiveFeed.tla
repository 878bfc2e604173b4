------------------------------ MODULE LiveFeed ------------------------------
(***************************************************************************)
(* How a change stored by the indexer reaches an open page: triggers of    *)
(* the database, the API's LISTEN session and its probe (listen.ts), the   *)
(* fan-out hub (stream.ts), the event stream and its outbox                *)
(* (routes/stream.ts), the browser's EventSource with its watchdog         *)
(* (lib/stream.ts), the gathered re-reads (streamCache.ts) and the reads   *)
(* themselves, with the slot floor of slotFloors.ts and readAtLeast.       *)
(*                                                                         *)
(* One wallet with one permission and one page. A state of the permission  *)
(* is the slot that made it (0 .. MaxSlot); `row` is the stored state and  *)
(* `feed` counts what the stored feed answers. The page reads two things:  *)
(* "list" (list, card and plan: from the network) and "feed" (from the     *)
(* store). Delays are abstracted, their order is not: a heartbeat is long  *)
(* next to the delivery of a message on a connection that works.           *)
(***************************************************************************)
EXTENDS Integers, Sequences

CONSTANTS
  MaxSlot,      \* slots of the chain that change the permission
  MaxFeed,      \* revisions of the stored feed
  MaxLag,       \* how many slots a node may be behind the chain
  MaxBacklog,   \* messages waiting for a slow client
  MaxStreams,   \* streams one API process holds
  MaxFaults     \* failures of every kind together

ASSUME Bounds == /\ {MaxSlot, MaxFeed, MaxLag, MaxFaults} \subseteq Nat
                 /\ {MaxBacklog, MaxStreams} \subseteq Nat \ {0}

VARIABLES
  chain, row, feed,            \* the network, the stored row, the stored feed
  listener, queue, reading,    \* listen.ts; the hub's queue and the row it read
  srv, outbox, wire, leaked,   \* the page's stream; streams of dead sockets
  es, status, silence,         \* EventSource, StreamStatus, quiet heartbeats
  pend, floor,                 \* streamCache's flags, slotFloors
  shown, req, failed,          \* the cached answers and the requests for them
  behind, overtaken,           \* ghosts, see Settled
  faults

data   == <<chain, row, feed>>
hub    == <<listener, queue, reading>>
stream == <<srv, outbox, wire, leaked>>
source == <<es, status, silence>>
cache  == <<pend, floor>>
reads  == <<shown, req, failed, behind, overtaken>>
vars   == <<data, hub, stream, source, cache, reads, faults>>

Queries == {"list", "feed"}
Nothing == -1                        \* undefined data; no slot
Note(kind)  == [kind |-> kind, slot |-> Nothing]
Idle        == [stage |-> "idle", floor |-> 0, ans |-> Nothing]
\* Mutant of Asked: the read goes out without the floor.
AskedWithoutFloor == [Idle EXCEPT !.stage = "asked"]

Asked       == [Idle EXCEPT !.stage = "asked", !.floor = floor]

Fault == faults < MaxFaults /\ faults' = faults + 1
Subscribed == srv \/ leaked > 0

Init ==
  /\ chain = 0 /\ row = 0 /\ feed = 0
  /\ listener = "down" /\ queue = <<>> /\ reading = Note("none")
  /\ srv = FALSE /\ outbox = <<>> /\ wire = <<>> /\ leaked = 0
  /\ es = "connecting" /\ status = "connecting" /\ silence = 0
  /\ pend = {} /\ floor = 0
  /\ \E saved \in {Nothing, 0} : shown = [list |-> saved, feed |-> Nothing]
  /\ req = [q \in Queries |-> [Idle EXCEPT !.stage = "asked"]]
  /\ failed = [q \in Queries |-> FALSE]
  /\ behind = FALSE
  /\ overtaken = [q \in Queries |-> FALSE]
  /\ faults = 0

-----------------------------------------------------------------------------
(* The database. A commit is announced to a session that hears it.         *)

\* The permission changes on chain.
Change ==
  /\ chain < MaxSlot
  /\ chain' = chain + 1
  /\ UNCHANGED <<row, feed, hub, stream, source, cache, reads, faults>>

Announce(kinds) ==
  queue' = IF listener = "hearing" THEN queue \o [i \in DOMAIN kinds |-> Note(kinds[i])]
                                   ELSE queue

\* store.write of a transaction: its event, and the row read from the chain.
StoreWrite ==
  /\ row < chain /\ feed < MaxFeed
  /\ row' = chain /\ feed' = feed + 1
  /\ Announce(<<"allowance", "event">>)
  /\ UNCHANGED <<chain, listener, reading, stream, source, cache, reads, faults>>

\* store.refresh: the row alone. The trigger is quiet when nothing visible changed.
StoreRefresh ==
  /\ row < chain
  /\ row' = chain
  /\ Announce(<<"allowance">>)
  /\ UNCHANGED <<chain, feed, listener, reading, stream, source, cache, reads, faults>>

\* An event that leaves the row as it was (a refused charge), or a wallet whose
\* feed turned fresh after a gap.
StoreFeed ==
  /\ feed < MaxFeed
  /\ feed' = feed + 1
  /\ \E kind \in {"event", "wallet"} : Announce(<<kind>>)
  /\ UNCHANGED <<chain, row, listener, reading, stream, source, cache, reads, faults>>

-----------------------------------------------------------------------------
(* listen.ts: one LISTEN session that is rebuilt when it is lost or deaf.  *)

\* Mutant of Listen: onListen forgets the streams.
ListenWithoutResync ==
  /\ listener = "down"
  /\ listener' = "hearing"
  /\ UNCHANGED <<data, queue, reading, stream, source, cache, reads, faults>>

\* The session is active (first LISTEN, the driver's re-listen, a rebuilt
\* session): onListen queues a resync of every stream.
Listen ==
  /\ listener = "down"
  /\ listener' = "hearing"
  /\ queue' = Append(queue, Note("resync"))
  /\ UNCHANGED <<data, reading, stream, source, cache, reads, faults>>

\* The session is lost with an error, or a probe of a working one gets lost.
SessionCloses ==
  /\ Fault /\ listener \in {"hearing", "deaf"}
  /\ listener' = "down"
  /\ UNCHANGED <<data, queue, reading, stream, source, cache, reads>>

\* The connection stays open and carries nothing.
SessionGoesDeaf ==
  /\ Fault /\ listener = "hearing"
  /\ listener' = "deaf"
  /\ UNCHANGED <<data, queue, reading, stream, source, cache, reads>>

\* Mutant of ProbeLost: a lost probe is logged and the session kept.
ProbeLostLogged ==
  /\ listener = "deaf"
  /\ UNCHANGED vars

\* A probe does not come back: close, wait, connect again.
ProbeLost ==
  /\ listener = "deaf"
  /\ listener' = "down"
  /\ UNCHANGED <<data, queue, reading, stream, source, cache, reads, faults>>

-----------------------------------------------------------------------------
(* stream.ts and the outbox of routes/stream.ts.                           *)

\* Mutant of Send: the backlog has no limit.
SendUnlimited(message) == outbox' = IF srv THEN Append(outbox, message) ELSE outbox

\* deliver: into the outbox of every stream of the owner.
Send(message) ==
  outbox' = IF ~srv THEN outbox
            ELSE IF Len(outbox) + 1 > MaxBacklog THEN <<Note("resync")>>
            ELSE Append(outbox, message)

\* handle, one notice at a time: a wallet notice and a resync need no read; a
\* notice of an owner without a stream is dropped before its row is read.
Handle ==
  /\ reading = Note("none") /\ queue # <<>>
  /\ queue' = Tail(queue)
  /\ LET notice == Head(queue) IN
     CASE notice.kind \in {"wallet", "resync"} -> Send(Note("resync")) /\ UNCHANGED reading
       [] notice.kind \in {"allowance", "event"} /\ Subscribed ->
            reading' = [kind |-> notice.kind, slot |-> row] /\ UNCHANGED outbox
       [] OTHER -> UNCHANGED <<reading, outbox>>
  /\ UNCHANGED <<data, listener, srv, wire, leaked, source, cache, reads, faults>>

Deliver ==
  /\ reading # Note("none")
  /\ Send(reading)
  /\ reading' = Note("none")
  /\ UNCHANGED <<data, listener, queue, srv, wire, leaked, source, cache, reads, faults>>

RowReadFails ==
  /\ Fault /\ reading # Note("none")
  /\ Send(Note("resync"))
  /\ reading' = Note("none")
  /\ UNCHANGED <<data, listener, queue, srv, wire, leaked, source, cache, reads>>

\* The stream takes everything that waits and writes it, one message after the
\* other, before it takes again.
Write ==
  /\ srv /\ wire = <<>> /\ outbox # <<>>
  /\ wire' = outbox /\ outbox' = <<>>
  /\ UNCHANGED <<data, hub, srv, leaked, source, cache, reads, faults>>

\* The server sees that a dead socket is gone and unsubscribes its stream.
Abort ==
  /\ leaked > 0
  /\ leaked' = leaked - 1
  /\ UNCHANGED <<data, hub, srv, outbox, wire, source, cache, reads, faults>>

\* The page's stream is left behind on the server, for Abort to find.
LeaveStream ==
  /\ srv' = FALSE /\ outbox' = <<>> /\ wire' = <<>>
  /\ leaked' = leaked + (IF srv THEN 1 ELSE 0)

\* The process ends: streams are closed, the queue and the session are gone.
ApiRestarts ==
  /\ Fault
  /\ listener' = "down" /\ queue' = <<>> /\ reading' = Note("none")
  /\ srv' = FALSE /\ outbox' = <<>> /\ wire' = <<>> /\ leaked' = 0
  /\ IF es = "open" THEN es' = "connecting" /\ status' = "reconnecting"
                    ELSE UNCHANGED <<es, status>>
  /\ UNCHANGED <<data, silence, cache, reads>>

-----------------------------------------------------------------------------
(* lib/stream.ts: the browser's end. "dead" is a half-open connection,     *)
(* "closed" one the browser gave up, whose retry timer runs.               *)

\* The subscription is taken before the answer starts, and `ready` is written
\* in the same turn.
Connect ==
  /\ es = "connecting" /\ leaked < MaxStreams /\ silence < 2
  /\ es' = "open"
  /\ srv' = TRUE /\ outbox' = <<>> /\ wire' = <<Note("ready")>>
  /\ UNCHANGED <<data, hub, leaked, status, silence, cache, reads, faults>>

\* 429 from a full server, 5xx, an error page: the browser gives up for good.
Refused ==
  /\ es = "connecting"
  /\ \/ leaked >= MaxStreams /\ UNCHANGED faults
     \/ Fault
  /\ es' = "closed" /\ status' = "down" /\ silence' = 0
  /\ UNCHANGED <<data, hub, stream, cache, reads>>

Retry ==
  /\ es = "closed"
  /\ es' = "connecting" /\ silence' = 0
  /\ UNCHANGED <<data, hub, stream, status, cache, reads, faults>>

\* The connection drops with an error: the browser reconnects by itself.
Drop ==
  /\ Fault /\ es \in {"open", "dead"}
  /\ es' = "connecting" /\ status' = "reconnecting"
  /\ LeaveStream
  /\ UNCHANGED <<data, hub, silence, cache, reads>>

GoDead ==
  /\ Fault /\ es = "open"
  /\ es' = "dead"
  /\ LeaveStream
  /\ UNCHANGED <<data, hub, status, silence, cache, reads>>

\* Mutant of Heartbeat: the server sends no ping.
HeartbeatWithoutPing ==
  /\ es \in {"open", "dead", "connecting"} /\ silence < 2
  /\ outbox = <<>> /\ wire = <<>> /\ queue = <<>> /\ reading = Note("none") /\ pend = {}
  /\ \A q \in Queries : req[q].stage = "idle"
  /\ silence' = silence + 1
  /\ UNCHANGED <<data, hub, stream, es, status, cache, reads, faults>>

\* A heartbeat passes, which is long enough for all that is under way: a stream
\* with nothing to say sends `ping`.
Heartbeat ==
  /\ es \in {"open", "dead", "connecting"} /\ silence < 2
  /\ outbox = <<>> /\ wire = <<>> /\ queue = <<>> /\ reading = Note("none") /\ pend = {}
  /\ \A q \in Queries : req[q].stage = "idle"
  /\ silence' = silence + 1
  /\ outbox' = IF srv THEN <<Note("ping")>> ELSE outbox
  /\ UNCHANGED <<data, hub, srv, wire, leaked, es, status, cache, reads, faults>>

\* Two heartbeats without a message: close and connect anew.
Watchdog ==
  /\ es \in {"open", "dead", "connecting"} /\ silence = 2
  /\ es' = "connecting" /\ status' = "reconnecting" /\ silence' = 0
  /\ LeaveStream
  /\ UNCHANGED <<data, hub, cache, reads, faults>>

\* streamCache.push: which reads a message makes stale.
Stale(message) ==
  CASE message.kind = "ping"      -> {}
    [] message.kind = "allowance" -> {"list"}
    [] message.kind = "event"     -> {"feed"}
    [] OTHER                      -> Queries

Receive ==
  /\ es = "open" /\ wire # <<>>
  /\ wire' = Tail(wire)
  /\ silence' = 0
  /\ LET message == Head(wire) IN
       /\ status' = IF message.kind = "ready" THEN "live" ELSE status
       /\ pend' = pend \cup Stale(message)
       /\ floor' = IF message.slot > floor /\ message.kind = "allowance"
                     THEN message.slot ELSE floor
  /\ UNCHANGED <<data, hub, srv, outbox, leaked, es, reads, faults>>

\* A frame this page cannot parse counts as a resync.
ReceiveUnknown ==
  /\ Fault /\ es = "open" /\ wire # <<>> /\ Head(wire).kind # "ready"
  /\ wire' = Tail(wire) /\ silence' = 0 /\ pend' = Queries
  /\ UNCHANGED <<data, hub, srv, outbox, leaked, es, status, floor, reads>>

-----------------------------------------------------------------------------
(* The page's reads, in the query cache.                                   *)

\* A refetch replaces a request under way, unless the query has no data yet:
\* then it joins that request.
Joins(q) == req[q].stage # "idle" /\ shown[q] = Nothing

\* Mutant of Flush: what is stale is marked so and not asked for again.
FlushWithoutRefetch ==
  /\ pend # {} /\ es # "gone"
  /\ pend' = {}
  /\ UNCHANGED <<data, hub, stream, source, floor, reads, faults>>

Flush ==
  /\ pend # {} /\ es # "gone"
  /\ pend' = {}
  /\ req' = [q \in Queries |-> IF q \in pend /\ ~Joins(q) THEN Asked ELSE req[q]]
  /\ overtaken' = [q \in Queries |-> IF q \in pend THEN Joins(q) ELSE overtaken[q]]
  /\ UNCHANGED <<data, hub, stream, source, floor, shown, failed, behind, faults>>

Answer(q, slot) == req' = [req EXCEPT ![q].stage = "answered", ![q].ans = slot]

ReadStore ==
  /\ req["feed"].stage = "asked"
  /\ Answer("feed", feed)
  /\ UNCHANGED <<data, hub, stream, source, cache, shown, failed, behind, overtaken, faults>>

\* The request and its one retry failed; the answer shown before stays.
Fails(q) ==
  /\ req' = [req EXCEPT ![q] = Idle]
  /\ failed' = [failed EXCEPT ![q] = TRUE]

\* A node answers the state of a slot it has reached.
NodeSlots == {s \in 0 .. chain : s >= chain - MaxLag}

ReadNode ==
  /\ req["list"].stage = "asked"
  /\ \E slot \in NodeSlots :
       /\ slot >= req["list"].floor
       /\ Answer("list", slot)
       /\ behind' = (slot < row)
  /\ UNCHANGED <<data, hub, stream, source, cache, shown, failed, overtaken, faults>>

\* readAtLeast: a node below the floor is asked a few times more (which changes
\* nothing here), and then the read is refused by name.
NodeBehind ==
  /\ req["list"].stage = "asked"
  /\ \E slot \in NodeSlots : slot < req["list"].floor
  /\ Fails("list")
  /\ UNCHANGED <<data, hub, stream, source, cache, shown, behind, overtaken, faults>>

RequestFails ==
  /\ Fault
  /\ \E q \in Queries : req[q].stage # "idle" /\ Fails(q)
  /\ UNCHANGED <<data, hub, stream, source, cache, shown, behind, overtaken>>

\* The answer reaches the screen, and clears an earlier failure.
Settle ==
  \E q \in Queries :
    /\ req[q].stage = "answered"
    /\ shown' = [shown EXCEPT ![q] = req[q].ans]
    /\ req' = [req EXCEPT ![q] = Idle]
    /\ failed' = [failed EXCEPT ![q] = FALSE]
    /\ UNCHANGED <<data, hub, stream, source, cache, behind, overtaken, faults>>

\* Another wallet is chosen: the stream is closed, what was gathered is dropped,
\* requests are cancelled; the cached answers stay.
SwitchWallet ==
  /\ Fault /\ es # "gone"
  /\ es' = "gone" /\ status' = "connecting" /\ silence' = 0
  /\ LeaveStream
  /\ pend' = {}
  /\ req' = [q \in Queries |-> Idle]
  /\ UNCHANGED <<data, hub, floor, shown, failed, behind, overtaken>>

\* Back to the wallet: nothing is fresh enough not to be read again.
SwitchBack ==
  /\ es = "gone"
  /\ es' = "connecting"
  /\ req' = [q \in Queries |-> Asked]
  /\ overtaken' = [q \in Queries |-> FALSE]
  /\ UNCHANGED <<data, hub, stream, status, silence, cache, shown, failed, behind, faults>>

-----------------------------------------------------------------------------
Database == Change \/ StoreWrite \/ StoreRefresh \/ StoreFeed
Session  == Listen \/ SessionCloses \/ SessionGoesDeaf \/ ProbeLost
Server   == Handle \/ Deliver \/ RowReadFails \/ Write \/ Abort \/ ApiRestarts
Browser  == Connect \/ Refused \/ Retry \/ Drop \/ GoDead \/ Heartbeat \/ Watchdog
              \/ Receive \/ ReceiveUnknown
Page     == Flush \/ ReadStore \/ ReadNode \/ NodeBehind \/ RequestFails \/ Settle
              \/ SwitchWallet \/ SwitchBack
Next     == Database \/ Session \/ Server \/ Browser \/ Page

Spec == Init /\ [][Next]_vars

\* Timers, queues and requests of running processes go on; the database, the
\* chain and failures promise nothing. A server that runs answers one of the
\* attempts before the watchdog ends it.
Fairness ==
  /\ WF_vars(Listen \/ ProbeLost)
  /\ WF_vars(Handle \/ Deliver) /\ WF_vars(Write) /\ WF_vars(Abort)
  /\ SF_vars(Connect) /\ WF_vars(Retry \/ Heartbeat \/ Watchdog)
  /\ WF_vars(Receive) /\ WF_vars(Flush)
  /\ WF_vars(ReadStore) /\ WF_vars(ReadNode \/ NodeBehind) /\ WF_vars(Settle)
  /\ WF_vars(SwitchBack)

FairSpec == Spec /\ Fairness

-----------------------------------------------------------------------------
Notes    == [kind : {"none", "ready", "resync", "ping", "wallet", "allowance", "event"},
             slot : {Nothing} \cup 0 .. MaxSlot]
Notices  == {note \in Notes : note.kind \in {"resync", "wallet", "allowance", "event"}}

(* Every variable has the shape the code gives it; the outbox never holds  *)
(* more than MaxBacklog messages and no more streams are held than allowed *)
(* (routes/stream.ts createOutbox, stream.ts subscribe).                   *)
TypeOK ==
  /\ chain \in 0 .. MaxSlot /\ row \in 0 .. chain /\ feed \in 0 .. MaxFeed
  /\ listener \in {"down", "hearing", "deaf"}
  /\ queue \in Seq(Notices) /\ reading \in Notes
  /\ srv \in BOOLEAN /\ outbox \in Seq(Notes) /\ wire \in Seq(Notes)
  /\ Len(outbox) <= MaxBacklog
  /\ leaked \in 0 .. MaxStreams /\ (srv => leaked < MaxStreams)
  /\ es \in {"connecting", "open", "dead", "closed", "gone"}
  /\ status \in {"connecting", "live", "reconnecting", "down"}
  /\ silence \in 0 .. 2
  /\ pend \subseteq Queries /\ floor \in 0 .. MaxSlot
  /\ shown \in [Queries -> {Nothing} \cup 0 .. MaxSlot + MaxFeed]
  /\ req \in [Queries -> [stage : {"idle", "asked", "answered"},
                          floor : 0 .. MaxSlot, ans : {Nothing} \cup 0 .. MaxSlot + MaxFeed]]
  /\ failed \in [Queries -> BOOLEAN] /\ overtaken \in [Queries -> BOOLEAN]
  /\ behind \in BOOLEAN /\ faults \in 0 .. MaxFaults

\* The page says it is live and nothing is on its way to it.
Quiet ==
  /\ status = "live" /\ es = "open" /\ listener = "hearing"
  /\ queue = <<>> /\ reading = Note("none")
  /\ \A i \in DOMAIN outbox : outbox[i].kind = "ping"
  /\ \A i \in DOMAIN wire : wire[i].kind = "ping"
  /\ pend = {}

\* Nothing is asked, the screen does not say that reading failed, and the last change did not
\* arrive during the first read of the page: it joined that read, whose answer may be older.
Settled(q) == es # "gone" /\ req[q].stage = "idle" /\ ~failed[q] /\ ~overtaken[q]

(* What a quiet, live page shows is what is stored: no lost notification,  *)
(* deaf session, overflow, reconnect, failed read or restart leaves a      *)
(* silent gap. The list may be older than the store only when the node     *)
(* answered from behind a read that carried no floor for it.               *)
NoSilentGap ==
  Quiet => /\ Settled("feed") => shown["feed"] = feed
           /\ Settled("list") => shown["list"] >= row \/ behind

(* With every queue and the number of streams within their limits.         *)
LiveIsTrue == TypeOK /\ NoSilentGap

(* After an update no answer from before it replaces the list on the       *)
(* screen (slotFloors.ts, readAtLeast). The page's first list is outside:  *)
(* an update that comes while it is read joins that read, which has no     *)
(* floor, and an answer from before the update is shown and stays.         *)
NeverOlderThanUpdate ==
  [][pend = {} /\ shown["list"] # Nothing =>
       shown'["list"] = shown["list"] \/ shown'["list"] >= floor]_vars

(* A stream that was heard and is served is never replaced without a       *)
(* failure: the ping keeps a quiet one from being taken for dead           *)
(* (routes/stream.ts heartbeat, lib/stream.ts watchdog).                   *)
LiveStreamKept ==
  [][es = "open" /\ status = "live" /\ faults' = faults => es' = "open"]_vars

(* A half-open connection is noticed and the page hears the server again   *)
(* (lib/stream.ts watchdog, retry; listen.ts probe).                       *)
HearsAgain == []<>(es = "open" /\ status = "live" /\ listener = "hearing")

(* What is stored reaches the screen, or the screen says the read failed:  *)
(* no lost notice, dead socket, failed row read or restart keeps it away   *)
(* for good (stream.ts, listen.ts, streamCache.ts).                        *)
ReachesScreen ==
  <>[](/\ shown["feed"] = feed \/ failed["feed"] \/ overtaken["feed"]
       /\ shown["list"] >= row \/ behind \/ failed["list"] \/ overtaken["list"])

(* Both: a page comes back to life, and to what is stored.                 *)
EventuallyShown == HearsAgain /\ ReachesScreen

-----------------------------------------------------------------------------
(***************************************************************************)
(* Why a live page is true.                                                *)
(***************************************************************************)

\* One of the messages makes the page read q again.
Carries(messages, q) == \E i \in DOMAIN messages : q \in Stale(messages[i])

\* Something that will make the page read q again is on its way, or will be: a session that
\* does not hear ends in a resync, a stream that is not open in `ready`.
Coming(q) ==
  \/ listener # "hearing" \/ es # "open" \/ q \in pend
  \/ Carries(queue, q) \/ Carries(outbox, q) \/ Carries(wire, q)
  \/ reading # Note("none") /\ q \in Stale(reading)

\* Until then what was read is what is stored.
FeedKept ==
  \/ Coming("feed") \/ overtaken["feed"]
  \/ /\ req["feed"].stage = "answered" => req["feed"].ans = feed
     /\ req["feed"].stage = "idle" => failed["feed"] \/ shown["feed"] = feed

\* The same of the list, but for the answer of a node that was behind.
ListKept ==
  \/ Coming("list") \/ overtaken["list"] \/ req["list"].stage = "asked" \/ behind
  \/ /\ req["list"].stage = "answered" => req["list"].ans >= row
     /\ req["list"].stage = "idle" => failed["list"] \/ shown["list"] >= row

\* A list that replaces another, and need not be read again, was asked for at the floor.
FloorKept ==
  es # "gone" =>
    \/ "list" \in pend \/ shown["list"] = Nothing
    \/ /\ req["list"].stage = "asked" => req["list"].floor = floor
       /\ req["list"].stage = "answered" => req["list"].ans >= floor
GoneIsIdle == es = "gone" => \A q \in Queries : req[q].stage = "idle"

\* An open stream is served, and what breaks its silence is in it before it is taken for dead.
OpenIsServed ==
  es = "open" => srv /\ silence < 2 /\ (silence = 1 => outbox # <<>> \/ wire # <<>>)

LInv == TypeOK /\ FeedKept /\ ListKept /\ FloorKept /\ GoneIsIdle /\ OpenIsServed
=============================================================================
