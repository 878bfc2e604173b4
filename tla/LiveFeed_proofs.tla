--------------------------- MODULE LiveFeed_proofs --------------------------
(***************************************************************************)
(* LiveFeed, proved for every number of slots, revisions, streams and      *)
(* failures, every lag of the node and every backlog: a page that says it  *)
(* is live shows what is stored, never an answer older than an update it   *)
(* was told of, and keeps a stream that carries something.                 *)
(***************************************************************************)
EXTENDS LiveFeed, TLAPS

(***************************************************************************)
(* Sequences of messages.                                                  *)
(***************************************************************************)

Kinds == {"none", "ready", "resync", "ping", "wallet", "allowance", "event"}
Slots == {Nothing} \cup 0 .. MaxSlot

Announced == {"resync", "wallet", "allowance", "event"}

LEMMA NoteType == \A kind \in Kinds : Note(kind) \in Notes
BY Bounds DEF Note, Notes, Kinds, Nothing

LEMMA NoticeType == Notices \subseteq Notes /\ \A kind \in Announced : Note(kind) \in Notices
BY Bounds DEF Note, Notes, Notices, Announced, Nothing

\* A message at the end joins those before it.
LEMMA AppendCarries ==
  ASSUME NEW S, NEW s \in Seq(S), NEW m \in S, NEW q
  PROVE  /\ Append(s, m) \in Seq(S)
         /\ Carries(s, q) \/ q \in Stale(m) => Carries(Append(s, m), q)
<1>1. /\ Append(s, m) \in Seq(S) /\ Len(Append(s, m)) = Len(s) + 1 /\ Len(s) \in Nat
      /\ \A i \in 1 .. Len(s) : Append(s, m)[i] = s[i]
      /\ Append(s, m)[Len(s) + 1] = m
  OBVIOUS
<1>2. DOMAIN s = 1 .. Len(s) /\ DOMAIN Append(s, m) = 1 .. Len(s) + 1
  BY <1>1
<1>3. ASSUME Carries(s, q) PROVE Carries(Append(s, m), q)
  <2>1. PICK i \in 1 .. Len(s) : q \in Stale(s[i])
    BY <1>2, <1>3 DEF Carries
  <2>2. i \in 1 .. Len(s) + 1 /\ Append(s, m)[i] = s[i]
    BY <1>1, <2>1
  <2>3. QED
    BY <1>2, <2>1, <2>2 DEF Carries
<1>4. ASSUME q \in Stale(m) PROVE Carries(Append(s, m), q)
  <2>1. Len(s) + 1 \in 1 .. Len(s) + 1
    BY <1>1
  <2>2. QED
    BY <1>1, <1>2, <1>4, <2>1 DEF Carries
<1>5. QED
  BY <1>1, <1>3, <1>4

\* What a sequence carried is in its first message, or in what follows it.
LEMMA TailCarries ==
  ASSUME NEW S, NEW s \in Seq(S), s # <<>>, NEW q
  PROVE  /\ Head(s) \in S /\ Tail(s) \in Seq(S) /\ Len(Tail(s)) <= Len(s)
         /\ Carries(s, q) => q \in Stale(Head(s)) \/ Carries(Tail(s), q)
<1>1. /\ Head(s) \in S /\ Tail(s) \in Seq(S) /\ Len(s) \in Nat \ {0}
      /\ Head(s) = s[1] /\ Len(Tail(s)) = Len(s) - 1
      /\ \A i \in 1 .. Len(s) - 1 : Tail(s)[i] = s[i + 1]
      /\ DOMAIN s = 1 .. Len(s) /\ DOMAIN Tail(s) = 1 .. Len(s) - 1
  OBVIOUS
<1>2. ASSUME Carries(s, q), q \notin Stale(Head(s)) PROVE Carries(Tail(s), q)
  <2>1. PICK i \in 1 .. Len(s) : q \in Stale(s[i])
    BY <1>1, <1>2 DEF Carries
  <2>2. PICK j \in 1 .. Len(s) - 1 : i = j + 1
    <3>1. i # 1
      BY <1>1, <1>2, <2>1
    <3>2. i - 1 \in 1 .. Len(s) - 1 /\ i = (i - 1) + 1
      BY <1>1, <2>1, <3>1
    <3>3. QED
      BY <3>2
  <2>3. q \in Stale(Tail(s)[j])
    BY <1>1, <2>1, <2>2
  <2>4. QED
    BY <1>1, <2>3 DEF Carries
<1>3. QED
  BY <1>1, <1>2

\* Two sequences, one behind the other.
LEMMA Concatenation ==
  ASSUME NEW S, NEW s \in Seq(S), NEW t \in Seq(S)
  PROVE  /\ s \o t \in Seq(S) /\ DOMAIN (s \o t) = 1 .. Len(s) + Len(t)
         /\ \A i \in 1 .. Len(s) : (s \o t)[i] = s[i]
         /\ \A i \in 1 .. Len(t) : (s \o t)[Len(s) + i] = t[i]
<1>1. s \o t \in Seq(S) /\ Len(s \o t) = Len(s) + Len(t)
  OBVIOUS
<1>2. \A i \in 1 .. Len(s) + Len(t) :
        (s \o t)[i] = IF i <= Len(s) THEN s[i] ELSE t[i - Len(s)]
  OBVIOUS
<1>3. ASSUME NEW i \in 1 .. Len(t)
      PROVE  (s \o t)[Len(s) + i] = t[i]
  <2>1. /\ Len(s) + i \in 1 .. Len(s) + Len(t) /\ ~(Len(s) + i <= Len(s))
        /\ (Len(s) + i) - Len(s) = i
    OBVIOUS
  <2>2. QED
    BY <1>2, <2>1
<1>4. QED
  BY <1>1, <1>2, <1>3

\* What is announced to a session that hears is behind all that waits.
LEMMA AnnounceCarries ==
  ASSUME queue \in Seq(Notices), NEW kinds \in Seq(Announced), Announce(kinds), listener = "hearing",
         NEW q
  PROVE  /\ queue' \in Seq(Notices)
         /\ Carries(queue, q) => Carries(queue, q)'
         /\ \A i \in DOMAIN kinds : q \in Stale(Note(kinds[i])) => Carries(queue, q)'
<1> DEFINE new == [i \in DOMAIN kinds |-> Note(kinds[i])]
<1>1. /\ new \in Seq(Notices) /\ Len(new) = Len(kinds) /\ Len(kinds) \in Nat /\ Len(queue) \in Nat
      /\ DOMAIN kinds = 1 .. Len(kinds) /\ DOMAIN queue = 1 .. Len(queue)
      /\ \A i \in 1 .. Len(kinds) : new[i] = Note(kinds[i])
  BY NoticeType
<1>2. queue' = queue \o new
  BY DEF Announce
<1> HIDE DEF new
<1>3. /\ queue' \in Seq(Notices) /\ DOMAIN queue' = 1 .. Len(queue) + Len(kinds)
      /\ \A i \in 1 .. Len(queue) : queue'[i] = queue[i]
      /\ \A i \in 1 .. Len(kinds) : queue'[Len(queue) + i] = new[i]
  <2>1. \A s \in Seq(Notices), t \in Seq(Notices) :
          /\ s \o t \in Seq(Notices) /\ DOMAIN (s \o t) = 1 .. Len(s) + Len(t)
          /\ \A i \in 1 .. Len(s) : (s \o t)[i] = s[i]
          /\ \A i \in 1 .. Len(t) : (s \o t)[Len(s) + i] = t[i]
    BY Concatenation
  <2>2. QED
    BY <1>1, <1>2, <2>1
<1>4. ASSUME Carries(queue, q) PROVE Carries(queue, q)'
  <2>1. PICK i \in 1 .. Len(queue) : q \in Stale(queue[i])
    BY <1>1, <1>4 DEF Carries
  <2>2. i \in DOMAIN queue' /\ queue'[i] = queue[i]
    BY <1>1, <1>3, <2>1
  <2>3. QED
    BY <2>1, <2>2 DEF Carries
<1>5. ASSUME NEW i \in DOMAIN kinds, q \in Stale(Note(kinds[i])) PROVE Carries(queue, q)'
  <2>1. Len(queue) + i \in DOMAIN queue' /\ queue'[Len(queue) + i] = Note(kinds[i])
    BY <1>1, <1>3
  <2>2. QED
    BY <1>5, <2>1 DEF Carries
<1>6. QED
  BY <1>3, <1>4, <1>5

\* A stream is sent a message behind the others, or told to read everything again.
LEMMA SendCarries ==
  ASSUME TypeOK, NEW m \in Notes, Send(m)
  PROVE  /\ outbox' \in Seq(Notes) /\ Len(outbox') <= MaxBacklog
         /\ srv => outbox' # <<>>
         /\ \A q \in Queries :
              srv /\ (Carries(outbox, q) \/ q \in Stale(m)) => Carries(outbox, q)'
<1>1. /\ outbox \in Seq(Notes) /\ Len(outbox) \in Nat /\ Len(outbox) <= MaxBacklog
      /\ MaxBacklog \in Nat \ {0}
  BY Bounds DEF TypeOK
<1>2. CASE ~srv
  BY <1>1, <1>2 DEF Send
<1>3. CASE srv /\ outbox' = <<Note("resync")>>
  <2>1. Note("resync") \in Notes /\ \A q \in Queries : q \in Stale(Note("resync"))
    BY NoteType DEF Kinds, Stale, Note
  <2>2. /\ outbox' \in Seq(Notes) /\ Len(outbox') = 1 /\ outbox' # <<>>
        /\ 1 \in DOMAIN outbox' /\ outbox'[1] = Note("resync")
    BY <1>3, <2>1
  <2>3. QED
    BY <1>1, <2>1, <2>2 DEF Carries
<1>4. CASE srv /\ outbox' = Append(outbox, m) /\ Len(outbox) + 1 <= MaxBacklog
  <2>1. Len(outbox') = Len(outbox) + 1 /\ outbox' # <<>>
    BY <1>1, <1>4
  <2>2. QED
    BY <1>1, <1>4, <2>1, AppendCarries DEF Carries
<1>5. QED
  BY <1>1, <1>2, <1>3, <1>4 DEF Send

(***************************************************************************)
(* Types.                                                                  *)
(***************************************************************************)

DataType   == chain \in 0 .. MaxSlot /\ row \in 0 .. chain /\ feed \in 0 .. MaxFeed
HubType    == /\ listener \in {"down", "hearing", "deaf"}
              /\ queue \in Seq(Notices) /\ reading \in Notes
StreamType == /\ srv \in BOOLEAN /\ outbox \in Seq(Notes) /\ wire \in Seq(Notes)
              /\ Len(outbox) <= MaxBacklog
              /\ leaked \in 0 .. MaxStreams /\ (srv => leaked < MaxStreams)
SourceType == /\ es \in {"connecting", "open", "dead", "closed", "gone"}
              /\ status \in {"connecting", "live", "reconnecting", "down"}
              /\ silence \in 0 .. 2
CacheType  == /\ pend \subseteq Queries /\ floor \in 0 .. MaxSlot /\ faults \in 0 .. MaxFaults
Answers    == {Nothing} \cup 0 .. MaxSlot + MaxFeed
Request    == [stage : {"idle", "asked", "answered"}, floor : 0 .. MaxSlot, ans : Answers]
ReadType   == /\ shown \in [Queries -> Answers] /\ req \in [Queries -> Request]
              /\ failed \in [Queries -> BOOLEAN] /\ overtaken \in [Queries -> BOOLEAN]
              /\ behind \in BOOLEAN

LEMMA DataStep ==
  ASSUME DataType, [Next]_vars
  PROVE  DataType' /\ chain <= chain' /\ row <= row'
BY Bounds DEF DataType, Next, Database, Session, Server, Browser, Page, vars, data,
  Change, StoreWrite, StoreRefresh, StoreFeed, Listen, SessionCloses, SessionGoesDeaf, ProbeLost,
  Handle, Deliver, RowReadFails, Write, Abort, ApiRestarts, Connect, Refused, Retry, Drop, GoDead,
  Heartbeat, Watchdog, Receive, ReceiveUnknown, Flush, ReadStore, ReadNode, NodeBehind,
  RequestFails, Settle, SwitchWallet, SwitchBack

LEMMA SourceStep ==
  ASSUME SourceType, [Next]_vars
  PROVE  SourceType'
BY DEF SourceType, Next, Database, Session, Server, Browser, Page, vars, source,
  Change, StoreWrite, StoreRefresh, StoreFeed, Listen, SessionCloses, SessionGoesDeaf, ProbeLost,
  Handle, Deliver, RowReadFails, Write, Abort, ApiRestarts, Connect, Refused, Retry, Drop, GoDead,
  Heartbeat, Watchdog, Receive, ReceiveUnknown, Flush, ReadStore, ReadNode, NodeBehind,
  RequestFails, Settle, SwitchWallet, SwitchBack

\* What waits at the hub: nothing but the listener, the store, the hub and a restart touches it.
LEMMA HubStep ==
  ASSUME DataType, HubType, [Next]_vars
  PROVE  HubType'
<1>1. ASSUME NEW kinds \in Seq(Announced), Announce(kinds)
      PROVE  queue' \in Seq(Notices)
  BY <1>1, AnnounceCarries DEF Announce, HubType
<1>2. /\ <<"allowance", "event">> \in Seq(Announced) /\ <<"allowance">> \in Seq(Announced)
      /\ \A kind \in {"event", "wallet"} : <<kind>> \in Seq(Announced)
      /\ Note("resync") \in Notices /\ Note("none") \in Notes /\ <<>> \in Seq(Notices)
  BY NoteType, NoticeType DEF Kinds, Announced
<1>3. CASE StoreWrite \/ StoreRefresh \/ StoreFeed
  BY <1>1, <1>2, <1>3 DEF HubType, StoreWrite, StoreRefresh, StoreFeed
<1>4. CASE Session
  BY <1>2, <1>4, AppendCarries DEF HubType, Session, Listen, SessionCloses, SessionGoesDeaf, ProbeLost
<1>5. CASE Handle
  <2>1. /\ queue # <<>> /\ queue' = Tail(queue) /\ listener' = listener
        /\ \/ reading' = reading
           \/ reading' = [kind |-> Head(queue).kind, slot |-> row]
    BY <1>5 DEF Handle
  <2>2. Head(queue) \in Notes /\ Tail(queue) \in Seq(Notices)
    BY <2>1, TailCarries, NoticeType DEF HubType
  <2>3. [kind |-> Head(queue).kind, slot |-> row] \in Notes
    BY <2>2, Bounds DEF DataType, Notes
  <2>4. QED
    BY <2>1, <2>2, <2>3 DEF HubType
<1>6. CASE Deliver \/ RowReadFails \/ ApiRestarts
  BY <1>2, <1>6 DEF HubType, Deliver, RowReadFails, ApiRestarts
<1>7. CASE UNCHANGED hub
  BY <1>7 DEF HubType, hub
<1>8. QED
  BY <1>3, <1>4, <1>5, <1>6, <1>7 DEF Next, Database, Server, Browser, Page, vars, Change, Write,
    Abort, Connect, Refused, Retry, Drop, GoDead, Heartbeat, Watchdog, Receive, ReceiveUnknown,
    Flush, ReadStore, ReadNode, NodeBehind, RequestFails, Settle, SwitchWallet, SwitchBack

\* A stream's messages; the streams a process holds stay within its limit.
LEMMA StreamStep ==
  ASSUME TypeOK, [Next]_vars
  PROVE  StreamType'
<1>1. /\ Note("resync") \in Notes /\ Note("ready") \in Notes /\ Note("ping") \in Notes
      /\ <<>> \in Seq(Notes) /\ \A m \in Notes : <<m>> \in Seq(Notes) /\ Len(<<m>>) = 1
      /\ Len(<<>>) = 0 /\ MaxBacklog \in Nat \ {0} /\ MaxStreams \in Nat /\ reading \in Notes
      /\ StreamType
  BY NoteType, Bounds DEF Kinds, TypeOK, StreamType
<1>2. ASSUME NEW m \in Notes, Send(m), UNCHANGED <<srv, wire, leaked>>
      PROVE  StreamType'
  BY <1>1, <1>2, SendCarries DEF StreamType
<1>3. CASE UNCHANGED stream
  BY <1>1, <1>3 DEF StreamType, stream
<1>4. ASSUME LeaveStream PROVE StreamType'
  <2>1. srv' \in BOOLEAN /\ ~srv' /\ outbox' = <<>> /\ wire' = <<>>
    BY <1>4 DEF LeaveStream
  <2>2. leaked' \in 0 .. MaxStreams
    <3>1. CASE srv
      BY <1>1, <1>4, <3>1 DEF StreamType, LeaveStream
    <3>2. CASE ~srv
      BY <1>1, <1>4, <3>2 DEF StreamType, LeaveStream
    <3>3. QED
      BY <3>1, <3>2
  <2>3. QED
    BY <1>1, <2>1, <2>2 DEF StreamType
<1>5. CASE Handle
  BY <1>1, <1>2, <1>3, <1>5 DEF Handle, stream
<1>6. CASE Deliver \/ RowReadFails
  BY <1>1, <1>2, <1>6 DEF Deliver, RowReadFails
<1>7. CASE Write \/ Abort \/ ApiRestarts
  <2>1. CASE Write
    BY <1>1, <2>1 DEF StreamType, Write
  <2>2. CASE Abort
    <3>1. leaked' \in Nat /\ leaked' <= leaked /\ srv' = srv /\ outbox' = outbox /\ wire' = wire
      BY <1>1, <2>2 DEF StreamType, Abort
    <3>2. QED
      BY <1>1, <3>1 DEF StreamType
  <2>3. CASE ApiRestarts
    <3>1. srv' \in BOOLEAN /\ ~srv' /\ outbox' = <<>> /\ wire' = <<>> /\ leaked' = 0
      BY <2>3 DEF ApiRestarts
    <3>2. QED
      BY <1>1, <3>1 DEF StreamType
  <2>4. QED
    BY <1>7, <2>1, <2>2, <2>3
<1>8. CASE Connect
  BY <1>1, <1>8 DEF StreamType, Connect
<1>9. CASE Drop \/ GoDead \/ Watchdog \/ SwitchWallet
  BY <1>4, <1>9 DEF Drop, GoDead, Watchdog, SwitchWallet
<1>10. CASE Heartbeat
  BY <1>1, <1>10 DEF StreamType, Heartbeat
<1>11. CASE Receive \/ ReceiveUnknown
  <2>1. wire # <<>> /\ wire' = Tail(wire) /\ UNCHANGED <<srv, outbox, leaked>>
    BY <1>11 DEF Receive, ReceiveUnknown
  <2>2. wire' \in Seq(Notes)
    BY <1>1, <2>1, TailCarries DEF StreamType
  <2>3. QED
    BY <1>1, <2>1, <2>2 DEF StreamType
<1>12. QED
  BY <1>3, <1>5, <1>6, <1>7, <1>8, <1>9, <1>10, <1>11 DEF Next, Database, Session, Server, Browser,
    Page, vars, Change, StoreWrite, StoreRefresh, StoreFeed, Listen, SessionCloses,
    SessionGoesDeaf, ProbeLost, Refused, Retry, Flush, ReadStore, ReadNode, NodeBehind,
    RequestFails, Settle, SwitchBack

LEMMA CacheStep ==
  ASSUME TypeOK, [Next]_vars
  PROVE  CacheType'
<1>1. CacheType /\ MaxFaults \in Nat /\ MaxSlot \in Nat
  BY Bounds DEF TypeOK, CacheType
<1>2. CASE Receive \/ ReceiveUnknown
  <2>1. wire # <<>> /\ Head(wire) \in Notes
    BY <1>2, TailCarries DEF Receive, ReceiveUnknown, TypeOK
  <2>2. Stale(Head(wire)) \subseteq Queries
    BY DEF Stale, Queries
  <2>3. QED
    BY <1>1, <1>2, <2>1, <2>2, Bounds DEF Receive, ReceiveUnknown, CacheType, Fault, Notes, Nothing
<1>3. CASE ~(Receive \/ ReceiveUnknown)
  BY <1>1, <1>3 DEF CacheType, Fault, cache, Next, Database, Session, Server, Browser, Page, vars,
  Change, StoreWrite, StoreRefresh, StoreFeed, Listen, SessionCloses, SessionGoesDeaf, ProbeLost,
  Handle, Deliver, RowReadFails, Write, Abort, ApiRestarts, Connect, Refused, Retry, Drop, GoDead,
  Heartbeat, Watchdog, Receive, ReceiveUnknown, Flush, ReadStore, ReadNode, NodeBehind,
  RequestFails, Settle, SwitchWallet, SwitchBack
<1>4. QED
  BY <1>2, <1>3

LEMMA ReadStep ==
  ASSUME TypeOK, [Next]_vars
  PROVE  ReadType'
<1>1. /\ ReadType /\ MaxFeed \in Nat /\ MaxSlot \in Nat
      /\ floor \in 0 .. MaxSlot /\ feed \in Answers /\ 0 .. chain \subseteq Answers
  BY Bounds DEF TypeOK, ReadType, Answers, Request
<1>2. Idle \in Request /\ Asked \in Request
  <2>1. Nothing \in Answers
    BY DEF Answers
  <2>2. Idle \in Request
    BY <1>1, <2>1 DEF Idle, Request
  <2>3. QED
    BY <1>1, <2>1, <2>2 DEF Asked, Request
<1>3. CASE UNCHANGED reads
  BY <1>1, <1>3 DEF ReadType, reads
<1>4. CASE Flush \/ SwitchWallet \/ SwitchBack
  BY <1>1, <1>2, <1>4 DEF ReadType, Flush, Joins, SwitchWallet, SwitchBack
<1>5. CASE ReadStore
  BY <1>1, <1>5 DEF ReadType, ReadStore, Answer, Request, Queries
<1>6. CASE ReadNode
  <2>1. PICK slot \in 0 .. chain : Answer("list", slot) /\ behind' = (slot < row)
    BY <1>6 DEF ReadNode, NodeSlots
  <2>2. req' \in [Queries -> Request]
    BY <1>1, <2>1 DEF ReadType, Answer, Request, Queries
  <2>3. behind' \in BOOLEAN /\ UNCHANGED <<shown, failed, overtaken>>
    BY <1>6, <2>1 DEF ReadNode
  <2>4. QED
    BY <1>1, <2>2, <2>3 DEF ReadType
<1>7. CASE NodeBehind \/ RequestFails
  BY <1>1, <1>2, <1>7 DEF ReadType, NodeBehind, RequestFails, Fails
<1>8. CASE Settle
  BY <1>1, <1>2, <1>8 DEF ReadType, Settle, Request
<1>9. QED
  BY <1>3, <1>4, <1>5, <1>6, <1>7, <1>8 DEF Next, Database, Session, Server, Browser, Page, vars,
    Change, StoreWrite, StoreRefresh, StoreFeed, Listen, SessionCloses, SessionGoesDeaf, ProbeLost,
    Handle, Deliver, RowReadFails, Write, Abort, ApiRestarts, Connect, Refused, Retry, Drop, GoDead,
    Heartbeat, Watchdog, Receive, ReceiveUnknown

LEMMA TypeStep == TypeOK /\ [Next]_vars => TypeOK'
<1> SUFFICES ASSUME TypeOK, [Next]_vars PROVE TypeOK'
  OBVIOUS
<1>1. DataType /\ HubType /\ SourceType
  BY DEF TypeOK, DataType, HubType, SourceType
<1>2. DataType' /\ HubType' /\ SourceType' /\ StreamType' /\ CacheType' /\ ReadType'
  BY <1>1, DataStep, HubStep, SourceStep, StreamStep, CacheStep, ReadStep
<1>3. QED
  BY <1>2 DEF TypeOK, DataType, HubType, SourceType, StreamType, CacheType, ReadType, Answers, Request

(***************************************************************************)
(* What is on its way arrives.                                             *)
(***************************************************************************)

\* An open stream is served until it is closed, and its silence is broken in time.
LEMMA OpenStep ==
  ASSUME TypeOK, OpenIsServed, [Next]_vars
  PROVE  OpenIsServed'
<1>1. silence \in 0 .. 2 /\ reading \in Notes /\ Note("resync") \in Notes
  BY NoteType DEF TypeOK, Kinds
<1>2. ASSUME es' = es, silence' = silence, srv' = srv,
             srv /\ (outbox # <<>> \/ wire # <<>>) => outbox' # <<>> \/ wire' # <<>>
      PROVE  OpenIsServed'
  BY <1>2 DEF OpenIsServed
<1>3. ASSUME NEW m \in Notes, Send(m), es' = es, silence' = silence, srv' = srv, wire' = wire
      PROVE  OpenIsServed'
  BY <1>2, <1>3, SendCarries
<1>4. ASSUME es' # "open" PROVE OpenIsServed'
  BY <1>4 DEF OpenIsServed
<1>5. CASE Handle \/ Deliver \/ RowReadFails
  <2>1. UNCHANGED <<es, silence, srv, wire>>
    BY <1>5 DEF Handle, Deliver, RowReadFails, source
  <2>2. outbox' = outbox \/ Send(reading) \/ Send(Note("resync"))
    BY <1>5 DEF Handle, Deliver, RowReadFails
  <2>3. QED
    BY <1>1, <1>2, <1>3, <2>1, <2>2
<1>6. CASE Write
  BY <1>2, <1>6 DEF Write, source
<1>7. CASE ApiRestarts \/ Refused \/ Retry \/ Drop \/ GoDead \/ Watchdog \/ SwitchWallet \/ SwitchBack
  BY <1>4, <1>7 DEF ApiRestarts, Refused, Retry, Drop, GoDead, Watchdog, SwitchWallet, SwitchBack
<1>8. CASE Connect
  BY <1>1, <1>8 DEF Connect, OpenIsServed
<1>9. CASE Heartbeat
  BY <1>1, <1>9 DEF Heartbeat, OpenIsServed
<1>10. CASE Receive \/ ReceiveUnknown
  BY <1>10 DEF Receive, ReceiveUnknown, OpenIsServed
<1>11. CASE UNCHANGED <<es, silence, srv, outbox, wire>>
  BY <1>2, <1>11
<1>12. QED
  BY <1>5, <1>6, <1>7, <1>8, <1>9, <1>10, <1>11 DEF Next, Database, Session, Server, Browser, Page,
    vars, stream, source, Change, StoreWrite, StoreRefresh, StoreFeed, Listen, SessionCloses,
    SessionGoesDeaf, ProbeLost, Abort, Flush, ReadStore, ReadNode, NodeBehind, RequestFails, Settle

\* What is on its way to the page stays on its way, whatever fails, until the page gathers it.
LEMMA ComingStep ==
  ASSUME TypeOK, OpenIsServed, [Next]_vars, NEW q \in Queries, Coming(q)
  PROVE  Coming(q)' \/ (Flush /\ q \in pend)
<1>1. /\ queue \in Seq(Notices) /\ outbox \in Seq(Notes) /\ wire \in Seq(Notes) /\ reading \in Notes
      /\ es = "open" => srv
      /\ Note("resync") \in Notices /\ Note("resync") \in Notes /\ q \in Stale(Note("resync"))
  BY NoteType, NoticeType DEF TypeOK, OpenIsServed, Kinds, Announced, Stale, Note
<1>2. ASSUME listener' # "hearing" \/ es' # "open" PROVE Coming(q)'
  BY <1>2 DEF Coming
<1>3. ASSUME UNCHANGED <<listener, queue, reading, es, outbox, wire>>, q \in pend => q \in pend'
      PROVE  Coming(q)'
  BY <1>3 DEF Coming, Carries
<1>4. CASE StoreWrite \/ StoreRefresh \/ StoreFeed
  <2>0. /\ <<"allowance", "event">> \in Seq(Announced) /\ <<"allowance">> \in Seq(Announced)
        /\ \A kind \in {"event", "wallet"} : <<kind>> \in Seq(Announced)
    BY DEF Announced
  <2>1. PICK kinds \in Seq(Announced) : Announce(kinds)
    <3>1. CASE StoreWrite
      BY <2>0, <3>1 DEF StoreWrite
    <3>2. CASE StoreRefresh
      BY <2>0, <3>2 DEF StoreRefresh
    <3>3. CASE StoreFeed
      BY <2>0, <3>3 DEF StoreFeed
    <3>4. QED
      BY <1>4, <3>1, <3>2, <3>3
  <2>2. UNCHANGED <<listener, reading, es, outbox, wire, pend>>
    BY <1>4 DEF StoreWrite, StoreRefresh, StoreFeed, stream, source, cache
  <2>3. CASE listener = "hearing"
    BY <1>1, <2>1, <2>2, <2>3, AnnounceCarries DEF Coming, Carries
  <2>4. QED
    BY <1>2, <2>2, <2>3
<1>5. CASE Session
  <2>1. CASE Listen
    <3>1. Carries(queue, q)'
      BY <1>1, <2>1, AppendCarries DEF Listen, Carries
    <3>2. QED
      BY <3>1 DEF Coming
  <2>2. QED
    BY <1>2, <1>5, <2>1 DEF Session, SessionCloses, SessionGoesDeaf, ProbeLost
<1>6. CASE Handle
  <2>1. /\ queue # <<>> /\ queue' = Tail(queue) /\ UNCHANGED <<listener, es, pend, wire, srv>>
        /\ reading = Note("none")
    BY <1>6 DEF Handle, source, cache
  <2>2. SUFFICES ASSUME listener = "hearing", es = "open" PROVE Coming(q)'
    BY <1>2, <2>1
  <2>3. /\ Head(queue) \in Notices
        /\ Carries(queue, q) => q \in Stale(Head(queue)) \/ Carries(queue, q)'
    BY <1>1, <2>1, TailCarries DEF Carries
  <2>4. \/ Send(Note("resync"))
        \/ /\ reading' = [kind |-> Head(queue).kind, slot |-> row] /\ outbox' = outbox
           /\ Head(queue).kind \in {"allowance", "event"}
    BY <1>1, <1>6, <2>2, <2>3 DEF Handle, Notices, Subscribed
  <2>5. CASE Send(Note("resync"))
    BY <1>1, <2>2, <2>5, SendCarries DEF Coming
  <2>6. CASE /\ reading' = [kind |-> Head(queue).kind, slot |-> row] /\ outbox' = outbox
             /\ Head(queue).kind \in {"allowance", "event"}
    <3>1. reading' # Note("none") /\ Stale(reading') = Stale(Head(queue))
      BY <2>6 DEF Note, Stale
    <3>2. Carries(queue, q) => Coming(q)'
      <4>1. CASE (Carries(queue, q))'
        BY <4>1 DEF Coming
      <4>2. CASE q \in Stale(Head(queue))
        <5>1. reading' # Note("none") /\ q \in Stale(reading')
          BY <3>1, <4>2
        <5>2. (reading # Note("none") /\ q \in Stale(reading))'
          BY <5>1 DEF Stale, Note
        <5>3. QED
          BY <5>2 DEF Coming
      <4>3. QED
        BY <2>3, <4>1, <4>2
    <3>3. QED
      BY <2>1, <2>2, <2>6, <3>2 DEF Coming, Carries
  <2>7. QED
    BY <2>4, <2>5, <2>6
<1>7. CASE Deliver \/ RowReadFails
  <2>1. UNCHANGED <<listener, es, pend, wire, srv, queue>>
    BY <1>7 DEF Deliver, RowReadFails, source, cache
  <2>2. SUFFICES ASSUME listener = "hearing", es = "open" PROVE Coming(q)'
    BY <1>2, <2>1
  <2>3. Send(reading) \/ Send(Note("resync"))
    BY <1>7 DEF Deliver, RowReadFails
  <2>4. Carries(outbox, q) \/ q \in Stale(reading) => Carries(outbox, q)'
    BY <1>1, <2>2, <2>3, SendCarries
  <2>5. QED
    BY <2>1, <2>2, <2>4 DEF Coming, Carries
<1>8. CASE Write
  BY <1>8 DEF Write, Coming, Carries, hub, source, cache
<1>9. CASE ApiRestarts \/ Refused \/ Retry \/ Drop \/ GoDead \/ Watchdog \/ SwitchWallet \/ SwitchBack
  BY <1>2, <1>9 DEF ApiRestarts, Refused, Retry, Drop, GoDead, Watchdog, SwitchWallet, SwitchBack
<1>10. CASE Connect
  <2>1. wire' = <<Note("ready")>> /\ q \in Stale(Note("ready"))
    BY <1>10 DEF Connect, Note, Stale
  <2>2. Carries(wire, q)'
    BY <2>1 DEF Carries
  <2>3. QED
    BY <2>2 DEF Coming
<1>11. CASE Heartbeat
  BY <1>11 DEF Heartbeat, Coming, Carries, hub, cache
<1>12. CASE Receive \/ ReceiveUnknown
  <2>1. /\ wire # <<>> /\ wire' = Tail(wire) /\ UNCHANGED <<listener, queue, reading, es, outbox>>
        /\ pend \cup Stale(Head(wire)) \subseteq pend' \/ pend' = Queries
    BY <1>12 DEF Receive, ReceiveUnknown, hub
  <2>2. pend \subseteq Queries
    BY DEF TypeOK
  <2>3. Carries(wire, q) => q \in Stale(Head(wire)) \/ Carries(wire, q)'
    BY <1>1, <2>1, TailCarries DEF Carries
  <2>4. QED
    BY <2>1, <2>2, <2>3 DEF Coming, Carries
<1>13. CASE Flush
  BY <1>3, <1>13 DEF Flush, hub, stream, source
<1>14. CASE UNCHANGED <<listener, queue, reading, es, outbox, wire, pend>>
  BY <1>3, <1>14
<1>15. QED
  BY <1>4, <1>5, <1>6, <1>7, <1>8, <1>9, <1>10, <1>11, <1>12, <1>13, <1>14 DEF Next, Database, Server,
    Browser, Page, vars, hub, stream, source, cache, Change, Abort, ReadStore, ReadNode,
    NodeBehind, RequestFails, Settle

(***************************************************************************)
(* Until it arrives, what was read is what is stored.                      *)
(***************************************************************************)

\* What a commit changed is announced to a session that hears.
LEMMA CommitComes ==
  ASSUME TypeOK, [Next]_vars
  PROVE  /\ feed' = feed \/ Coming("feed")'
         /\ row' = row \/ Coming("list")'
<1>1. /\ queue \in Seq(Notices)
      /\ <<"allowance", "event">> \in Seq(Announced) /\ <<"allowance">> \in Seq(Announced)
      /\ \A kind \in {"event", "wallet"} : <<kind>> \in Seq(Announced)
      /\ "list" \in Queries /\ "feed" \in Queries /\ "list" \in Stale(Note("allowance"))
      /\ \A kind \in {"event", "wallet"} : "feed" \in Stale(Note(kind))
  BY DEF TypeOK, Announced, Stale, Note, Queries
<1>2. ASSUME listener' # "hearing", NEW q PROVE Coming(q)'
  BY <1>2 DEF Coming
<1>3. ASSUME NEW q, Carries(queue, q)' PROVE Coming(q)'
  BY <1>3 DEF Coming
<1>4. CASE StoreWrite
  <2>1. Announce(<<"allowance", "event">>) /\ listener' = listener
    BY <1>4 DEF StoreWrite
  <2>2. CASE listener = "hearing"
    <3>1. \A q \in Queries, i \in DOMAIN <<"allowance", "event">> :
            q \in Stale(Note(<<"allowance", "event">>[i])) => Carries(queue, q)'
      BY <1>1, <2>1, <2>2, AnnounceCarries
    <3>2. /\ 1 \in DOMAIN <<"allowance", "event">> /\ <<"allowance", "event">>[1] = "allowance"
          /\ 2 \in DOMAIN <<"allowance", "event">> /\ <<"allowance", "event">>[2] = "event"
      OBVIOUS
    <3>3. Carries(queue, "list")' /\ Carries(queue, "feed")'
      BY <1>1, <3>1, <3>2
    <3>4. QED
      BY <1>3, <3>3
  <2>3. QED
    BY <1>2, <2>1, <2>2
<1>5. CASE StoreRefresh
  <2>1. Announce(<<"allowance">>) /\ listener' = listener /\ feed' = feed
    BY <1>5 DEF StoreRefresh
  <2>2. CASE listener = "hearing"
    <3>1. \A q \in Queries, i \in DOMAIN <<"allowance">> :
            q \in Stale(Note(<<"allowance">>[i])) => Carries(queue, q)'
      BY <1>1, <2>1, <2>2, AnnounceCarries
    <3>2. 1 \in DOMAIN <<"allowance">> /\ <<"allowance">>[1] = "allowance"
      OBVIOUS
    <3>3. Carries(queue, "list")'
      BY <1>1, <3>1, <3>2
    <3>4. QED
      BY <1>3, <2>1, <3>3
  <2>3. QED
    BY <1>2, <2>1, <2>2
<1>6. CASE StoreFeed
  <2>1. PICK kind \in {"event", "wallet"} : Announce(<<kind>>)
    BY <1>6 DEF StoreFeed
  <2>2. listener' = listener /\ row' = row
    BY <1>6 DEF StoreFeed
  <2>3. CASE listener = "hearing"
    <3>1. \A q \in Queries, i \in DOMAIN <<kind>> : q \in Stale(Note(<<kind>>[i])) => Carries(queue, q)'
      BY <1>1, <2>1, <2>3, AnnounceCarries
    <3>2. 1 \in DOMAIN <<kind>> /\ <<kind>>[1] = kind
      OBVIOUS
    <3>3. Carries(queue, "feed")'
      BY <1>1, <3>1, <3>2
    <3>4. QED
      BY <1>3, <2>2, <3>3
  <2>4. QED
    BY <1>2, <2>2, <2>3
<1>7. CASE UNCHANGED <<row, feed>>
  BY <1>7
<1>8. QED
  BY <1>4, <1>5, <1>6, <1>7 DEF Next, Database, Session, Server, Browser, Page, vars, data,
    Change, Listen, SessionCloses, SessionGoesDeaf, ProbeLost, Handle, Deliver, RowReadFails, Write,
    Abort, ApiRestarts, Connect, Refused, Retry, Drop, GoDead, Heartbeat, Watchdog, Receive,
    ReceiveUnknown, Flush, ReadStore, ReadNode, NodeBehind, RequestFails, Settle, SwitchWallet,
    SwitchBack

\* What a flush asks for, it asks for at the floor, unless it joined a first read.
LEMMA FlushAsks ==
  ASSUME TypeOK, Flush, NEW q \in Queries
  PROVE  /\ q \in pend => overtaken'[q] \/ req'[q] = Asked
         /\ q \notin pend => overtaken'[q] = overtaken[q] /\ req'[q] = req[q]
         /\ UNCHANGED <<data, shown, failed, behind, floor, es>> /\ pend' = {}
<1>1. /\ req'[q] = (IF q \in pend /\ ~Joins(q) THEN Asked ELSE req[q])
      /\ overtaken'[q] = (IF q \in pend THEN Joins(q) ELSE overtaken[q])
      /\ UNCHANGED <<data, shown, failed, behind, floor, es>> /\ pend' = {}
  BY DEF Flush, source
<1>2. QED
  BY <1>1

\* What becomes of one request when it is answered, refused, fails or settles.
LEMMA RequestStep ==
  ASSUME TypeOK, ReadStore \/ ReadNode \/ NodeBehind \/ RequestFails \/ Settle, NEW q \in Queries
  PROVE  /\ UNCHANGED <<data, source, cache, overtaken>>
         /\ \/ UNCHANGED <<req[q], failed[q], shown[q]>> /\ (q = "list" => behind' = behind)
            \/ req'[q].stage = "idle" /\ failed'[q] /\ behind' = behind
            \/ /\ req[q].stage = "answered" /\ req'[q].stage = "idle" /\ shown'[q] = req[q].ans
               /\ behind' = behind
            \/ /\ req[q].stage = "asked" /\ req'[q].stage = "answered" /\ UNCHANGED shown[q]
               /\ q = "feed" => req'[q].ans = feed
               /\ q = "list" => /\ req'[q].ans \in 0 .. chain /\ req'[q].ans >= req[q].floor
                                /\ behind' \/ req'[q].ans >= row
<1>1. /\ req \in [Queries -> Request] /\ failed \in [Queries -> BOOLEAN] /\ shown \in [Queries -> Answers]
      /\ Queries = {"list", "feed"} /\ row \in Nat /\ chain \in Nat /\ Idle.stage = "idle"
  BY Bounds DEF TypeOK, Request, Answers, Queries, Idle
<1>2. CASE ReadStore
  BY <1>1, <1>2 DEF ReadStore, Answer, Request, data
<1>3. CASE ReadNode
  <2>1. PICK slot \in 0 .. chain : slot >= req["list"].floor /\ Answer("list", slot) /\ behind' = (slot < row)
    BY <1>3 DEF ReadNode, NodeSlots
  <2>2. /\ UNCHANGED <<data, source, cache, overtaken, shown, failed>> /\ req["list"].stage = "asked"
    BY <1>3 DEF ReadNode
  <2>3. /\ req'["list"].stage = "answered" /\ req'["list"].ans = slot /\ req'["feed"] = req["feed"]
    BY <1>1, <2>1 DEF Answer, Request
  <2>4. behind' \/ slot >= row
    <3>1. slot < row \/ slot >= row
      BY <1>1
    <3>2. behind' = (slot < row)
      BY <2>1
    <3>3. QED
      BY <3>1, <3>2, Zenon
  <2>5. QED
    BY <1>1, <2>1, <2>2, <2>3, <2>4
<1>4. CASE NodeBehind
  BY <1>1, <1>4 DEF NodeBehind, Fails
<1>5. CASE RequestFails
  BY <1>1, <1>5 DEF RequestFails, Fails
<1>6. CASE Settle
  BY <1>1, <1>6 DEF Settle, data
<1>7. QED
  BY <1>2, <1>3, <1>4, <1>5, <1>6

\* The page's reads change with its own steps alone.
LEMMA ReadsKept ==
  ASSUME [Next]_vars
  PROVE  Flush \/ ReadStore \/ ReadNode \/ NodeBehind \/ RequestFails \/ Settle
           \/ SwitchWallet \/ SwitchBack \/ UNCHANGED reads
BY DEF Next, Database, Session, Server, Browser, Page, vars, Change, StoreWrite, StoreRefresh, StoreFeed, Listen, SessionCloses, SessionGoesDeaf, ProbeLost,
    Handle, Deliver, RowReadFails, Write, Abort, ApiRestarts, Connect, Refused, Retry, Drop, GoDead,
    Heartbeat, Watchdog, Receive, ReceiveUnknown

LEMMA FeedStep ==
  ASSUME LInv, [Next]_vars
  PROVE  FeedKept'
<1>1. /\ TypeOK /\ FeedKept /\ OpenIsServed /\ "feed" \in Queries
  BY DEF LInv, Queries
<1>2. SUFFICES ASSUME ~Coming("feed")' PROVE FeedKept'
  BY DEF FeedKept
<1>3. feed' = feed /\ es' = "open"
  BY <1>1, <1>2, CommitComes DEF Coming
<1>4. ~Coming("feed") \/ (Flush /\ "feed" \in pend)
  BY <1>1, <1>2, ComingStep
<1>5. CASE Flush
  <2>1. CASE "feed" \in pend
    <3>1. overtaken'["feed"] \/ req'["feed"] = Asked
      BY <1>1, <1>5, <2>1, FlushAsks
    <3>2. Asked.stage = "asked"
      BY DEF Asked, Idle
    <3>3. QED
      BY <3>1, <3>2 DEF FeedKept
  <2>2. CASE "feed" \notin pend
    <3>1. UNCHANGED <<overtaken["feed"], req["feed"], shown, failed>>
      BY <1>1, <1>5, <2>2, FlushAsks
    <3>2. QED
      BY <1>1, <1>3, <1>4, <2>2, <3>1 DEF FeedKept
  <2>3. QED
    BY <2>1, <2>2
<1>6. ASSUME ~Flush \/ UNCHANGED pend
      PROVE  \/ overtaken["feed"]
             \/ /\ req["feed"].stage = "answered" => req["feed"].ans = feed
                /\ req["feed"].stage = "idle" => failed["feed"] \/ shown["feed"] = feed
  BY <1>1, <1>2, <1>4, <1>6 DEF FeedKept, Coming
<1>7. CASE ReadStore \/ ReadNode \/ NodeBehind \/ RequestFails \/ Settle
  <2>1. /\ UNCHANGED <<overtaken, pend>>
        /\ \/ UNCHANGED <<req["feed"], failed["feed"], shown["feed"]>>
           \/ req'["feed"].stage = "idle" /\ failed'["feed"]
           \/ /\ req["feed"].stage = "answered" /\ req'["feed"].stage = "idle"
              /\ shown'["feed"] = req["feed"].ans
           \/ req'["feed"].stage = "answered" /\ req'["feed"].ans = feed
    BY <1>1, <1>7, RequestStep DEF cache
  <2>2. QED
    BY <1>3, <1>6, <2>1 DEF FeedKept
<1>8. CASE SwitchWallet \/ SwitchBack
  BY <1>3, <1>8 DEF SwitchWallet, SwitchBack
<1>9. CASE UNCHANGED reads /\ ~Flush
  BY <1>3, <1>6, <1>9 DEF FeedKept, reads
<1>10. QED
  BY <1>5, <1>7, <1>8, <1>9, ReadsKept

LEMMA ListStep ==
  ASSUME LInv, [Next]_vars
  PROVE  ListKept'
<1>1. /\ TypeOK /\ ListKept /\ OpenIsServed /\ "list" \in Queries
  BY DEF LInv, Queries
<1>2. SUFFICES ASSUME ~Coming("list")' PROVE ListKept'
  BY DEF ListKept
<1>3. row' = row /\ es' = "open"
  BY <1>1, <1>2, CommitComes DEF Coming
<1>4. ~Coming("list") \/ (Flush /\ "list" \in pend)
  BY <1>1, <1>2, ComingStep
<1>5. CASE Flush
  <2>1. CASE "list" \in pend
    <3>1. overtaken'["list"] \/ req'["list"] = Asked
      BY <1>1, <1>5, <2>1, FlushAsks
    <3>2. Asked.stage = "asked"
      BY DEF Asked, Idle
    <3>3. QED
      BY <3>1, <3>2 DEF ListKept
  <2>2. CASE "list" \notin pend
    <3>1. UNCHANGED <<overtaken["list"], req["list"], shown, failed, behind>>
      BY <1>1, <1>5, <2>2, FlushAsks
    <3>2. QED
      BY <1>1, <1>3, <1>4, <2>2, <3>1 DEF ListKept
  <2>3. QED
    BY <2>1, <2>2
<1>6. ASSUME ~Flush \/ UNCHANGED pend
      PROVE  \/ overtaken["list"] \/ req["list"].stage = "asked" \/ behind
             \/ /\ req["list"].stage = "answered" => req["list"].ans >= row
                /\ req["list"].stage = "idle" => failed["list"] \/ shown["list"] >= row
  BY <1>1, <1>2, <1>4, <1>6 DEF ListKept, Coming
<1>7. CASE ReadStore \/ ReadNode \/ NodeBehind \/ RequestFails \/ Settle
  <2>1. /\ UNCHANGED <<overtaken, pend>>
        /\ \/ UNCHANGED <<req["list"], failed["list"], shown["list"], behind>>
           \/ req'["list"].stage = "idle" /\ failed'["list"]
           \/ /\ req["list"].stage = "answered" /\ req'["list"].stage = "idle"
              /\ shown'["list"] = req["list"].ans /\ behind' = behind
           \/ req'["list"].stage = "answered" /\ (behind' \/ req'["list"].ans >= row)
    BY <1>1, <1>7, RequestStep DEF cache
  <2>2. QED
    BY <1>3, <1>6, <2>1 DEF ListKept
<1>8. CASE SwitchWallet \/ SwitchBack
  BY <1>3, <1>8 DEF SwitchWallet, SwitchBack
<1>9. CASE UNCHANGED reads /\ ~Flush
  BY <1>3, <1>6, <1>9 DEF ListKept, reads
<1>10. QED
  BY <1>5, <1>7, <1>8, <1>9, ReadsKept

\* The floor rises with a message that makes the list be read again.
LEMMA FloorRises ==
  ASSUME TypeOK, [Next]_vars
  PROVE  /\ floor' = floor \/ "list" \in pend'
         /\ "list" \in pend => "list" \in pend' \/ Flush \/ SwitchWallet
<1>1. pend \subseteq Queries /\ "list" \in Queries
  BY DEF TypeOK, Queries
<1>2. CASE Receive
  <2>1. pend' = pend \cup Stale(Head(wire)) /\ (floor' = floor \/ Head(wire).kind = "allowance")
    BY <1>2 DEF Receive
  <2>2. QED
    BY <2>1 DEF Stale
<1>3. CASE ReceiveUnknown
  BY <1>1, <1>3 DEF ReceiveUnknown
<1>4. CASE ~(Receive \/ ReceiveUnknown)
  BY <1>4 DEF cache, Next, Database, Session, Server, Browser, Page, vars, Change, StoreWrite, StoreRefresh, StoreFeed, Listen, SessionCloses, SessionGoesDeaf, ProbeLost,
    Handle, Deliver, RowReadFails, Write, Abort, ApiRestarts, Connect, Refused, Retry, Drop, GoDead,
    Heartbeat, Watchdog, Receive, ReceiveUnknown, Flush,
    ReadStore, ReadNode, NodeBehind, RequestFails, Settle, SwitchWallet, SwitchBack
<1>5. QED
  BY <1>2, <1>3, <1>4

LEMMA FloorStep ==
  ASSUME LInv, [Next]_vars
  PROVE  FloorKept'
<1>1. /\ TypeOK /\ FloorKept /\ "list" \in Queries /\ floor \in Nat
      /\ req["list"].floor \in Nat
  BY Bounds DEF LInv, TypeOK, Queries
<1>2. SUFFICES ASSUME es' # "gone", "list" \notin pend' PROVE FloorKept'
  BY DEF FloorKept
<1>3. floor' = floor /\ ("list" \notin pend \/ Flush)
  BY <1>1, <1>2, FloorRises DEF SwitchWallet
<1>4. Asked.stage = "asked" /\ Asked.floor = floor
  BY DEF Asked, Idle
<1>5. CASE SwitchBack
  BY <1>1, <1>3, <1>4, <1>5 DEF SwitchBack, FloorKept
<1>6. CASE SwitchWallet
  BY <1>2, <1>6 DEF SwitchWallet
<1>7. ASSUME ~SwitchBack PROVE es # "gone"
  BY <1>2, <1>7 DEF Next, Database, Session, Server, Browser, Page, vars, source, Change, StoreWrite, StoreRefresh, StoreFeed, Listen, SessionCloses, SessionGoesDeaf, ProbeLost,
    Handle, Deliver, RowReadFails, Write, Abort, ApiRestarts, Connect, Refused, Retry, Drop, GoDead,
    Heartbeat, Watchdog, Receive, ReceiveUnknown, Flush,
    ReadStore, ReadNode, NodeBehind, RequestFails, Settle, SwitchWallet
<1>8. CASE Flush /\ ~SwitchBack
  <2>1. CASE "list" \in pend
    <3>1. req'["list"] = (IF Joins("list") THEN req["list"] ELSE Asked) /\ UNCHANGED shown
      BY <1>1, <1>8, <2>1 DEF Flush
    <3>2. shown["list"] # Nothing => req'["list"] = Asked \/ req'["list"].stage = "idle"
      BY <3>1 DEF Joins
    <3>3. QED
      BY <1>3, <1>4, <3>1, <3>2 DEF FloorKept
  <2>2. CASE "list" \notin pend
    <3>1. UNCHANGED <<req["list"], shown>>
      BY <1>1, <1>8, <2>2, FlushAsks
    <3>2. QED
      BY <1>1, <1>3, <1>7, <1>8, <2>2, <3>1 DEF FloorKept
  <2>3. QED
    BY <2>1, <2>2
<1>9. ASSUME ~Flush, ~SwitchBack
      PROVE  \/ shown["list"] = Nothing
             \/ /\ req["list"].stage = "asked" => req["list"].floor = floor
                /\ req["list"].stage = "answered" => req["list"].ans >= floor
  BY <1>1, <1>3, <1>7, <1>9 DEF FloorKept
<1>10. CASE (ReadStore \/ ReadNode \/ NodeBehind \/ RequestFails \/ Settle) /\ ~Flush /\ ~SwitchBack
  <2>1. \/ UNCHANGED <<req["list"], shown["list"]>>
        \/ req'["list"].stage = "idle"
        \/ /\ req["list"].stage = "asked" /\ req'["list"].stage = "answered" /\ UNCHANGED shown["list"]
           /\ req'["list"].ans >= req["list"].floor
    BY <1>1, <1>10, RequestStep
  <2>2. QED
    BY <1>3, <1>9, <1>10, <2>1 DEF FloorKept
<1>11. CASE UNCHANGED reads /\ ~Flush /\ ~SwitchBack
  BY <1>3, <1>9, <1>11 DEF FloorKept, reads
<1>12. QED
  BY <1>5, <1>6, <1>8, <1>10, <1>11, ReadsKept

\* A page without the wallet asks for nothing.
LEMMA GoneStep ==
  ASSUME LInv, [Next]_vars
  PROVE  GoneIsIdle'
<1>1. TypeOK /\ GoneIsIdle /\ Idle.stage = "idle"
  BY DEF LInv, Idle
<1> SUFFICES ASSUME es' = "gone", NEW q \in Queries PROVE req'[q].stage = "idle"
  BY DEF GoneIsIdle
<1>2. CASE SwitchWallet
  BY <1>1, <1>2 DEF SwitchWallet
<1>3. ASSUME ~SwitchWallet PROVE es = "gone"
  BY <1>3 DEF Next, Database, Session, Server, Browser, Page, vars, source, Change, StoreWrite, StoreRefresh, StoreFeed, Listen, SessionCloses, SessionGoesDeaf, ProbeLost,
    Handle, Deliver, RowReadFails, Write, Abort, ApiRestarts, Connect, Refused, Retry, Drop, GoDead,
    Heartbeat, Watchdog, Receive, ReceiveUnknown, Flush,
    ReadStore, ReadNode, NodeBehind, RequestFails, Settle, SwitchBack
<1>4. CASE (ReadStore \/ ReadNode \/ NodeBehind \/ RequestFails \/ Settle) /\ ~SwitchWallet
  <2>1. req[q].stage = "idle"
    BY <1>1, <1>3, <1>4 DEF GoneIsIdle
  <2>2. QED
    BY <1>1, <1>4, <2>1, RequestStep
<1>5. CASE UNCHANGED reads /\ ~SwitchWallet
  BY <1>1, <1>3, <1>5 DEF GoneIsIdle, reads
<1>6. ~SwitchBack /\ (Flush => SwitchWallet)
  BY <1>3 DEF SwitchBack, Flush
<1>7. QED
  BY <1>2, <1>4, <1>5, <1>6, ReadsKept

(***************************************************************************)
(* The theorems.                                                           *)
(***************************************************************************)

LEMMA LiveInit == Init => LInv
<1> SUFFICES ASSUME Init PROVE LInv
  OBVIOUS
<1>1. TypeOK
  <2>1. /\ <<>> \in Seq(Notices) /\ <<>> \in Seq(Notes) /\ Note("none") \in Notes /\ Len(<<>>) = 0
        /\ 0 \in 0 .. MaxSlot /\ 0 \in 0 .. MaxFeed /\ 0 \in 0 .. MaxFaults /\ 0 \in 0 .. MaxStreams
        /\ 0 <= MaxBacklog
    BY NoteType, Bounds DEF Kinds
  <2>2. req \in [Queries -> [stage : {"idle", "asked", "answered"}, floor : 0 .. MaxSlot,
                             ans : {Nothing} \cup 0 .. MaxSlot + MaxFeed]]
    BY <2>1 DEF Init, Idle
  <2>3. /\ shown \in [Queries -> {Nothing} \cup 0 .. MaxSlot + MaxFeed]
        /\ failed \in [Queries -> BOOLEAN] /\ overtaken \in [Queries -> BOOLEAN]
    BY <2>1, Bounds DEF Init, Queries
  <2>4. /\ chain \in 0 .. MaxSlot /\ row \in 0 .. chain /\ feed \in 0 .. MaxFeed
        /\ listener \in {"down", "hearing", "deaf"}
        /\ queue \in Seq(Notices) /\ reading \in Notes
        /\ outbox \in Seq(Notes) /\ wire \in Seq(Notes) /\ Len(outbox) <= MaxBacklog
    BY <2>1 DEF Init
  <2>5. srv \in BOOLEAN /\ ~srv /\ behind \in BOOLEAN
    BY DEF Init
  <2>6. /\ leaked \in 0 .. MaxStreams /\ es \in {"connecting", "open", "dead", "closed", "gone"}
        /\ status \in {"connecting", "live", "reconnecting", "down"}
        /\ silence \in 0 .. 2 /\ pend \subseteq Queries /\ floor \in 0 .. MaxSlot
        /\ faults \in 0 .. MaxFaults
    BY <2>1 DEF Init
  <2>7. QED
    BY <2>2, <2>3, <2>4, <2>5, <2>6 DEF TypeOK
<1>2. FeedKept /\ ListKept /\ OpenIsServed
  BY DEF Init, FeedKept, ListKept, OpenIsServed, Coming
<1>3. FloorKept /\ GoneIsIdle
  BY DEF Init, FloorKept, GoneIsIdle, Idle, Queries
<1>4. QED
  BY <1>1, <1>2, <1>3 DEF LInv

LEMMA LiveNext == LInv /\ [Next]_vars => LInv'
<1> SUFFICES ASSUME LInv, [Next]_vars PROVE LInv'
  OBVIOUS
<1>1. TypeOK' /\ OpenIsServed'
  BY TypeStep, OpenStep DEF LInv
<1>2. FeedKept' /\ ListKept' /\ FloorKept' /\ GoneIsIdle'
  BY FeedStep, ListStep, FloorStep, GoneStep
<1>3. QED
  BY <1>1, <1>2 DEF LInv

(* Whatever is lost, fails or restarts, something on its way tells the     *)
(* page of what it does not show (listen.ts, stream.ts, routes/stream.ts,  *)
(* lib/stream.ts, streamCache.ts together).                                *)
THEOREM LiveInvariance == Spec => []LInv
BY LiveInit, LiveNext, PTL DEF Spec

\* Nothing is on its way to a quiet page.
LEMMA QuietHasNothingComing ==
  ASSUME Quiet, NEW q \in Queries
  PROVE  ~Coming(q)
<1>1. \A message : message.kind = "ping" => Stale(message) = {}
  BY DEF Stale
<1>2. ~Carries(queue, q) /\ ~Carries(outbox, q) /\ ~Carries(wire, q)
  BY <1>1 DEF Quiet, Carries
<1>3. QED
  BY <1>2 DEF Quiet, Coming

(* A page that says it is live and has nothing under way shows the stored  *)
(* feed and a list no older than the stored row, or says that reading      *)
(* failed; the outbox and the streams of a process stay within their       *)
(* limits.                                                                 *)
THEOREM PageIsTrue == Spec => []LiveIsTrue
<1>1. LInv => LiveIsTrue
  <2> SUFFICES ASSUME LInv PROVE LiveIsTrue
    OBVIOUS
  <2>1. "feed" \in Queries /\ "list" \in Queries
    BY DEF Queries
  <2>2. ASSUME Quiet, Settled("feed") PROVE shown["feed"] = feed
    BY <2>1, <2>2, QuietHasNothingComing DEF LInv, FeedKept, Settled
  <2>3. ASSUME Quiet, Settled("list") PROVE shown["list"] >= row \/ behind
    BY <2>1, <2>3, QuietHasNothingComing DEF LInv, ListKept, Settled
  <2>4. QED
    BY <2>2, <2>3 DEF LInv, LiveIsTrue, NoSilentGap
<1>2. QED
  BY <1>1, LiveInvariance, PTL

(* Once the page has a list, no answer from before an update it was told   *)
(* of replaces it: the floor goes out with the read (slotFloors.ts) and a  *)
(* node behind it is refused (readAtLeast).                                *)
THEOREM FloorHolds == Spec => NeverOlderThanUpdate
<1>1. LInv /\ [Next]_vars =>
        [pend = {} /\ shown["list"] # Nothing =>
           shown'["list"] = shown["list"] \/ shown'["list"] >= floor]_vars
  <2> SUFFICES ASSUME LInv, [Next]_vars, pend = {}, shown["list"] # Nothing
               PROVE  shown'["list"] = shown["list"] \/ shown'["list"] >= floor
    OBVIOUS
  <2>1. TypeOK /\ FloorKept /\ GoneIsIdle /\ "list" \in Queries
    BY DEF LInv, Queries
  <2>2. req["list"].stage = "answered" => req["list"].ans >= floor
    BY <2>1 DEF FloorKept, GoneIsIdle
  <2>3. CASE ReadStore \/ ReadNode \/ NodeBehind \/ RequestFails \/ Settle
    <3>1. UNCHANGED shown["list"] \/ (req["list"].stage = "answered" /\ shown'["list"] = req["list"].ans)
      BY <2>1, <2>3 DEF ReadStore, ReadNode, NodeBehind, RequestFails, Settle, TypeOK, Queries
    <3>2. QED
      BY <2>2, <3>1
  <2>4. CASE SwitchWallet \/ SwitchBack \/ Flush
    BY <2>4 DEF SwitchWallet, SwitchBack, Flush
  <2>5. QED
    BY <2>3, <2>4, ReadsKept DEF reads
<1>2. QED
  BY <1>1, LiveInvariance, PTL DEF Spec, NeverOlderThanUpdate

(* A stream that carries something is never replaced without a failure:    *)
(* the ping breaks the silence before the watchdog's second heartbeat.     *)
THEOREM StreamKept == Spec => LiveStreamKept
<1>1. LInv /\ [Next]_vars => [es = "open" /\ status = "live" /\ faults' = faults => es' = "open"]_vars
  <2> SUFFICES ASSUME LInv, [Next]_vars, es = "open", faults' = faults PROVE es' = "open"
    OBVIOUS
  <2>1. ~Fault /\ ~Watchdog
    BY Bounds DEF LInv, TypeOK, OpenIsServed, Fault, Watchdog
  <2>2. QED
    BY <2>1 DEF Next, Database, Session, Server, Browser, Page, vars, source, Change, StoreWrite, StoreRefresh, StoreFeed, Listen, SessionCloses, SessionGoesDeaf, ProbeLost,
    Handle, Deliver, RowReadFails, Write, Abort, ApiRestarts, Connect, Refused, Retry, Drop, GoDead,
    Heartbeat, Watchdog, Receive, ReceiveUnknown, Flush,
      ReadStore, ReadNode, NodeBehind, RequestFails, Settle, SwitchWallet, SwitchBack
<1>2. QED
  BY <1>1, LiveInvariance, PTL DEF Spec, LiveStreamKept
=============================================================================
