------------------------ MODULE WalletPoller_proofs ------------------------
(***************************************************************************)
(* WalletPoller, proved for every number of wallets, mints, permissions,   *)
(* transactions and failures: the cursors and synced_at cover.             *)
(***************************************************************************)
EXTENDS WalletPoller, TLAPS

Tx == [kind : Direct \cup {"authority"}, at : Address]

(***************************************************************************)
(* The past stays.                                                         *)
(***************************************************************************)

\* A transaction lands behind all others.
LEMMA LandAppends ==
  ASSUME TypeOK, NEW kind \in Direct \cup {"authority"}, NEW account \in Address,
         Land(kind, account)
  PROVE  /\ log' \in Seq(Tx) /\ Tip' = Tip + 1 /\ Tip' <= MaxTx
         /\ \A i \in 1 .. Tip : log'[i] = log[i]
         /\ \A i \in 1 .. Tip' : log'[i].kind \in Direct <=> log'[i].at \in Pda
<1> DEFINE tx == [kind |-> kind, at |-> account]
<1>1. log \in Seq(Tx) /\ Tip \in Nat
  BY DEF TypeOK, Tx, Tip
<1>2. tx \in Tx /\ (tx.kind \in Direct <=> tx.at \in Pda)
  BY DEF Tx, Land
<1>3. log' = Append(log, tx) /\ Tip < MaxTx
  BY DEF Land
<1> HIDE DEF tx
<1>4. log' \in Seq(Tx) /\ Tip' = Tip + 1 /\ log'[Tip + 1] = tx
      /\ \A i \in 1 .. Tip : log'[i] = log[i]
  BY <1>1, <1>2, <1>3 DEF Tip
<1>5. \A i \in 1 .. Tip' : i \in 1 .. Tip \/ i = Tip + 1
  BY <1>1, <1>4
<1>6. \A i \in 1 .. Tip' : log'[i].kind \in Direct <=> log'[i].at \in Pda
  BY <1>2, <1>4, <1>5 DEF TypeOK
<1>7. MaxTx \in Nat
  BY PollerAssumption
<1>8. Tip' <= MaxTx
  BY <1>1, <1>3, <1>4, <1>7
<1>9. QED
  BY <1>4, <1>6, <1>8

\* No step changes a transaction or forgets that one was dealt with.
LEMMA PastStays ==
  ASSUME TypeOK, [Next]_vars
  PROVE  /\ Tip \in Nat /\ Tip' \in Nat /\ Tip <= Tip' /\ Tip' <= MaxTx
         /\ log' \in Seq(Tx)
         /\ \A i \in 1 .. Tip' : log'[i].kind \in Direct <=> log'[i].at \in Pda
         /\ \A i \in 1 .. Tip : log'[i] = log[i]
         /\ handled \subseteq handled' /\ reported \subseteq reported'
         /\ aged \in Nat /\ aged' \in Nat /\ aged <= aged'
<1>1. Tip \in Nat /\ log \in Seq(Tx) /\ aged \in Nat
  BY DEF TypeOK, Tx, Tip
<1>2. CASE \E kind \in Direct \cup {"authority"}, account \in Address : Land(kind, account)
  <2>1. UNCHANGED <<handled, reported, aged>>
    BY <1>2 DEF Land, past
  <2>2. /\ log' \in Seq(Tx) /\ Tip' = Tip + 1 /\ Tip' <= MaxTx
        /\ \A i \in 1 .. Tip : log'[i] = log[i]
        /\ \A i \in 1 .. Tip' : log'[i].kind \in Direct <=> log'[i].at \in Pda
    BY <1>2, LandAppends
  <2>3. QED
    BY <1>1, <2>1, <2>2
<1>3. CASE log' = log /\ handled \subseteq handled' /\ reported \subseteq reported'
           /\ (aged' = aged \/ aged' = aged + 1)
  BY <1>1, <1>3 DEF TypeOK, Tip, Tx
<1>4. CASE Poll \/ Crash \/ \E refused \in BOOLEAN : PollFails(refused)
  BY <1>3, <1>4 DEF Poll, Crash, PollFails, Write, BeginRound, BeginWallet, ListPermissions,
     RefreshListed, Addresses, Collect, Advance, Store, Synced, world, past
<1>5. CASE \/ \E w \in Wallet : Watch(w)
           \/ Age
           \/ \E p \in Pda : NotifierRefreshes(p)
           \/ UNCHANGED vars
  BY <1>3, <1>5 DEF Watch, Age, NotifierRefreshes, vars, world, past
<1>6. QED
  BY <1>2, <1>4, <1>5 DEF Next, World

(***************************************************************************)
(* Types.                                                                  *)
(***************************************************************************)

\* A poll that is over leaves nothing behind.
LEMMA LeaveClears ==
  ASSUME NEW wallets \in SUBSET Wallet, Leave(wallets)
  PROVE  /\ pc' \in {"pause", "next"} /\ agenda' \subseteq Wallet /\ wallet' \in Wallet
         /\ started' = 0 /\ todo' = {} /\ found' = {}
         /\ heads' \in [Address -> {0}]
  BY PollerAssumption DEF Leave, Wallet, NoHeads

\* The transactions listed at an address exist, and what it has of them after its cursor
\* is all of them but those older than the cut.
LEMMA NewTypes ==
  ASSUME TypeOK, NEW a \in Address
  PROVE  /\ New(a) \subseteq 1 .. Tip /\ Listed(a) \subseteq New(a)
         /\ \A i \in 1 .. Tip : a \in SeenAt(log[i]) => i <= cursors[a] \/ i \in New(a) \/ i <= aged
  BY DEF New, Listed, TypeOK, Tip

\* What the steps of a poll leave well-typed.
RoundType ==
  /\ heads \in [Address -> 0 .. Tip]
  /\ started \in 0 .. Tip
  /\ known \subseteq Wallet /\ agenda \subseteq Wallet /\ wallet \in Wallet
  /\ pc \in {"pause", "next", "list", "refresh", "addresses", "collect", "store"}
  /\ todo \subseteq Address
  /\ found \subseteq 1 .. Tip

LEMMA RoundStep ==
  ASSUME TypeOK, [Next]_vars
  PROVE  RoundType'
<1>1. Tip \in Nat /\ Tip' \in Nat /\ Tip <= Tip'
  BY PastStays
<1>2. /\ heads \in [Address -> 0 .. Tip'] /\ started \in 0 .. Tip' /\ Tip \in 0 .. Tip'
      /\ known \subseteq Wallet /\ agenda \subseteq Wallet /\ wallet \in Wallet
      /\ watched \subseteq Wallet
      /\ pc \in {"pause", "next", "list", "refresh", "addresses", "collect", "store"}
      /\ todo \subseteq Address /\ found \subseteq 1 .. Tip'
  BY <1>1 DEF TypeOK
<1>3. CASE UNCHANGED round
  BY <1>2, <1>3 DEF round, RoundType
<1>4. CASE BeginRound \/ BeginWallet \/ ListPermissions \/ RefreshListed \/ Addresses
  BY <1>2, <1>4 DEF BeginRound, BeginWallet, ListPermissions, RefreshListed, Addresses, RoundType,
                    Address
<1>5. ASSUME NEW a \in Address, Collect(a)
      PROVE  RoundType'
  <2>1. Listed(a) \subseteq 1 .. Tip' /\ New(a) \subseteq 1 .. Tip'
    BY <1>1, NewTypes
  <2>2. heads' \in [Address -> 0 .. Tip']
    BY <1>2, <1>5, <2>1 DEF Collect
  <2>3. QED
    BY <1>2, <1>5, <2>1, <2>2 DEF Collect, RoundType
<1>6. ASSUME NEW a \in Address, Advance(a)
      PROVE  RoundType'
  BY <1>1, <1>2, <1>6 DEF Advance, RoundType
<1>7. ASSUME NEW i \in 1 .. Tip, Store(i)
      PROVE  RoundType'
  BY <1>2, <1>7 DEF Store, RoundType
<1>8. ASSUME NEW wallets \in SUBSET Wallet, Leave(wallets), known' \subseteq Wallet
      PROVE  RoundType'
  BY <1>1, <1>8, LeaveClears DEF RoundType
<1>9. CASE Synced \/ Crash \/ \E refused \in BOOLEAN : PollFails(refused)
  <2>1. \E wallets \in SUBSET Wallet : Leave(wallets)
    BY <1>2, <1>9 DEF Synced, Crash, PollFails
  <2>2. known' \subseteq Wallet
    BY <1>2, <1>9 DEF Synced, Crash, PollFails
  <2>3. QED
    BY <1>8, <2>1, <2>2
<1>10. QED
  BY <1>3, <1>4, <1>5, <1>6, <1>7, <1>9
  DEF Next, World, Poll, Land, Watch, Age, NotifierRefreshes, vars

LEMMA TypeStep ==
  ASSUME TypeOK, [Next]_vars
  PROVE  TypeOK'
<1>1. /\ Tip \in Nat /\ Tip' \in Nat /\ Tip <= Tip' /\ Tip' <= MaxTx /\ log' \in Seq(Tx)
      /\ \A i \in 1 .. Tip' : log'[i].kind \in Direct <=> log'[i].at \in Pda
  BY PastStays
<1>2. RoundType'
  BY RoundStep
<1>3. row' \in [Pda -> {"none", "active", "revoked"}]
  <2>1. row \in [Pda -> {"none", "active", "revoked"}]
    BY DEF TypeOK
  <2>2. \A p \in Pda : Read(p) \in {"none", "active", "revoked"}
    BY DEF Read
  <2>3. ASSUME NEW i, Write(i)
        PROVE  row' \in [Pda -> {"none", "active", "revoked"}]
    BY <2>1, <2>2, <2>3 DEF Write
  <2>4. CASE RefreshListed \/ \E p \in Pda : NotifierRefreshes(p)
    BY <2>1, <2>2, <2>4 DEF RefreshListed, NotifierRefreshes
  <2>5. CASE row' = row
    BY <2>1, <2>5
  <2>6. QED
    BY <2>3, <2>4, <2>5 DEF Next, World, Poll, Land, Watch, Age, BeginRound, BeginWallet,
      ListPermissions, Addresses, Collect, Store, Advance, Synced, PollFails, Crash, vars, tables
<1>4. cursors' \in [Address -> 0 .. Tip']
  <2>1. cursors \in [Address -> 0 .. Tip'] /\ heads \in [Address -> 0 .. Tip']
    BY <1>1 DEF TypeOK
  <2>2. CASE \E a \in Address : Advance(a)
    BY <2>1, <2>2 DEF Advance
  <2>3. CASE cursors' = cursors
    BY <2>1, <2>3
  <2>4. QED
    BY <2>2, <2>3 DEF Next, World, Poll, Land, Watch, Age, NotifierRefreshes, BeginRound,
      BeginWallet, ListPermissions, RefreshListed, Addresses, Collect, Store, Synced, PollFails,
      Crash, vars, tables
<1>5. synced' \in [Wallet -> 0 .. Tip']
  <2>1. synced \in [Wallet -> 0 .. Tip'] /\ started \in 0 .. Tip'
    BY <1>1 DEF TypeOK
  <2>2. CASE Synced
    BY <2>1, <2>2 DEF Synced
  <2>3. CASE synced' = synced
    BY <2>1, <2>3
  <2>4. QED
    BY <2>2, <2>3 DEF Next, World, Poll, Land, Watch, Age, NotifierRefreshes, BeginRound,
      BeginWallet, ListPermissions, RefreshListed, Addresses, Collect, Store, Advance, PollFails,
      Crash, vars, tables
<1>6. watched' \subseteq Wallet /\ aged' \in 0 .. Tip'
  <2>1. watched \subseteq Wallet /\ aged \in 0 .. Tip' /\ aged \in 0 .. Tip
    BY <1>1 DEF TypeOK
  <2>2. CASE \E w \in Wallet : Watch(w)
    BY <2>1, <2>2 DEF Watch
  <2>3. CASE Age
    BY <1>1, <2>1, <2>3 DEF Age, Tip
  <2>4. CASE UNCHANGED <<watched, aged>>
    BY <2>1, <2>4
  <2>5. QED
    BY <2>2, <2>3, <2>4 DEF Next, World, Poll, Land, NotifierRefreshes, BeginRound,
      BeginWallet, ListPermissions, RefreshListed, Addresses, Collect, Store, Advance, Synced,
      PollFails, Crash, vars, world
<1>7. handled' \subseteq 1 .. Tip' /\ reported' \subseteq 1 .. Tip'
  <2>1. handled \subseteq 1 .. Tip' /\ reported \subseteq 1 .. Tip' /\ found \subseteq 1 .. Tip'
    BY <1>1 DEF TypeOK
  <2>2. ASSUME NEW a \in Address, Collect(a)
        PROVE  handled' \subseteq 1 .. Tip' /\ reported' \subseteq 1 .. Tip'
    <3>1. New(a) \subseteq 1 .. Tip'
      BY <1>1, NewTypes
    <3>2. QED
      BY <2>1, <2>2, <3>1 DEF Collect
  <2>3. ASSUME NEW i \in 1 .. Tip, Store(i)
        PROVE  handled' \subseteq 1 .. Tip' /\ reported' \subseteq 1 .. Tip'
    <3>1. i \in 1 .. Tip'
      BY <1>1
    <3>2. QED
      BY <2>1, <2>3, <3>1 DEF Store, Write
  <2>4. ASSUME NEW refused \in BOOLEAN, PollFails(refused)
        PROVE  handled' \subseteq 1 .. Tip' /\ reported' \subseteq 1 .. Tip'
    BY <2>1, <2>4 DEF PollFails, Write
  <2>5. CASE UNCHANGED <<handled, reported>>
    BY <2>1, <2>5
  <2>6. QED
    BY <2>2, <2>3, <2>4, <2>5 DEF Next, World, Poll, Land, Watch, Age, NotifierRefreshes,
      BeginRound, BeginWallet, ListPermissions, RefreshListed, Addresses, Advance, Synced, Crash,
      vars, past
<1>8. faults' \in 0 .. MaxFaults
  <2>1. faults \in 0 .. MaxFaults /\ MaxFaults \in Nat
    BY PollerAssumption DEF TypeOK
  <2>2. CASE faults' = faults
    BY <2>1, <2>2
  <2>3. CASE faults < MaxFaults /\ faults' = faults + 1
    BY <2>1, <2>3
  <2>4. QED
    BY <2>2, <2>3 DEF Next, World, Poll, Land, Watch, Age, NotifierRefreshes, BeginRound,
      BeginWallet, ListPermissions, RefreshListed, Addresses, Collect, Store, Advance, Synced,
      PollFails, Crash, vars, past
<1>9. QED
  BY <1>1, <1>2, <1>3, <1>4, <1>5, <1>6, <1>7, <1>8 DEF TypeOK, RoundType, Tx

(***************************************************************************)
(* Nothing in hand is lost.                                                *)
(***************************************************************************)

\* What was dealt with stays so, and what is collected stays so until it is stored, unless
\* the poll is over.
LEMMA Stays ==
  ASSUME TypeOK, [Next]_vars, NEW i \in 1 .. Tip
  PROVE  /\ i \in 1 .. Tip' /\ SeenAt(log[i])' = SeenAt(log[i])
         /\ Settled(i) => Settled(i)'
         /\ (\A j \in found : j \in found' \/ j \in handled' \/ j \in reported') =>
              (InHand(i) => InHand(i)')
<1>1. /\ Tip \in Nat /\ Tip' \in Nat /\ Tip <= Tip' /\ log'[i] = log[i]
      /\ handled \subseteq handled' /\ reported \subseteq reported'
      /\ aged \in Nat /\ aged' \in Nat /\ aged <= aged'
  BY PastStays
<1>2. Settled(i) => Settled(i)'
  BY <1>1 DEF Settled
<1>3. QED
  BY <1>1, <1>2 DEF SeenAt, InHand, Settled

\* After an address was listed, nothing seen there is missing.
LEMMA ListedAll ==
  ASSUME TypeOK, CursorCovers, [Next]_vars, NEW a \in Address, Collect(a),
         NEW i \in 1 .. Tip, a \in SeenAt(log[i])
  PROVE  InHand(i)'
<1>1. i <= cursors[a] \/ i \in New(a) \/ i <= aged
  BY NewTypes
<1>2. CASE i <= cursors[a]
  <2>1. cursors[a] \in Nat /\ i \in 1 .. cursors[a]
    BY <1>2, PastStays DEF TypeOK
  <2>2. Settled(i)
    BY <2>1 DEF CursorCovers
  <2>3. QED
    BY <2>2, Stays DEF InHand
<1>3. CASE i \in New(a)
  BY <1>3 DEF Collect, InHand, Settled
<1>4. CASE i <= aged
  BY <1>4, Stays DEF InHand, Settled
<1>5. QED
  BY <1>1, <1>2, <1>3, <1>4

\* A cursor moves to what was collected, when all of it is stored.
LEMMA CursorStep ==
  ASSUME TypeOK, CursorCovers, HeadsCover, [Next]_vars
  PROVE  CursorCovers'
<1>1. Tip \in Nat /\ cursors \in [Address -> 0 .. Tip] /\ heads \in [Address -> 0 .. Tip]
  BY PastStays DEF TypeOK
<1>2. SUFFICES ASSUME NEW a \in Address, NEW i \in 1 .. cursors'[a], a \in SeenAt(log[i])'
               PROVE  Settled(i)'
  BY DEF CursorCovers
<1>3. CASE cursors'[a] = cursors[a]
  <2>1. i \in 1 .. cursors[a] /\ i \in 1 .. Tip
    BY <1>1, <1>3
  <2>2. QED
    BY <1>2, <2>1, Stays DEF CursorCovers
<1>4. CASE Advance(a) /\ cursors'[a] = heads[a]
  <2>1. i \in 1 .. heads[a] /\ i \in 1 .. Tip /\ found = {}
    BY <1>1, <1>4 DEF Advance
  <2>2. InHand(i)
    BY <1>2, <2>1, Stays DEF HeadsCover
  <2>3. QED
    BY <2>1, <2>2, Stays DEF InHand
<1>5. QED
  <2>1. ASSUME NEW b \in Address, Advance(b)
        PROVE  cursors'[a] = cursors[a] \/ (a = b /\ cursors'[a] = heads[a])
    BY <1>1, <2>1 DEF Advance
  <2>2. cursors' = cursors \/ \E b \in Address : Advance(b)
    BY DEF Next, World, Poll, Land, Watch, Age, NotifierRefreshes, BeginRound, BeginWallet,
      ListPermissions, RefreshListed, Addresses, Collect, Store, Synced, PollFails, Crash, vars,
      tables
  <2>3. QED
    BY <1>3, <1>4, <2>1, <2>2

\* `synced_at` moves to the beginning of a poll that collected and stored everything.
LEMMA SyncedStep ==
  ASSUME TypeOK, SyncedMeansRead, Collected, AllCollected, [Next]_vars
  PROVE  SyncedMeansRead'
<1>1. /\ Tip \in Nat /\ synced \in [Wallet -> 0 .. Tip] /\ started \in 0 .. Tip
      /\ wallet \in Wallet
  BY PastStays DEF TypeOK
<1>2. SUFFICES ASSUME NEW a \in Settlement, NEW i \in 1 .. synced'[WalletOf[a]],
                      a \in SeenAt(log[i])'
               PROVE  Settled(i)'
  BY DEF SyncedMeansRead
<1>3. WalletOf[a] \in Wallet
  BY PollerAssumption DEF Wallet
<1>4. CASE synced'[WalletOf[a]] = synced[WalletOf[a]]
  <2>1. i \in 1 .. synced[WalletOf[a]] /\ i \in 1 .. Tip
    BY <1>1, <1>3, <1>4
  <2>2. QED
    BY <1>2, <2>1, Stays DEF SyncedMeansRead
<1>5. CASE Synced /\ WalletOf[a] = wallet /\ synced'[wallet] = started
  <2>1. i \in 1 .. started /\ i \in 1 .. Tip /\ found = {} /\ todo = {} /\ pc = "store"
    BY <1>1, <1>5 DEF Synced, AllCollected
  <2>2. InHand(i)
    BY <1>2, <1>5, <2>1, Stays DEF Collected
  <2>3. QED
    BY <2>1, <2>2, Stays DEF InHand
<1>6. QED
  <2>1. CASE Synced
    BY <1>1, <1>3, <1>4, <1>5, <2>1 DEF Synced
  <2>2. CASE synced' = synced
    BY <1>4, <2>2
  <2>3. QED
    BY <2>1, <2>2 DEF Next, World, Poll, Land, Watch, Age, NotifierRefreshes, BeginRound,
      BeginWallet, ListPermissions, RefreshListed, Addresses, Collect, Store, Advance, PollFails,
      Crash, vars, tables

\* A poll that goes on keeps what it collected, until it is stored.
LEMMA HandStays ==
  ASSUME TypeOK, [Next]_vars
  PROVE  \/ \A j \in found : j \in found' \/ j \in handled' \/ j \in reported'
         \/ heads' = NoHeads /\ pc' \notin {"collect", "store"}
<1>1. CASE Synced \/ Crash \/ \E refused \in BOOLEAN : PollFails(refused)
  BY <1>1 DEF Synced, Crash, PollFails, Leave
<1>2. ASSUME NEW i \in 1 .. Tip, Store(i)
      PROVE  \A j \in found : j \in found' \/ j \in handled' \/ j \in reported'
  BY <1>2 DEF Store, Write
<1>3. CASE found \subseteq found'
  BY <1>3
<1>4. QED
  BY <1>1, <1>2, <1>3 DEF Next, World, Poll, Land, Watch, Age, NotifierRefreshes, BeginRound,
      BeginWallet, ListPermissions, RefreshListed, Addresses, Collect, Advance, vars, round

\* The newest transaction of a list comes with all those before it.
LEMMA HeadsStep ==
  ASSUME TypeOK, CursorCovers, HeadsCover, [Next]_vars
  PROVE  HeadsCover'
<1>1. Tip \in Nat /\ heads \in [Address -> 0 .. Tip]
  BY PastStays DEF TypeOK
<1>2. SUFFICES ASSUME NEW a \in Address, NEW i \in 1 .. heads'[a], a \in SeenAt(log[i])'
               PROVE  InHand(i)'
  BY DEF HeadsCover
<1>3. CASE heads' = NoHeads
  BY <1>2, <1>3 DEF NoHeads
<1>4. CASE heads'[a] = 0
  BY <1>2, <1>4
<1>5. CASE heads' # NoHeads /\ heads'[a] = heads[a]
  <2>1. i \in 1 .. heads[a] /\ i \in 1 .. Tip
    BY <1>1, <1>5
  <2>2. InHand(i)
    BY <1>2, <2>1, Stays DEF HeadsCover
  <2>3. QED
    BY <1>5, <2>1, <2>2, Stays, HandStays
<1>6. CASE Collect(a)
  <2>1. heads'[a] = heads[a] \/ heads'[a] \in New(a)
    BY <1>1, <1>6 DEF Collect
  <2>2. heads'[a] \in 0 .. Tip
    BY <1>1, <2>1, NewTypes
  <2>3. i \in 1 .. Tip
    BY <1>1, <2>2
  <2>4. QED
    BY <1>2, <1>6, <2>3, Stays, ListedAll
<1>7. QED
  <2>1. ASSUME NEW b \in Address, Collect(b) \/ Advance(b)
        PROVE  heads'[a] = heads[a] \/ heads'[a] = 0 \/ Collect(a)
    BY <1>1, <2>1 DEF Collect, Advance
  <2>2. heads' = heads \/ heads' = NoHeads \/ \E b \in Address : Collect(b) \/ Advance(b)
    BY DEF Next, World, Poll, Land, Watch, Age, NotifierRefreshes, BeginRound, BeginWallet,
      ListPermissions, RefreshListed, Addresses, Store, Synced, PollFails, Crash, Leave, vars,
      round
  <2>3. QED
    BY <1>3, <1>4, <1>5, <1>6, <2>1, <2>2

\* An authority of the wallet leaves the addresses to be collected only by being listed.
LEMMA CollectedStep ==
  ASSUME TypeOK, CursorCovers, Collected, AllCollected, [Next]_vars
  PROVE  Collected' /\ AllCollected'
<1>1. Tip \in Nat /\ started \in 0 .. Tip
  BY PastStays DEF TypeOK
<1>2. CASE pc' \notin {"collect", "store"}
  BY <1>2 DEF Collected, AllCollected
<1>3. CASE Addresses
  <2>1. pc' = "collect"
    BY <1>3 DEF Addresses
  <2>2. \A a \in Settlement : WalletOf[a] = wallet => a \in todo'
    BY <1>3, PollerAssumption DEF Addresses, Address, OwnerOf
  <2>3. wallet' = wallet
    BY <1>3 DEF Addresses
  <2>4. QED
    BY <2>1, <2>2, <2>3 DEF Collected, AllCollected
<1>4. CASE /\ pc' \in {"collect", "store"} /\ pc' = pc
           /\ UNCHANGED <<todo, started, wallet>>
  <2>1. SUFFICES ASSUME NEW a \in Settlement, WalletOf[a] = wallet', a \notin todo',
                        NEW i \in 1 .. started', a \in SeenAt(log[i])'
                 PROVE  InHand(i)'
    BY <1>4 DEF Collected, AllCollected
  <2>2. i \in 1 .. started /\ i \in 1 .. Tip
    BY <1>1, <1>4
  <2>3. InHand(i)
    BY <1>4, <2>1, <2>2, Stays DEF Collected
  <2>4. QED
    BY <1>4, <2>2, <2>3, Stays, HandStays
<1>5. ASSUME NEW b \in Address, Collect(b)
      PROVE  Collected' /\ AllCollected'
  <2>1. /\ pc = "collect" /\ todo' = todo \ {b} /\ (pc' = "store" => todo' = {})
        /\ UNCHANGED <<started, wallet>>
    BY <1>5 DEF Collect
  <2>2. SUFFICES ASSUME NEW a \in Settlement, WalletOf[a] = wallet', a \notin todo',
                        NEW i \in 1 .. started', a \in SeenAt(log[i])'
                 PROVE  InHand(i)'
    BY <2>1 DEF Collected, AllCollected
  <2>3. i \in 1 .. started /\ i \in 1 .. Tip
    BY <1>1, <2>1
  <2>4. a \in SeenAt(log[i])
    BY <2>2, <2>3, Stays
  <2>5. CASE a = b
    BY <1>5, <2>3, <2>4, <2>5, ListedAll
  <2>6. CASE a # b
    <3>1. InHand(i)
      BY <2>1, <2>2, <2>3, <2>4, <2>6 DEF Collected
    <3>2. found \subseteq found'
      BY <1>5 DEF Collect
    <3>3. QED
      BY <2>3, <3>1, <3>2, Stays
  <2>7. QED
    BY <2>5, <2>6
<1>6. QED
  BY <1>2, <1>3, <1>4, <1>5
  DEF Next, World, Poll, Land, Watch, Age, NotifierRefreshes, BeginRound, BeginWallet,
      ListPermissions, RefreshListed, Advance, Store, Synced, PollFails, Crash, Leave, vars, round

(***************************************************************************)
(* The list of a synced wallet.                                            *)
(***************************************************************************)

\* What has landed of a permission stays; only what lands now may open or close it.
LEMMA HistoryStep ==
  ASSUME TypeOK, [Next]_vars, NEW p \in Pda
  PROVE  /\ Creations(p) \subseteq Creations(p)' /\ Revocations(p) \subseteq Revocations(p)'
         /\ \A i \in Creations(p)' : i \in Creations(p) \/ i > Tip
         /\ \A i \in Revocations(p)' : i \in Revocations(p) \/ i > Tip
         /\ \A i \in Opening(p)' : i \in Opening(p) \/ i > Tip
         /\ \A i \in 1 .. Tip : Reopened(p, i) => Reopened(p, i)'
<1>1. /\ Tip \in Nat /\ Tip' \in Nat /\ Tip <= Tip'
      /\ \A i \in 1 .. Tip : log'[i] = log[i]
  BY PastStays
<1>2. \A i \in 1 .. Tip : i \in 1 .. Tip'
  BY <1>1
<1>3. \A i \in 1 .. Tip' : i \in 1 .. Tip \/ i > Tip
  BY <1>1
<1>4. /\ Creations(p) \subseteq Creations(p)' /\ Revocations(p) \subseteq Revocations(p)'
      /\ \A i \in Creations(p)' : i \in Creations(p) \/ i > Tip
      /\ \A i \in Revocations(p)' : i \in Revocations(p) \/ i > Tip
  BY <1>1, <1>2, <1>3 DEF Creations, Revocations
<1>5. \A i \in Opening(p)' : i \in Opening(p) \/ i > Tip
  BY <1>4 DEF Opening
<1>6. \A i \in 1 .. Tip : Reopened(p, i) => Reopened(p, i)'
  BY <1>4 DEF Reopened
<1>7. QED
  BY <1>4, <1>5, <1>6

\* A permission that is open was opened, and reopened after every closing.
LEMMA OpenMeans ==
  ASSUME TypeOK, NEW p \in Pda, Open(p)
  PROVE  \A j \in Revocations(p) : Reopened(p, j)
<1>1. PICK i \in Opening(p) : TRUE
  BY DEF Open
<1>2. i \in Creations(p) /\ \A j \in Revocations(p) : j < i
  BY <1>1 DEF Opening
<1>3. Tip \in Nat /\ i \in Nat /\ \A j \in Revocations(p) : j \in Nat
  BY <1>2 DEF Creations, Revocations, TypeOK, Tip
<1>4. QED
  BY <1>2, <1>3 DEF Reopened

\* A read never takes a row away, and calls a permission active only when it is open.
LEMMA ReadTells ==
  ASSUME TypeOK, NEW p \in Pda
  PROVE  /\ row[p] # "none" \/ Open(p) => Read(p) # "none"
         /\ Read(p) = "active" => Open(p)
BY DEF Read, Live

\* What any step does to a row: nothing, or a read of the chain, which happens between
\* landings.
LEMMA RowStep ==
  ASSUME TypeOK, [Next]_vars, NEW p \in Pda
  PROVE  \/ row'[p] = row[p]
         \/ row'[p] = Read(p) /\ log' = log
<1> USE DEF TypeOK
<1>1. CASE row' = row
  BY <1>1
<1>2. ASSUME NEW i, Write(i)
      PROVE  row'[p] = row[p] \/ row'[p] = Read(p)
  BY <1>2 DEF Write
<1>3. ASSUME NEW i \in 1 .. Tip, Store(i)
      PROVE  (row'[p] = row[p] \/ row'[p] = Read(p)) /\ log' = log
  BY <1>2, <1>3 DEF Store, world
<1>4. ASSUME NEW refused \in BOOLEAN, PollFails(refused)
      PROVE  (row'[p] = row[p] \/ row'[p] = Read(p)) /\ log' = log
  BY <1>2, <1>4 DEF PollFails, world
<1>5. CASE RefreshListed \/ \E q \in Pda : NotifierRefreshes(q)
  BY <1>5 DEF RefreshListed, NotifierRefreshes, world
<1>6. QED
  BY <1>1, <1>3, <1>4, <1>5 DEF Next, World, Poll, Land, Watch, Age, BeginRound, BeginWallet,
      ListPermissions, Addresses, Collect, Advance, Synced, Crash, vars, tables

\* A row never goes away; one that becomes active is of a permission that is open.
LEMMA RowStays ==
  ASSUME TypeOK, [Next]_vars, NEW p \in Pda
  PROVE  /\ row[p] # "none" => row'[p] # "none"
         /\ row'[p] = "active" => row[p] = "active" \/ \A j \in Revocations(p)' : Reopened(p, j)'
<1>1. CASE row'[p] = row[p]
  BY <1>1
<1>2. CASE row'[p] = Read(p) /\ log' = log
  <2>1. Open(p) => \A j \in Revocations(p)' : Reopened(p, j)'
    BY <1>2, OpenMeans DEF Revocations, Reopened, Creations, Tip
  <2>2. QED
    BY <1>2, <2>1, ReadTells
<1>3. QED
  BY <1>1, <1>2, RowStep

\* Whatever is stored was written by the store's reads of what it touched.
LEMMA HandledStep ==
  ASSUME TypeOK, [Next]_vars, NEW i \in handled', i \notin handled
  PROVE  i \in 1 .. Tip /\ log' = log /\ Write(i)
<1> USE DEF TypeOK
<1>1. CASE handled' = handled
  BY <1>1
<1>2. ASSUME NEW j \in 1 .. Tip, Store(j)
      PROVE  i \in 1 .. Tip /\ log' = log /\ Write(i)
  BY <1>2 DEF Store, Write, world
<1>3. ASSUME NEW refused \in BOOLEAN, PollFails(refused)
      PROVE  i \in 1 .. Tip /\ log' = log /\ Write(i)
  BY <1>3 DEF PollFails, Write, world
<1>4. QED
  BY <1>1, <1>2, <1>3 DEF Next, World, Poll, Land, Watch, Age, NotifierRefreshes, BeginRound,
      BeginWallet, ListPermissions, RefreshListed, Addresses, Collect, Advance, Synced, Crash,
      vars, past

LEMMA RowsToldStep ==
  ASSUME TypeOK, RowsTold, [Next]_vars
  PROVE  RowsTold'
<1> SUFFICES ASSUME NEW p \in Pda
             PROVE  /\ \A i \in Opening(p)' \cap handled' : row'[p] # "none"
                    /\ \A i \in Revocations(p)' \cap handled' :
                         row'[p] = "active" => Reopened(p, i)'
  BY DEF RowsTold
<1>1. Tip \in Nat /\ handled \subseteq 1 .. Tip /\ row \in [Pda -> {"none", "active", "revoked"}]
  BY PastStays DEF TypeOK
<1>2. ASSUME NEW i \in Opening(p)' \cap handled'
      PROVE  row'[p] # "none"
  <2>1. CASE i \in handled
    <3>1. i \in Opening(p)
      BY <1>1, <1>2, <2>1, HistoryStep
    <3>2. QED
      BY <2>1, <3>1, RowStays DEF RowsTold
  <2>2. CASE i \notin handled
    <3>1. i \in 1 .. Tip /\ log' = log /\ Write(i)
      BY <1>2, <2>2, HandledStep
    <3>2. i \in Opening(p) /\ log[i].kind = "create" /\ log[i].at = p
      BY <1>2, <3>1 DEF Opening, Creations, Revocations, Tip
    <3>3. row'[p] = Read(p)
      BY <3>1, <3>2 DEF Write, Touched, Direct
    <3>4. QED
      BY <3>2, <3>3, ReadTells DEF Open
  <2>3. QED
    BY <2>1, <2>2
<1>3. ASSUME NEW i \in Revocations(p)' \cap handled', row'[p] = "active"
      PROVE  Reopened(p, i)'
  <2>1. CASE i \in handled
    <3>1. i \in Revocations(p) /\ i \in 1 .. Tip
      <4>1. i \in 1 .. Tip /\ ~(i > Tip)
        BY <1>1, <2>1
      <4>2. QED
        BY <1>3, <4>1, HistoryStep
    <3>2. row[p] = "active" => Reopened(p, i)
      BY <2>1, <3>1 DEF RowsTold
    <3>3. QED
      BY <1>3, <3>1, <3>2, RowStays, HistoryStep
  <2>2. CASE i \notin handled
    <3>1. i \in 1 .. Tip /\ log' = log /\ Write(i)
      BY <1>3, <2>2, HandledStep
    <3>2. log[i].kind = "revoke" /\ log[i].at = p /\ i \in Revocations(p)
      BY <1>3, <3>1 DEF Revocations, Tip
    <3>3. row'[p] = Read(p)
      BY <3>1, <3>2 DEF Write, Touched, Direct
    <3>4. Reopened(p, i)
      BY <1>3, <3>2, <3>3, ReadTells, OpenMeans
    <3>5. QED
      BY <3>1, <3>4, HistoryStep
  <2>3. QED
    BY <2>1, <2>2
<1>4. QED
  BY <1>2, <1>3

\* Age waits for known wallets, and a poll begins at the tip.
LEMMA FreshStep ==
  ASSUME TypeOK, Fresh, [Next]_vars
  PROVE  Fresh'
<1> USE DEF TypeOK, Fresh
<1>1. Tip \in Nat /\ Tip' \in Nat /\ aged \in Nat /\ started \in Nat
      /\ synced \in [Wallet -> Nat]
  BY PastStays
<1>2. CASE Age
  BY <1>1, <1>2 DEF Age, tables, round
<1>3. CASE BeginRound
  BY <1>3 DEF BeginRound, tables, world
<1>4. CASE BeginWallet
  BY <1>1, <1>4 DEF BeginWallet, tables, world
<1>5. CASE Synced
  <2>1. \A w \in Wallet : w = wallet \/ synced'[w] = synced[w]
    BY <1>5 DEF Synced
  <2>2. synced'[wallet] >= started /\ aged <= started /\ aged' = aged
    BY <1>1, <1>5 DEF Synced, world
  <2>3. known' = known \cup {wallet} /\ pc' \in {"pause", "next"} /\ known' \subseteq Wallet
    BY <1>5 DEF Synced, Leave
  <2>4. \A w \in known' : aged' <= synced'[w]
    <3> SUFFICES ASSUME NEW w \in known' PROVE aged' <= synced'[w]
      OBVIOUS
    <3>1. CASE w = wallet
      <4>1. synced'[wallet] \in Nat
        BY <1>1, <1>5 DEF Synced
      <4>2. QED
        BY <1>1, <2>2, <3>1, <4>1
    <3>2. CASE w # wallet
      BY <2>1, <2>2, <2>3, <3>2
    <3>3. QED
      BY <3>1, <3>2
  <2>5. QED
    BY <2>3, <2>4
<1>6. CASE Crash \/ \E refused \in BOOLEAN : PollFails(refused)
  BY <1>6 DEF Crash, PollFails, Leave, tables, world
<1>7. CASE UNCHANGED <<aged, known, synced, started>> /\ (pc' = pc \/ pc \notin {"pause", "next"})
  BY <1>7
<1>8. QED
  BY <1>2, <1>3, <1>4, <1>5, <1>6, <1>7 DEF Next, World, Poll, Land, Watch, NotifierRefreshes,
      ListPermissions, RefreshListed, Addresses, Collect, Advance, Store, vars, tables, world, round

LEMMA ListedBackStep ==
  ASSUME TypeOK, ListedBack, [Next]_vars
  PROVE  ListedBack'
<1> SUFFICES ASSUME pc' \in {"refresh", "addresses", "collect", "store"}, wallet' \notin known',
                    NEW p \in Pda, OwnerOf(p) = wallet', NEW i \in Opening(p)'
             PROVE  row'[p] # "none" \/ i > started' \/ (pc' = "refresh" /\ p \in todo')
  BY DEF ListedBack, OwnerOf
<1>1. Tip \in Nat /\ started \in 0 .. Tip
  BY PastStays DEF TypeOK
<1>2. i \in Opening(p) \/ i > Tip
  BY HistoryStep
<1>3. i \in Nat
  BY PastStays DEF Opening, Creations
<1>4. CASE started' = started /\ i > Tip
  BY <1>1, <1>3, <1>4
<1>5. CASE ListPermissions
  <2>1. Opening(p)' = Opening(p)
    BY <1>5 DEF ListPermissions, world, Opening, Creations, Revocations, Tip
  <2>2. QED
    BY <1>5, <2>1 DEF ListPermissions, Open
<1>6. CASE RefreshListed
  <2>1. Opening(p)' = Opening(p)
    BY <1>6 DEF RefreshListed, world, Opening, Creations, Revocations, Tip
  <2>2. row[p] # "none" \/ i > started \/ p \in todo
    BY <1>6, <2>1 DEF RefreshListed, ListedBack
  <2>3. p \in todo => row'[p] # "none"
    BY <1>6, <2>1, ReadTells DEF RefreshListed, Open
  <2>4. QED
    BY <1>6, <2>2, <2>3, RowStays DEF RefreshListed
<1>7. CASE /\ UNCHANGED <<started, wallet, known>> /\ i \in Opening(p)
           /\ pc \in {"addresses", "collect", "store"} /\ pc' # "refresh"
  BY <1>7, RowStays DEF ListedBack
<1>8. CASE UNCHANGED <<started, wallet, known, pc, todo>> /\ i \in Opening(p)
  BY <1>8, RowStays DEF ListedBack
<1>9. QED
  <2>1. CASE World \/ UNCHANGED vars
    <3>1. UNCHANGED round
      BY <2>1 DEF World, Land, Watch, Age, NotifierRefreshes, vars
    <3>2. QED
      BY <1>2, <1>4, <1>8, <3>1 DEF round
  <2>2. CASE Addresses \/ (\E a \in Address : Collect(a) \/ Advance(a)) \/ \E j \in 1 .. Tip : Store(j)
    <3>1. /\ UNCHANGED <<started, wallet, known>>
          /\ pc \in {"addresses", "collect", "store"} /\ pc' # "refresh"
      BY <2>2 DEF Addresses, Collect, Advance, Store
    <3>2. QED
      BY <1>2, <1>4, <1>7, <3>1
  <2>3. CASE BeginRound \/ BeginWallet \/ Synced \/ Crash \/ \E refused \in BOOLEAN : PollFails(refused)
    BY <2>3 DEF BeginRound, BeginWallet, Synced, Crash, PollFails, Leave
  <2>4. QED
    BY <1>5, <1>6, <2>1, <2>2, <2>3 DEF Next, Poll

LEMMA ClosingsAskedStep ==
  ASSUME TypeOK, CursorCovers, AllCollected, ClosingsAsked, [Next]_vars
  PROVE  ClosingsAsked'
<1> SUFFICES ASSUME pc' \in {"collect", "store"},
                    NEW p \in Pda, OwnerOf(p) = wallet', row'[p] = "active",
                    NEW i \in Revocations(p)', i <= started', ~Reopened(p, i)'
             PROVE  InHand(i)' \/ p \in todo'
  BY DEF ClosingsAsked, OwnerOf
<1>1. Tip \in Nat /\ started \in 0 .. Tip
  BY PastStays DEF TypeOK
<1>2. CASE Addresses
  <2>1. row[p] = "active" /\ wallet' = wallet
    BY <1>2 DEF Addresses, tables
  <2>2. QED
    BY <1>2, <2>1 DEF Addresses, Address, Held, OwnerOf
<1>3. CASE started' = started /\ wallet' = wallet /\ pc \in {"collect", "store"}
  <2>1. i \in Revocations(p) /\ i \in 1 .. Tip
    BY <1>1, <1>3, HistoryStep DEF Revocations
  <2>2. row[p] = "active" /\ ~Reopened(p, i)
    BY <2>1, RowStays, HistoryStep
  <2>3. InHand(i) \/ p \in todo
    BY <1>3, <2>1, <2>2 DEF ClosingsAsked
  <2>4. p \in SeenAt(log[i])
    BY <2>1 DEF Revocations, SeenAt
  <2>5. CASE InHand(i)
    BY <2>1, <2>5, Stays, HandStays DEF NoHeads
  <2>6. CASE Collect(p)
    BY <2>1, <2>4, <2>6, ListedAll DEF Address
  <2>7. CASE p \in todo /\ ~Collect(p)
    <3>1. todo' = todo \/ \E a \in Address : Collect(a)
      BY <1>3, <2>7 DEF Next, World, Poll, Land, Watch, Age, NotifierRefreshes, BeginRound,
        BeginWallet, ListPermissions, RefreshListed, Addresses, Advance, Store, Synced, PollFails,
        Crash, Leave, vars, round
    <3>2. QED
      BY <2>7, <3>1 DEF Collect
  <2>8. QED
    BY <2>3, <2>5, <2>6, <2>7
<1>4. QED
  BY <1>2, <1>3 DEF Next, World, Poll, Land, Watch, Age, NotifierRefreshes, BeginRound, BeginWallet,
    ListPermissions, RefreshListed, Collect, Advance, Store, Synced, PollFails, Crash, Leave, vars,
    round

\* `synced_at` moves to the beginning of a poll that listed the wallet, or read its authority
\* from where the last one stopped, and asked every permission held as active for its closing.
LEMMA ListTrueStep ==
  ASSUME PInv, LInv, [Next]_vars
  PROVE  ListTrue'
<1> USE DEF PInv, LInv
<1>1. /\ Tip \in Nat /\ synced \in [Wallet -> 0 .. Tip] /\ started \in 0 .. Tip /\ wallet \in Wallet
      /\ aged \in Nat /\ aged' \in Nat /\ aged <= aged' /\ reported \subseteq reported'
  BY PastStays DEF TypeOK
<1>2. \A p \in Pda : OwnerOf(p) \in Wallet /\ OwnerOf(p) = WalletOf[AuthorityOf[p]]
  BY PollerAssumption DEF OwnerOf, Wallet
<1>3. ASSUME NEW w \in Wallet
      PROVE  \/ synced'[w] = synced[w]
             \/ Synced /\ w = wallet /\ synced'[w] = started
  BY <1>1 DEF Next, World, Poll, Land, Watch, Age, NotifierRefreshes, BeginRound, BeginWallet,
      ListPermissions, RefreshListed, Addresses, Collect, Store, Advance, Synced, PollFails, Crash,
      vars, tables
<1>4. ASSUME Synced
      PROVE  /\ pc = "store" /\ found = {} /\ todo = {} /\ log' = log
             /\ UNCHANGED <<row, reported, aged, handled>>
  BY <1>4 DEF Synced, AllCollected, world, past
<1>5. ClosingShown'
  <2> SUFFICES ASSUME NEW p \in Pda, NEW i \in Revocations(p)',
                      i <= synced'[OwnerOf(p)], row'[p] = "active", ~Reopened(p, i)'
               PROVE  i \in reported' \/ i <= aged'
    BY DEF ClosingShown, OwnerOf
  <2>1. i \in Nat /\ synced'[OwnerOf(p)] \in 0 .. Tip
    BY <1>1, <1>2, <1>3, PastStays DEF Revocations
  <2>2. i \in Revocations(p) /\ i \in 1 .. Tip
    BY <2>1, <1>1, HistoryStep DEF Revocations
  <2>3. row[p] = "active" /\ ~Reopened(p, i)
    BY <2>2, RowStays, HistoryStep
  <2>4. CASE synced'[OwnerOf(p)] = synced[OwnerOf(p)]
    <3>1. i \in reported \/ i <= aged
      BY <2>2, <2>3, <2>4 DEF ListTrue, ClosingShown
    <3>2. QED
      BY <1>1, <2>1, <3>1
  <2>5. CASE Synced /\ OwnerOf(p) = wallet /\ i <= started
    <3>1. InHand(i)
      BY <1>4, <2>2, <2>3, <2>5 DEF ClosingsAsked
    <3>2. i \notin handled
      BY <2>2, <2>3 DEF RowsTold
    <3>3. QED
      BY <1>4, <2>5, <3>1, <3>2 DEF InHand, Settled
  <2>6. QED
    BY <1>2, <1>3, <2>4, <2>5
<1>6. SyncedShowsAll'
  <2> SUFFICES ASSUME NEW p \in Pda, NEW i \in Opening(p)',
                      row'[p] = "none", ~(i > synced'[OwnerOf(p)]), AuthorityOf[p] \in Settlement
               PROVE  i \in reported'
    BY DEF SyncedShowsAll, OwnerOf
  <2>1. i \in Nat /\ synced'[OwnerOf(p)] \in 0 .. Tip /\ i <= synced'[OwnerOf(p)]
    <3>1. i \in Nat /\ synced'[OwnerOf(p)] \in 0 .. Tip
      BY <1>1, <1>2, <1>3, PastStays DEF Opening, Creations
    <3>2. QED
      BY <3>1
  <2>2. i \in Opening(p) /\ i \in 1 .. Tip
    BY <2>1, <1>1, HistoryStep DEF Opening, Creations
  <2>3. row[p] = "none"
    BY RowStays
  <2>4. CASE i <= synced[OwnerOf(p)]
    <3>1. i \in reported
      BY <1>1, <1>2, <2>1, <2>2, <2>3, <2>4 DEF ListTrue, SyncedShowsAll
    <3>2. QED
      BY <1>1, <3>1
  <2>5. CASE Synced /\ OwnerOf(p) = wallet /\ i <= started /\ i > synced[wallet]
    <3>1. wallet \in known
      BY <1>1, <1>4, <2>1, <2>2, <2>3, <2>5 DEF ListedBack
    <3>2. ~(i <= aged)
      BY <1>1, <2>1, <2>5, <3>1 DEF Fresh
    <3>3. AuthorityOf[p] \in SeenAt(log[i])
      BY <2>2 DEF Opening, Creations, SeenAt
    <3>4. i \in 1 .. started
      BY <1>1, <2>2, <2>5
    <3>5. InHand(i)
      BY <1>2, <1>4, <2>5, <3>3, <3>4 DEF Collected
    <3>6. i \notin handled
      BY <2>2, <2>3 DEF RowsTold
    <3>7. QED
      BY <1>4, <2>5, <3>2, <3>5, <3>6 DEF InHand, Settled
  <2>6. QED
    BY <1>1, <1>2, <1>3, <2>1, <2>4, <2>5
<1>7. QED
  BY <1>5, <1>6 DEF ListTrue

(***************************************************************************)
(* The theorems.                                                           *)
(***************************************************************************)

LEMMA PInvInit == Init => PInv
<1> SUFFICES ASSUME Init PROVE PInv
  OBVIOUS
<1> USE PollerAssumption
<1>1. log = <<>> /\ Tip = 0 /\ pc = "pause"
  BY DEF Init, Start, Tip
<1>2. TypeOK
  BY <1>1 DEF Init, Start, TypeOK, NoHeads, Wallet
<1>3. CursorCovers /\ HeadsCover
  BY DEF Init, Start, CursorCovers, HeadsCover, NoHeads
<1>4. SyncedMeansRead
  <2>1. \A a \in Settlement : synced[WalletOf[a]] = 0
    BY DEF Init, Wallet
  <2>2. QED
    BY <2>1 DEF SyncedMeansRead
<1>5. Collected /\ AllCollected
  BY <1>1 DEF Collected, AllCollected
<1>6. QED
  BY <1>2, <1>3, <1>4, <1>5 DEF PInv

LEMMA PInvStep == PInv /\ [Next]_vars => PInv'
  BY TypeStep, CursorStep, SyncedStep, HeadsStep, CollectedStep DEF PInv

\* The inductive invariant holds of every behaviour.
THEOREM Invariance == Spec => []PInv
BY PInvInit, PInvStep, PTL DEF Spec

\* So does the one behind the list of a synced wallet.
LEMMA LInvariance == Spec => []LInv
<1>1. Init => LInv
  <2> SUFFICES ASSUME Init PROVE LInv
    OBVIOUS
  <2>1. Tip = 0 /\ pc = "pause" /\ known = {}
    BY DEF Init, Start, Tip
  <2>2. \A p \in Pda : Creations(p) = {} /\ Revocations(p) = {} /\ Opening(p) = {}
    BY <2>1 DEF Creations, Revocations, Opening
  <2>3. QED
    BY <2>1, <2>2 DEF LInv, RowsTold, Fresh, ListedBack, ClosingsAsked, ListTrue, ClosingShown,
       SyncedShowsAll
<1>2. PInv /\ LInv /\ [Next]_vars => LInv'
  BY RowsToldStep, FreshStep, ListedBackStep, ClosingsAskedStep, ListTrueStep DEF PInv, LInv
<1>3. QED
  BY <1>1, <1>2, Invariance, PTL DEF Spec

\* Every reachable state of the poller is well-typed.
THEOREM TypeCorrect == Spec => []TypeOK
<1>1. PInv => TypeOK
  BY DEF PInv
<1>2. QED
  BY <1>1, Invariance, PTL

\* No cursor of an address ever passes a transaction seen there that was not stored,
\* reported or too old, whatever failed, crashed or was watched in between.
THEOREM CursorsSafe == Spec => []CursorCovers
<1>1. PInv => CursorCovers
  BY DEF PInv
<1>2. QED
  BY <1>1, Invariance, PTL

\* `synced_at` of a wallet never passes a transaction its settlement authority saw that was
\* not stored, reported or too old.
THEOREM SyncedSafe == Spec => []SyncedMeansRead
<1>1. PInv => SyncedMeansRead
  BY DEF PInv
<1>2. QED
  BY <1>1, Invariance, PTL

\* The cache of a synced wallet is what the chain holds: a permission that was closed before
\* `synced_at` is not called active, and one that is open has a row, unless what opened or
\* closed it could not be read or was too old, whatever failed and whoever watched.
THEOREM ListsTrue == Spec => []ListTrue
<1>1. LInv => ListTrue
  BY DEF LInv
<1>2. QED
  BY <1>1, LInvariance, PTL
=============================================================================
