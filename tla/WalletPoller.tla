---------------------------- MODULE WalletPoller ---------------------------
(***************************************************************************)
(* The indexer without a socket (apps/indexer/src/poll.ts): rounds over    *)
(* the wallets someone is looking at. Each round collects, per wallet,     *)
(* what is new at its authorities and at each permission the cache holds   *)
(* open, stores it, moves a cursor per address and then `synced_at`.       *)
(*                                                                         *)
(* Wallets are numbers, in the order of `watched`. A transaction is its    *)
(* position in the program's history. The sink and the refreshes read the  *)
(* chain and commit in one step here; Store has the steps between.         *)
(***************************************************************************)
EXTENDS Naturals, Sequences, FiniteSets

CONSTANTS
  Wallets,      \* number of wallets
  Pda,          \* permissions
  Authority,    \* SubscriptionAuthority accounts, one per wallet and mint
  AuthorityOf,  \* the authority of each permission
  WalletOf,     \* the wallet of each authority
  Settlement,   \* authorities of the settlement mint: always read
  Bad,          \* transactions that cannot be read
  ListCap,      \* CATCH_UP_MAX_PAGES * CATCH_UP_PAGE
  MaxTx,        \* bound: transactions that ever land
  MaxFaults     \* bound: crashes, and rounds that fail

ASSUME PollerAssumption ==
  /\ {MaxTx, MaxFaults} \subseteq Nat /\ {Wallets, ListCap} \subseteq Nat \ {0}
  /\ AuthorityOf \in [Pda -> Authority] /\ WalletOf \in [Authority -> 1 .. Wallets]
  /\ Settlement \subseteq Authority /\ Pda \cap Authority = {}
  /\ \A w \in 1 .. Wallets : \E a \in Settlement : WalletOf[a] = w

VARIABLES
  log,        \* the program's transactions: kind, and the account it is about
  row,        \* the status of each permission's row in the cache
  cursors,    \* indexer_cursor of each address; 0: none
  synced,     \* watched_wallets.synced_at: the tip when the poll it is of began
  watched,    \* wallets whose stream is alive
  aged,       \* transactions older than the retention cut
  known,      \* wallets watched in the previous round
  pc,         \* what the round is doing
  agenda,     \* wallets the round still has to poll
  wallet,     \* the wallet being polled
  started,    \* the tip when its poll began
  todo,       \* permissions to refresh, or addresses still to collect
  found,      \* transactions collected, to be stored
  heads,      \* the newest transaction collected at each address; 0: none
  handled,    \* transactions in the or without a row to belong to
  reported,   \* history: transactions logged as not indexed
  faults      \* bound

tables == <<row, cursors, synced>>
world  == <<log, watched, aged>>
round  == <<known, pc, agenda, wallet, started, todo, found, heads>>
past   == <<handled, reported, faults>>
vars   == <<tables, world, round, past>>

Tip     == Len(log)
Wallet  == 1 .. Wallets
Address == Authority \cup Pda
Direct  == {"create", "use", "cancel", "revoke"}
NoHeads == [a \in Address |-> 0]

\* The addresses a transaction's accounts show it at: cancelling and revoking carry no
\* authority, closing an authority no permission.
SeenAt(tx) ==
  CASE tx.kind \in {"create", "use"} -> {tx.at, AuthorityOf[tx.at]}
    [] OTHER -> {tx.at}

OwnerOf(address) == WalletOf[IF address \in Pda THEN AuthorityOf[address] ELSE address]

\* What the chain holds of a permission: created and not revoked since; dead when its
\* authority was closed since.
Creations(p)   == {i \in 1 .. Tip : log[i].kind = "create" /\ log[i].at = p}
Revocations(p) == {i \in 1 .. Tip : log[i].kind = "revoke" /\ log[i].at = p}
Opening(p) == {i \in Creations(p) : \A j \in Revocations(p) : j < i}
Open(p) == Opening(p) # {}
Live(p) ==
  Open(p) /\ ~\E j \in 1 .. Tip : /\ log[j].kind = "authority" /\ log[j].at = AuthorityOf[p]
                                  /\ \A i \in Creations(p) : i < j

\* A row after its permission was read from the chain.
Read(p) ==
  CASE Live(p) -> "active"
    [] Open(p) /\ ~Live(p) -> "revoked"
    [] OTHER -> IF row[p] = "none" THEN "none" ELSE "revoked"

TypeOK ==
  /\ log \in Seq([kind : Direct \cup {"authority"}, at : Address]) /\ Tip <= MaxTx
  /\ \A i \in 1 .. Tip : log[i].kind \in Direct <=> log[i].at \in Pda
  /\ row \in [Pda -> {"none", "active", "revoked"}]
  /\ cursors \in [Address -> 0 .. Tip] /\ heads \in [Address -> 0 .. Tip]
  /\ synced \in [Wallet -> 0 .. Tip] /\ started \in 0 .. Tip /\ aged \in 0 .. Tip
  /\ watched \subseteq Wallet /\ known \subseteq Wallet /\ agenda \subseteq Wallet
  /\ wallet \in Wallet
  /\ pc \in {"pause", "next", "list", "refresh", "addresses", "collect", "store"}
  /\ todo \subseteq Address
  /\ {found, handled, reported} \subseteq SUBSET (1 .. Tip)
  /\ faults \in 0 .. MaxFaults

Start ==
  /\ known = {} /\ pc = "pause" /\ agenda = {} /\ wallet = 1 /\ started = 0
  /\ todo = {} /\ found = {} /\ heads = NoHeads

Init ==
  /\ log = <<>> /\ row = [p \in Pda |-> "none"]
  /\ cursors = NoHeads /\ synced = [w \in Wallet |-> 0]
  /\ watched = {} /\ aged = 0 /\ Start
  /\ handled = {} /\ reported = {} /\ faults = 0

-----------------------------------------------------------------------------
(***************************************************************************)
(* The chain, the streams, the clock and the notifier.                     *)
(***************************************************************************)

Land(kind, account) ==
  /\ Tip < MaxTx
  /\ kind \in Direct <=> account \in Pda
  /\ kind \in {"cancel", "revoke"} => Open(account)
  /\ kind = "create" => ~Open(account)
  /\ log' = Append(log, [kind |-> kind, at |-> account])
  /\ UNCHANGED <<tables, watched, aged, round, past>>

\* A stream of the wallet opens and keeps active_until ahead, or ends and lets it pass.
Watch(w) ==
  /\ watched' = IF w \in watched THEN watched \ {w} ELSE watched \cup {w}
  /\ UNCHANGED <<tables, log, aged, round, past>>

\* A transaction falls behind the cut. That takes days, and a known wallet is polled every
\* few seconds: it has read the transaction by then.
Age ==
  /\ aged < Tip
  /\ \A w \in known : aged < synced[w]
  /\ pc = "pause"
  /\ aged' = aged + 1
  /\ UNCHANGED <<tables, log, watched, round, past>>

\* The notifier refreshes a permission with a charge due.
NotifierRefreshes(p) ==
  /\ row[p] = "active"
  /\ row' = [row EXCEPT ![p] = Read(p)]
  /\ UNCHANGED <<cursors, synced, world, round, past>>

-----------------------------------------------------------------------------
(***************************************************************************)
(* A round.                                                                *)
(***************************************************************************)

\* A poll is over: what it collected is local to its call. The round goes on with the
\* wallets left, or pauses.
Leave(wallets) ==
  /\ pc' = (IF wallets = {} THEN "pause" ELSE "next") /\ agenda' = wallets
  /\ wallet' = 1 /\ started' = 0
  /\ todo' = {} /\ found' = {} /\ heads' = NoHeads

\* Mutant of BeginRound: wallets already caught up are not polled again.
BeginRoundNewOnly ==
  /\ pc = "pause"
  /\ agenda' = watched \ known /\ known' = known \cap watched
  /\ pc' = IF agenda' = {} THEN "pause" ELSE "next"
  /\ UNCHANGED <<tables, world, wallet, started, todo, found, heads, past>>

\* The wallets watched now; those nobody watches any more are no longer known.
BeginRound ==
  /\ pc = "pause"
  /\ agenda' = watched /\ known' = known \cap watched
  /\ pc' = IF watched = {} THEN "pause" ELSE "next"
  /\ UNCHANGED <<tables, world, wallet, started, todo, found, heads, past>>

\* Mutant of BeginWallet: a wallet that comes back is not listed from the chain.
BeginWalletUnlisted ==
  /\ pc = "next"
  /\ \E w \in agenda :
       /\ \A v \in agenda : w <= v
       /\ wallet' = w /\ agenda' = agenda \ {w}
       /\ pc' = "addresses"
  /\ started' = Tip
  /\ UNCHANGED <<tables, world, known, todo, found, heads, past>>

\* The next wallet; one the previous round did not poll is listed from the chain first.
BeginWallet ==
  /\ pc = "next"
  /\ \E w \in agenda :
       /\ \A v \in agenda : w <= v
       /\ wallet' = w /\ agenda' = agenda \ {w}
       /\ pc' = IF w \in known THEN "addresses" ELSE "list"
  /\ started' = Tip
  /\ UNCHANGED <<tables, world, known, todo, found, heads, past>>

\* permissionsOf: what the chain holds for the wallet.
ListPermissions ==
  /\ pc = "list"
  /\ todo' = {p \in Pda : OwnerOf(p) = wallet /\ Open(p)}
  /\ pc' = "refresh"
  /\ UNCHANGED <<tables, world, known, agenda, wallet, started, found, heads, past>>

RefreshListed ==
  /\ pc = "refresh"
  /\ row' = [p \in Pda |-> IF p \in todo THEN Read(p) ELSE row[p]]
  /\ todo' = {} /\ pc' = "addresses"
  /\ UNCHANGED <<cursors, synced, world, known, agenda, wallet, started, found, heads, past>>

\* The cache holds it and has not seen it closed.
Held(p) == p \in Pda /\ row[p] = "active"

\* Mutant of Addresses: the permissions themselves are not asked for.
AddressesWithoutPermissions ==
  /\ pc = "addresses"
  /\ todo' = {a \in Authority : /\ WalletOf[a] = wallet
                                /\ a \in Settlement \/ \E p \in Pda : Held(p) /\ AuthorityOf[p] = a}
  /\ pc' = "collect"
  /\ UNCHANGED <<tables, world, known, agenda, wallet, started, found, heads, past>>

\* addressesOf: the authorities of the settlement mint and of the mints held, and each
\* permission the cache holds open.
Addresses ==
  /\ pc = "addresses"
  /\ todo' = {a \in Address :
       /\ OwnerOf(a) = wallet
       /\ a \in Settlement \/ Held(a) \/ \E p \in Pda : Held(p) /\ AuthorityOf[p] = a}
  /\ pc' = "collect"
  /\ UNCHANGED <<tables, world, known, agenda, wallet, started, found, heads, past>>

\* What the node lists at an address after its cursor; the first time, back to the cut.
New(a) == {i \in 1 .. Tip : a \in SeenAt(log[i]) /\ i > cursors[a] /\ (cursors[a] = 0 => i > aged)}

\* The newest transactions of a list that is too long.
Listed(a) == {i \in New(a) : Cardinality({j \in New(a) : j > i}) < ListCap}

\* Mutant of Collect: the cursor moves when an address was listed.
CollectMovesCursor(a) ==
  /\ pc = "collect" /\ a \in todo /\ (a \in Pda => todo \cap Authority = {})
  /\ found' = found \cup Listed(a)
  /\ reported' = reported \cup (New(a) \ Listed(a))
  /\ heads' = heads
  /\ \/ New(a) = {} /\ cursors' = cursors
     \/ \E h \in New(a) : (\A i \in New(a) : i <= h) /\ cursors' = [cursors EXCEPT ![a] = h]
  /\ todo' = todo \ {a}
  /\ pc' = IF todo = {a} THEN "store" ELSE pc
  /\ UNCHANGED <<row, synced, world, known, agenda, wallet, started, handled, faults>>

\* One address after the other, authorities first; what is beyond the cap is logged.
Collect(a) ==
  /\ pc = "collect" /\ a \in todo /\ (a \in Pda => todo \cap Authority = {})
  /\ found' = found \cup Listed(a)
  /\ reported' = reported \cup (New(a) \ Listed(a))
  /\ \/ New(a) = {} /\ heads' = heads
     \/ \E h \in New(a) : (\A i \in New(a) : i <= h) /\ heads' = [heads EXCEPT ![a] = h]
  /\ todo' = todo \ {a}
  /\ pc' = IF todo = {a} THEN "store" ELSE pc
  /\ UNCHANGED <<tables, world, known, agenda, wallet, started, handled, faults>>

\* What storing transaction i writes: the rows it touches as the chain has them now, and
\* its events of those that then exist.
Touched(i) ==
  IF log[i].kind \in Direct THEN {log[i].at}
  ELSE {p \in Pda : Held(p) /\ AuthorityOf[p] = log[i].at}

Write(i) ==
  /\ row' = [p \in Pda |-> IF p \in Touched(i) THEN Read(p) ELSE row[p]]
  /\ handled' = handled \cup {i}

Oldest(i) == i \in found /\ \A j \in found : i <= j

\* Oldest first: the transaction is read and stored, or cannot be read and is logged.
Store(i) ==
  /\ pc = "store" /\ Oldest(i)
  /\ found' = found \ {i}
  /\ \/ i \notin Bad /\ Write(i) /\ UNCHANGED reported
     \/ i \in Bad /\ reported' = reported \cup {i} /\ UNCHANGED <<row, handled>>
  /\ UNCHANGED <<cursors, synced, world, known, pc, agenda, wallet, started, todo, heads, faults>>

\* Mutant of Advance: the cursor is the place after the newest transaction.
AdvanceBehind(a) ==
  /\ pc = "store" /\ found = {} /\ heads[a] # 0
  /\ cursors' = [cursors EXCEPT ![a] = IF @ <= heads[a] THEN heads[a] + 1 ELSE @]
  /\ heads' = [heads EXCEPT ![a] = 0]
  /\ UNCHANGED <<row, synced, world, known, pc, agenda, wallet, started, todo, found, past>>

\* Everything is stored: a cursor moves, never back.
Advance(a) ==
  /\ pc = "store" /\ found = {} /\ heads[a] # 0
  /\ cursors' = [cursors EXCEPT ![a] = IF @ <= heads[a] THEN heads[a] ELSE @]
  /\ heads' = [heads EXCEPT ![a] = 0]
  /\ UNCHANGED <<row, synced, world, known, pc, agenda, wallet, started, todo, found, past>>

\* Mutant of Synced: `synced_at` is the moment the poll ended.
SyncedAtEnd ==
  /\ pc = "store" /\ found = {} /\ heads = NoHeads
  /\ synced' = [synced EXCEPT ![wallet] = Tip]
  /\ known' = known \cup {wallet}
  /\ Leave(agenda)
  /\ UNCHANGED <<row, cursors, world, past>>

\* The wallet is read as it was when its poll began.
Synced ==
  /\ pc = "store" /\ found = {} /\ heads = NoHeads
  /\ synced' = [synced EXCEPT ![wallet] = IF @ < started THEN started ELSE @]
  /\ known' = known \cup {wallet}
  /\ Leave(agenda)
  /\ UNCHANGED <<row, cursors, world, past>>

-----------------------------------------------------------------------------
(***************************************************************************)
(* Failures.                                                               *)
(***************************************************************************)

\* An await of a poll throws: a refusal of the node ends the round, anything else the
\* wallet. The sink may have committed.
PollFails(refused) ==
  /\ pc \notin {"pause", "next"} /\ faults < MaxFaults
  /\ \/ pc = "store" /\ ~refused /\ \E i \in found \ Bad : Oldest(i) /\ Write(i)
     \/ UNCHANGED <<row, handled>>
  /\ Leave(IF refused THEN {} ELSE agenda)
  /\ faults' = faults + 1
  /\ UNCHANGED <<cursors, synced, world, known, reported>>

\* The process is restarted: its memory of known wallets is gone.
Crash ==
  /\ faults < MaxFaults
  /\ known' = {} /\ Leave({})
  /\ faults' = faults + 1
  /\ UNCHANGED <<tables, world, handled, reported>>

World ==
  \/ \E kind \in Direct \cup {"authority"}, account \in Address : Land(kind, account)
  \/ \E w \in Wallet : Watch(w)
  \/ Age
  \/ \E p \in Pda : NotifierRefreshes(p)

Poll ==
  \/ BeginRound \/ BeginWallet
  \/ ListPermissions \/ RefreshListed \/ Addresses
  \/ \E a \in Address : Collect(a) \/ Advance(a)
  \/ \E i \in 1 .. Tip : Store(i)
  \/ Synced

Next == World \/ Poll \/ Crash \/ \E refused \in BOOLEAN : PollFails(refused)

Spec == Init /\ [][Next]_vars

\* The loop pauses and goes on; failures are not owed.
FairSpec == Spec /\ WF_vars(Poll)

-----------------------------------------------------------------------------
\* Stored, or logged as not indexed, or older than the feed keeps.
Settled(i) == i \in handled \/ i \in reported \/ i <= aged

\* "Cursors move only once everything before them is stored": behind the cursor of an
\* address nothing seen at it is missing, whatever failed or crashed and whoever watched.
CursorCovers ==
  \A a \in Address : \A i \in 1 .. cursors[a] : a \in SeenAt(log[i]) => Settled(i)

\* `synced_at` is how fresh the wallet's feed is: what its settlement authority saw
\* before that moment was dealt with.
SyncedMeansRead ==
  \A a \in Settlement : \A i \in 1 .. synced[WalletOf[a]] : a \in SeenAt(log[i]) => Settled(i)

\* Opened again after transaction i.
Reopened(p, i) == \E c \in Creations(p) : c > i

\* Once `synced_at` covers its closing, the cache no longer holds a permission as active, unless
\* the closing could not be read, was older than the cut, or was followed by another opening.
ClosingShown ==
  \A p \in Pda : \A i \in Revocations(p) :
    i <= synced[OwnerOf(p)] /\ row[p] = "active" =>
      i \in reported \/ i <= aged \/ Reopened(p, i)

\* A synced wallet shows every open permission, those older than the retention cut and
\* never charged since too; only one whose creation could not be read may be missing.
SyncedShowsAll ==
  \A p \in Pda : \A i \in Opening(p) :
    \/ row[p] # "none"
    \/ i > synced[OwnerOf(p)] \/ i \in reported
    \/ AuthorityOf[p] \notin Settlement

\* Both: the list of a synced wallet is the chain's, in what it shows open and in what
\* it does not.
ListTrue == ClosingShown /\ SyncedShowsAll

\* A landed transaction of a watched wallet that is not dealt with.
Missing(i) == i <= Tip /\ ~Settled(i) /\ OwnerOf(log[i].at) \in watched

\* While a wallet stays watched, what lands for it is dealt with; a cancel or a revocation
\* carries no authority, and is looked for only while the cache holds the permission open.
EventuallyRead ==
  \A i \in 1 .. MaxTx :
    []<>~(/\ Missing(i)
          /\ SeenAt(log[i]) \cap Settlement = {} => Held(log[i].at))

\* A wallet that stays watched is polled to the head, whatever failed before and
\* whatever other wallets do.
WatchedIsSynced ==
  \A w \in Wallet : <>[](w \in watched) => <>[](synced[w] = Tip)

\* Both: what lands is read, for every wallet that stays.
KeepsUp == EventuallyRead /\ WatchedIsSynced

\* "Together see every instruction that touches the wallet's permissions ... no silent
\* gap": the revocation of a permission in the cache reaches the feed.
RevocationReachesFeed ==
  \A i \in 1 .. MaxTx :
    []<>~(/\ Missing(i)
          /\ log[i].kind = "revoke" /\ row[log[i].at] # "none")

-----------------------------------------------------------------------------
(***************************************************************************)
(* Why the cursors and synced_at cover.                                    *)
(***************************************************************************)

\* Dealt with, or collected and to be stored by the running poll.
InHand(i) == Settled(i) \/ i \in found

\* Nothing seen at an address up to the newest transaction collected there is missing.
HeadsCover ==
  \A a \in Address : \A i \in 1 .. heads[a] : a \in SeenAt(log[i]) => InHand(i)

\* Nothing that an authority of the wallet saw before the poll began is missing, once the
\* authority was collected.
Collected ==
  pc \in {"collect", "store"} =>
    \A a \in Settlement : WalletOf[a] = wallet /\ a \notin todo =>
      \A i \in 1 .. started : a \in SeenAt(log[i]) => InHand(i)

\* Storing starts when every address was collected.
AllCollected == pc = "store" => todo = {}

PInv == TypeOK /\ CursorCovers /\ SyncedMeansRead /\ HeadsCover /\ Collected /\ AllCollected

(***************************************************************************)
(* Why the list of a synced wallet is true.                                *)
(***************************************************************************)

\* A stored opening or closing is in the row, unless a later one has undone it.
RowsTold ==
  \A p \in Pda :
    /\ \A i \in Opening(p) \cap handled : row[p] # "none"
    /\ \A i \in Revocations(p) \cap handled : row[p] = "active" => Reopened(p, i)

\* Nothing that a known wallet, or the one being polled, has not read is too old.
Fresh ==
  /\ \A w \in known : aged <= synced[w]
  /\ pc \notin {"pause", "next"} => aged <= started

\* A wallet that came back was listed from the chain: what was open when its poll began
\* has a row, or will have one.
ListedBack ==
  pc \in {"refresh", "addresses", "collect", "store"} /\ wallet \notin known =>
    \A p \in Pda : OwnerOf(p) = wallet =>
      \A i \in Opening(p) :
        row[p] # "none" \/ i > started \/ (pc = "refresh" /\ p \in todo)

\* The closing of a permission held as active is collected with the permission's own address.
ClosingsAsked ==
  pc \in {"collect", "store"} =>
    \A p \in Pda : OwnerOf(p) = wallet /\ row[p] = "active" =>
      \A i \in Revocations(p) :
        i <= started => InHand(i) \/ Reopened(p, i) \/ p \in todo

LInv == RowsTold /\ Fresh /\ ListedBack /\ ClosingsAsked /\ ListTrue
=============================================================================
