----------------------------- MODULE WalletList -----------------------------
(***************************************************************************)
(* The list of one wallet's permissions as the page shows it: read from    *)
(* the network, kept for the next visit in this browser's storage, shown   *)
(* from there until the network answers, and forgotten on disconnecting.   *)
(* Another tab uses the same storage; one tab's screen is followed.  A list *)
(* is what it says: whether there is a permission, when it was so, and      *)
(* whether every account of it was read.                                   *)
(***************************************************************************)
EXTENDS Integers

CONSTANTS
  MaxChanged,     \* bound: changes of what a wallet has allowed
  MaxEntered,     \* bound: wallets the tab shows one after the other
  Short           \* bound: the wallets whose list may come back in part

ASSUME ListBounds == MaxChanged \in Nat /\ MaxEntered \in Nat \ {0}

VARIABLES
  net,        \* of each wallet: whether it has a permission, and the changes so far
  store,      \* the browser's storage: the copy of each wallet's list, and the selection
  tab,        \* the tab that is followed, see Closed
  other,      \* the wallet another tab shows, or none
  forgot      \* ghost: disconnected, and no tab has shown a wallet since

listVars == <<net, store, tab, other, forgot>>

Wallets == {"a", "b"}
Unselected == "none"

NoList == [owner |-> Unselected, has |-> FALSE, read |-> 0, quality |-> "none", saved |-> 0]
NoDifference == [of |-> 0, differs |-> FALSE]

\* `entered` counts the wallets shown: what useMemo read for one is not what it reads for the next.
Closed ==
  [open |-> FALSE, wallet |-> Unselected, entered |-> 0, saved |-> NoList, asking |-> Unselected,
   data |-> [w \in Wallets |-> NoList], failed |-> [w \in Wallets |-> FALSE],
   difference |-> NoDifference,
   first |-> "none", answered |-> "none"]    \* ghosts, of the first wallet: see Word

Word(list) == IF list = NoList THEN "none" ELSE IF list.has THEN "some" ELSE "nothing"

ListInit ==
  /\ net \in [Wallets -> [has : BOOLEAN, read : {0}]] /\ net["b"].has
  /\ store = [lists |-> [w \in Wallets |-> NoList], selected |-> Unselected]
  /\ tab = Closed /\ other = Unselected
  /\ forgot = FALSE

-----------------------------------------------------------------------------
(* The page's wallet and its query.                                        *)
Shows(page) == page.open /\ page.wallet # Unselected

\* Mutant of CopyOf: the copy is whichever wallet's was saved.
CopyOfAny(wallet) ==
  IF store.lists[wallet] # NoList THEN store.lists[wallet] ELSE store.lists[CHOOSE w \in Wallets : w # wallet]

\* source.storedList.
CopyOf(wallet) == store.lists[wallet]

\* A wallet is shown: its copy is read once, stands in while the network is asked, and
\* does not replace what this tab has read of the wallet before.
Enter(page, wallet) ==
  LET saved == [CopyOf(wallet) EXCEPT !.saved = page.entered + 1]
      data  == IF page.data[wallet] = NoList /\ CopyOf(wallet) # NoList THEN saved ELSE page.data[wallet]
  IN [page EXCEPT
        !.wallet = wallet, !.entered = @ + 1, !.asking = wallet, !.difference = NoDifference,
        !.saved = IF CopyOf(wallet) = NoList THEN NoList ELSE saved,
        !.data = [@ EXCEPT ![wallet] = data],
        !.first = IF page.entered = 0 THEN Word(data) ELSE "none", !.answered = "none"]

\* Mutant of Leave: the request that is out is not aborted.
LeaveAsking(page) ==
  [page EXCEPT !.wallet = Unselected, !.saved = NoList, !.difference = NoDifference,
               !.first = "none", !.answered = "none"]

\* The key changes: the request that is out is aborted, what was read stays in the page.
Leave(page) == [LeaveAsking(page) EXCEPT !.asking = Unselected]

\* Mutant of SavedCopy: it is one while the network is being asked.
SavedCopyWhileAsking(page) == page.asking = page.wallet

SavedCopy(page) == page.saved # NoList /\ page.data[page.wallet] = page.saved

\* Mutant of Told: counted against every answer.
ToldAgain(page) ==
  [of |-> page.saved.saved, differs |-> page.saved.has # page.data[page.wallet].has]

\* listDivergence, once for a copy: how the answer differs from what was shown before it.
Told(page) ==
  IF page.saved = NoList \/ SavedCopy(page) \/ page.difference.of = page.saved.saved
  THEN page.difference
  ELSE [of |-> page.saved.saved, differs |-> page.saved.has # page.data[page.wallet].has]

Rendered(page) == IF Shows(page) /\ page.data[page.wallet] # NoList THEN [page EXCEPT !.difference = Told(page)] ELSE page

\* Opened or reloaded: the selection of the last visit is taken up.
OpenTab ==
  /\ ~tab.open
  /\ LET fresh == [Closed EXCEPT !.open = TRUE] IN
     tab' = IF store.selected = Unselected THEN fresh ELSE Rendered(Enter(fresh, store.selected))
  /\ forgot' = (forgot /\ store.selected = Unselected)
  /\ UNCHANGED <<net, store, other>>

CloseTab ==
  /\ tab.open /\ tab' = Closed
  /\ UNCHANGED <<net, store, other, forgot>>

\* A wallet without an account on this chain, or a refusal in it, changes nothing.
Connect == \E w \in Wallets :
  /\ tab.open /\ tab.wallet = Unselected /\ tab.entered < MaxEntered
  /\ tab' = Rendered(Enter(tab, w))
  /\ store' = [store EXCEPT !.selected = w]
  /\ forgot' = FALSE
  /\ UNCHANGED <<net, other>>

\* Another account is chosen in the wallet.
SwitchAccount == \E w \in Wallets :
  /\ Shows(tab) /\ w # tab.wallet /\ tab.entered < MaxEntered
  /\ tab' = Rendered(Enter(Leave(tab), w))
  /\ store' = [store EXCEPT !.selected = w]
  /\ UNCHANGED <<net, other, forgot>>

\* Mutant of Cleared: the copy of the wallet that is left is dropped.
ClearedOne(wallet) == [lists |-> [store.lists EXCEPT ![wallet] = NoList], selected |-> Unselected]

\* storedLists.clear and the selection.
Cleared(wallet) == [lists |-> [w \in Wallets |-> NoList], selected |-> Unselected]

\* Disconnect, or Forget: every wallet's copy goes, then the selection, whatever the wallet says.
Disconnect ==
  /\ Shows(tab)
  /\ store' = Cleared(tab.wallet)
  /\ tab' = Leave(tab)
  /\ forgot' = (other = Unselected)
  /\ UNCHANGED <<net, other>>

\* The tab comes back to the front, or the stream says that something changed.
AskAgain ==
  /\ Shows(tab) /\ tab.asking = Unselected
  /\ tab' = [tab EXCEPT !.asking = tab.wallet]
  /\ UNCHANGED <<net, store, other, forgot>>

\* What the wallet had when its list was that of the reading.
HadAt(wallet, reading) == (net[wallet].read - reading) % 2 = 0 <=> net[wallet].has

\* readAllowances, through the API: all that the node that answers has, which may be behind,
\* or all but an account that does not decode.
NetworkLists(wallet) ==
  LET list(has, reading, quality) ==
        [owner |-> wallet, has |-> has, read |-> reading, quality |-> quality, saved |-> 0]
  IN UNION {{list(HadAt(wallet, reading), reading, "whole")}
              \cup (IF wallet \in Short THEN {list(FALSE, reading, "short")} ELSE {}) :
              reading \in 0 .. net[wallet].read}

\* Mutant of Read: a part is kept as if it were the whole.
ReadWhole(page, list) ==
  [page EXCEPT !.asking = Unselected, !.failed[list.owner] = FALSE, !.data[list.owner] = [list EXCEPT !.quality = "whole"],
              !.answered = IF page.entered = 1 /\ @ = "none" THEN Word(list) ELSE @]

Read(page, list) ==
  [page EXCEPT !.asking = Unselected, !.failed[list.owner] = FALSE, !.data[list.owner] = list,
              !.answered = IF page.entered = 1 /\ @ = "none" THEN Word(list) ELSE @]

\* The answer is saved for the next visit and shown.
ListAnswered ==
  /\ tab.asking # Unselected
  /\ \E list \in NetworkLists(tab.asking) :
       /\ store' = [store EXCEPT !.lists[list.owner] = list]
       /\ tab' = Rendered(Read(tab, list))
  /\ UNCHANGED <<net, other, forgot>>

\* Both attempts failed.
Fail ==
  /\ tab.asking # Unselected
  /\ tab' = [tab EXCEPT !.asking = Unselected, !.failed[tab.asking] = TRUE]
  /\ UNCHANGED <<net, store, other, forgot>>

\* The other tab: it connects, reads, disconnects, is closed.
OtherTab ==
  /\ \/ \E w \in Wallets : /\ other' = w /\ store' = [store EXCEPT !.selected = w] /\ forgot' = FALSE
     \/ /\ other # Unselected
        /\ \E list \in NetworkLists(other) : store' = [store EXCEPT !.lists[other] = list]
        /\ UNCHANGED <<other, forgot>>
     \/ /\ other # Unselected /\ other' = Unselected
        /\ \/ store' = Cleared(other) /\ forgot' = ~Shows(tab)
           \/ UNCHANGED <<store, forgot>>
  /\ UNCHANGED <<net, tab>>

\* A copy of an older shape, one that does not parse, a save that had no room.
LoseCopy == \E w \in Wallets :
  /\ store.lists[w] # NoList
  /\ store' = [store EXCEPT !.lists[w] = NoList]
  /\ UNCHANGED <<net, tab, other, forgot>>

\* A permission is given, or ends; of one wallet, the other keeps its own.
NetChanges ==
  /\ net["a"].read < MaxChanged
  /\ net' = [net EXCEPT !["a"] = [has |-> ~@.has, read |-> @.read + 1]]
  /\ UNCHANGED <<store, tab, other, forgot>>

ListNext ==
  \/ OpenTab \/ CloseTab \/ Connect \/ SwitchAccount \/ Disconnect
  \/ AskAgain \/ ListAnswered \/ Fail \/ OtherTab \/ LoseCopy \/ NetChanges

ListSpec == ListInit /\ [][ListNext]_listVars

-----------------------------------------------------------------------------
(* The screen.                                                             *)
Screen ==
  IF tab.wallet = Unselected THEN "no-wallet"
  ELSE IF tab.data[tab.wallet] # NoList THEN "ready"
  ELSE IF tab.failed[tab.wallet] THEN "error" ELSE "loading"

ShownList == tab.data[tab.wallet]

\* Mutant of SaysNobody: whatever could not be read.
SaysNobodyUnread == Screen = "ready" /\ ~ShownList.has /\ ~tab.failed[tab.wallet]

\* "No one can charge this wallet."
SaysNobody == Screen = "ready" /\ ~ShownList.has /\ ShownList.quality = "whole" /\ ~tab.failed[tab.wallet]

ListTypeOK ==
  /\ forgot \in BOOLEAN
  /\ {store.selected, other, tab.wallet, tab.asking} \subseteq Wallets \cup {Unselected}
  /\ \A w \in Wallets : store.lists[w].owner \in {w, Unselected} /\ store.lists[w].saved = 0
  /\ tab.entered \in 0 .. MaxEntered

\* A wallet's screen is a list of that wallet, whatever was kept, asked or on screen before.
ListIsOwners == Screen = "ready" => ShownList.owner = tab.wallet

\* The screen says whether it shows this browser's copy or the network's answer
\* (storedList.ts:12), for the first wallet that a page shows.
CopyIsSaid ==
  Screen = "ready" /\ tab.entered = 1 => (SavedCopy(tab) <=> ShownList.saved # 0)

\* Disconnecting is asking this browser to stop showing it (storedList.ts:30): nothing of
\* any wallet is kept or shown after it, unless another tab was showing one.
DisconnectForgets ==
  forgot =>
    /\ store.selected = Unselected /\ other = Unselected /\ ~Shows(tab)
    /\ \A w \in Wallets : store.lists[w] = NoList

\* The difference that is told is that of the network's first answer from the copy that
\* was on screen before it (useAllowances.ts:39), for the first wallet that a page shows.
DifferenceTold ==
  Screen = "ready" /\ tab.entered = 1 =>
    (tab.difference.differs <=>
       {tab.first, tab.answered} = {"some", "nothing"})

\* "No one can charge this wallet" was so when the list on screen was read, whatever part
\* of it could be read and however far behind the node was (Subscriptions.tsx:365).
NobodyWasRead == SaysNobody => ~HadAt(tab.wallet, ShownList.read)

\* What the page says of a wallet's list is true of it.
ListHolds ==
  ListTypeOK /\ ListIsOwners /\ CopyIsSaid /\ DisconnectForgets /\ DifferenceTold /\ NobodyWasRead

\* "No one can charge this wallet" is said only of what was read just now, never of what
\* the network answered in the past (Subscriptions.tsx:368-372).
NobodyMeansReadNow == SaysNobody => ShownList.saved = 0
-----------------------------------------------------------------------------
(* What is true at every moment of the storage and the tab, and makes the above so. *)
Words == {"none", "some", "nothing"}
ListRow ==
  [owner : Wallets \cup {Unselected}, has : BOOLEAN, read : Nat, quality : {"none", "whole", "short"}, saved : Nat]
TabRow ==
  [open : BOOLEAN, wallet : Wallets \cup {Unselected}, entered : 0 .. MaxEntered, saved : ListRow,
   asking : Wallets \cup {Unselected}, data : [Wallets -> ListRow], failed : [Wallets -> BOOLEAN],
   difference : [of : Nat, differs : BOOLEAN], first : Words, answered : Words]

ListRows ==
  /\ net \in [Wallets -> [has : BOOLEAN, read : Nat]]
  /\ store \in [lists : [Wallets -> ListRow], selected : Wallets \cup {Unselected}]
  /\ tab \in TabRow /\ other \in Wallets \cup {Unselected} /\ forgot \in BOOLEAN

\* A list that is kept or shown is its wallet's, and what it says was so when it was read.
TrueOf(wallet, list) ==
  list # NoList =>
    list.owner = wallet /\ (list.quality = "whole" => (list.has <=> HadAt(wallet, list.read)))

KeptTrue ==
  \A w \in Wallets : TrueOf(w, store.lists[w]) /\ store.lists[w].saved = 0 /\ TrueOf(w, tab.data[w])

\* The tab asks for the wallet it shows.
AsksForShown ==
  /\ tab.wallet # Unselected => tab.open /\ tab.entered # 0
  /\ tab.asking \in {tab.wallet, Unselected}
  /\ tab.entered = 0 => \A w \in Wallets : tab.data[w] = NoList

\* The first wallet: the copy of this browser until the network answers, and then the first
\* difference.
FirstTrue ==
  Shows(tab) /\ tab.entered = 1 =>
    /\ tab.first = Word(tab.saved) /\ (tab.saved # NoList => tab.saved.saved = 1)
    /\ IF tab.answered = "none"
       THEN tab.data[tab.wallet] = tab.saved /\ tab.difference = NoDifference
       ELSE /\ tab.data[tab.wallet] # NoList /\ tab.data[tab.wallet].saved = 0
            /\ tab.difference = IF tab.saved = NoList THEN NoDifference
                                ELSE [of |-> 1, differs |-> tab.first # tab.answered]

ListInv == ListRows /\ KeptTrue /\ AsksForShown /\ FirstTrue /\ DisconnectForgets
=============================================================================
