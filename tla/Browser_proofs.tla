---------------------------- MODULE Browser_proofs ----------------------------
(***************************************************************************)
(* Proofs about what a browser keeps (Browser): the cache of the app and   *)
(* the switch of its notifications, for any number of versions, refreshes, *)
(* wallets, calls and failures.                                            *)
(***************************************************************************)
EXTENDS Browser, TLAPS

-----------------------------------------------------------------------------
(***************************************************************************)
(* The cache of the app.                                                   *)
(***************************************************************************)

Place == {"idle", "fetching", "list", "adding", "listed", "paged"}
RefreshRow == [at : Place, page : Nat, list : Nat, todo : SUBSET ({"entry", "lazy"} \X Nat), current : Nat]

LEMMA BuildTyped == \A v, w \in Nat : FilesOf(v, w) \subseteq {"entry", "lazy"} \X Nat
<1> SUFFICES ASSUME NEW v \in Nat, NEW w \in Nat PROVE FilesOf(v, w) \subseteq {"entry", "lazy"} \X Nat
  OBVIOUS
<1>1. (w + 1) \div 2 \in Nat
  OBVIOUS
<1>2. Screen(w) \in {"entry", "lazy"} \X Nat
  BY <1>1 DEF Screen
<1>3. Script(w) \in {"entry", "lazy"} \X Nat /\ Script(v) \in {"entry", "lazy"} \X Nat
  BY DEF Script
<1>4. QED
  BY <1>2, <1>3 DEF FilesOf, Build

\* A step of one refresh leaves the others' rows.
LEMMA OthersStay ==
  ASSUME ShellTypeOK, NEW r \in Refreshes, NEW to \in RefreshRow, Becomes(r, to)
  PROVE  /\ refresh' \in [Refreshes -> RefreshRow]
         /\ refresh'[r] = to
         /\ \A s \in Refreshes : s # r => refresh'[s] = refresh[s]
BY DEF ShellTypeOK, Becomes, RefreshRow, Place

LEMMA ShellInitHolds == ShellInit => ShellInv
<1> SUFFICES ASSUME ShellInit PROVE ShellInv
  OBVIOUS
<1>1. \A r \in Refreshes : refresh[r] = NoRefresh
  BY DEF ShellInit
<1>2. NoRefresh \in RefreshRow /\ NoRefresh.at = "idle"
  BY DEF NoRefresh, RefreshRow, Place
<1>3. refresh \in [Refreshes -> RefreshRow]
  BY <1>2 DEF ShellInit
<1>9. /\ deployed \in Nat \ {0} /\ {cachedPage, cachedList, before} \subseteq Nat
      /\ tab \in [draws : Nat, screen : {"list", "lazy", "error"}, reloadedFor : Nat]
      /\ reloads \in [Version -> Nat]
  BY DEF ShellInit
<1>10. raced = FALSE /\ torn = FALSE
  BY DEF ShellInit
<1>4. ShellTypeOK
  BY <1>3, <1>9, <1>10 DEF ShellTypeOK, RefreshRow, Place
<1>5. OneStored /\ StoredStays
  BY <1>1, <1>2 DEF OneStored, StoredStays, HeldBy, Storing, Switching
<1>6. ListIsPages /\ BeforeWhole /\ PageWhole
  BY DEF ShellInit, ListIsPages, BeforeWhole, PageWhole
<1>. \A v \in Version : reloads[v] = 0
  BY DEF ShellInit
<1>8. ReloadsEnd
  BY DEF ReloadsEnd
<1>7. QED
  BY <1>4, <1>5, <1>6, <1>8 DEF ShellInv

LEMMA ShellTypes == ShellTypeOK /\ [ShellNext]_shellVars => ShellTypeOK'
<1> SUFFICES ASSUME ShellTypeOK, [ShellNext]_shellVars PROVE ShellTypeOK'
  OBVIOUS
<1> USE DEF RefreshRow, Place
<1>0. /\ NoRefresh \in RefreshRow
      /\ Uncounted \in [Version -> Nat]
      /\ Shell \in Nat
      /\ \A r \in Refreshes : refresh[r] \in RefreshRow
  BY DEF NoRefresh, Uncounted, Shell, ShellTypeOK
<1>1. ASSUME NEW r \in Refreshes, Behind(r) PROVE refresh' \in [Refreshes -> RefreshRow]
  <2>1. PICK page \in {0, deployed} : Becomes(r, [NoRefresh EXCEPT !.at = "fetching", !.page = page])
    BY <1>1 DEF Behind
  <2>2. [NoRefresh EXCEPT !.at = "fetching", !.page = page] \in RefreshRow
    BY <1>0 DEF NoRefresh, ShellTypeOK
  <2>3. QED
    BY <2>1, <2>2, OthersStay
<1>2. CASE Deploy
  BY <1>2, <1>0 DEF Deploy, ShellTypeOK, cacheVars
<1>3. CASE Evicted
  BY <1>3, <1>0 DEF Evicted, ShellTypeOK
<1>4. CASE Opens
  BY <1>4 DEF Opens, ShellTypeOK
<1>5. CASE ShowsError
  BY <1>5 DEF ShowsError, ShellTypeOK, cacheVars
<1>6. ASSUME NEW r \in Refreshes, FetchPage(r) PROVE ShellTypeOK'
  <2>1. [refresh[r] EXCEPT !.page = deployed] \in RefreshRow
    BY <1>0 DEF ShellTypeOK
  <2>2. refresh' \in [Refreshes -> RefreshRow]
    BY <1>6, <1>0, <2>1, OthersStay DEF FetchPage
  <2>3. QED
    BY <1>6, <2>2 DEF FetchPage, ShellTypeOK, cacheVars
<1>7. ASSUME NEW r \in Refreshes, FetchList(r) PROVE ShellTypeOK'
  <2>1. [refresh[r] EXCEPT !.at = "list", !.list = deployed] \in RefreshRow /\ [refresh[r] EXCEPT !.at = "list"] \in RefreshRow
    BY <1>0 DEF ShellTypeOK
  <2>2. refresh' \in [Refreshes -> RefreshRow]
    BY <1>7, <2>1, OthersStay DEF FetchList
  <2>3. QED
    BY <1>7, <2>2 DEF FetchList, ShellTypeOK, cacheVars
<1>8. ASSUME NEW r \in Refreshes, StartStore(r) PROVE ShellTypeOK'
  <2>1. FilesOf(refresh[r].page, refresh[r].list) \ cachedFiles \subseteq {"entry", "lazy"} \X Nat
    BY <1>0, BuildTyped
  <2>2. [refresh[r] EXCEPT !.at = "adding", !.todo = FilesOf(refresh[r].page, refresh[r].list) \ cachedFiles] \in RefreshRow
    BY <1>0, <2>1
  <2>3. refresh' \in [Refreshes -> RefreshRow]
    BY <1>8, <1>0, <2>2, OthersStay DEF StartStore
  <2>4. QED
    BY <1>8, <2>3 DEF StartStore, ShellTypeOK, cacheVars
<1>9. ASSUME NEW r \in Refreshes, AddFile(r) PROVE ShellTypeOK'
  <2>1. \A file : [refresh[r] EXCEPT !.todo = refresh[r].todo \ {file}] \in RefreshRow
    BY <1>0
  <2>2. refresh' \in [Refreshes -> RefreshRow]
    BY <1>9, <1>0, <2>1, OthersStay DEF AddFile
  <2>3. QED
    BY <1>9, <2>2 DEF AddFile, ShellTypeOK
<1>10. ASSUME NEW r \in Refreshes, WriteList(r) PROVE ShellTypeOK'
  <2>1. [refresh[r] EXCEPT !.at = "listed", !.current = IF cachedPage = 0 THEN 0 ELSE cachedList] \in RefreshRow
    BY <1>0 DEF ShellTypeOK
  <2>2. refresh' \in [Refreshes -> RefreshRow]
    BY <1>10, <1>0, <2>1, OthersStay DEF WriteList
  <2>3. cachedList' \in Nat
    BY <1>10, <1>0 DEF WriteList, ShellTypeOK
  <2>4. QED
    BY <1>10, <2>2, <2>3 DEF WriteList, ShellTypeOK
<1>11. ASSUME NEW r \in Refreshes, WritePage(r) PROVE ShellTypeOK'
  <2>1. [refresh[r] EXCEPT !.at = "paged"] \in RefreshRow
    BY <1>0
  <2>2. refresh' \in [Refreshes -> RefreshRow]
    BY <1>11, <1>0, <2>1, OthersStay DEF WritePage
  <2>3. cachedPage' \in Nat /\ before' \in Nat /\ reloads' \in [Version -> Nat]
    BY <1>11, <1>0 DEF WritePage, ShellTypeOK
  <2>4. QED
    BY <1>11, <2>2, <2>3 DEF WritePage, ShellTypeOK
<1>12. ASSUME NEW r \in Refreshes, Prune(r) PROVE ShellTypeOK'
  <2>1. refresh' \in [Refreshes -> RefreshRow]
    BY <1>12, <1>0, OthersStay DEF Prune
  <2>2. QED
    BY <1>12, <2>1 DEF Prune, ShellTypeOK
<1>13. ASSUME NEW r \in Refreshes, Killed(r) PROVE ShellTypeOK'
  <2>1. refresh' \in [Refreshes -> RefreshRow]
    BY <1>13, <1>0, OthersStay DEF Killed
  <2>2. torn' \in BOOLEAN
    BY <1>13, Zenon DEF Killed, ShellTypeOK
  <2>3. QED
    BY <1>13, <2>1, <2>2 DEF Killed, ShellTypeOK, cacheVars
<1>14. ASSUME NEW r \in Refreshes, Visit(r) PROVE ShellTypeOK'
  <2>1. tab' \in [draws : Nat, screen : {"list", "lazy", "error"}, reloadedFor : Nat]
    BY <1>14, <1>0 DEF Visit, ShellTypeOK
  <2>2. QED
    BY <1>14, <1>1, <2>1 DEF Visit, ShellTypeOK, cacheVars
<1>15. ASSUME NEW r \in Refreshes, Reloads(r) PROVE ShellTypeOK'
  <2>1. tab' \in [draws : Nat, screen : {"list", "lazy", "error"}, reloadedFor : Nat]
    BY <1>15, <1>0 DEF Reloads, Remembered, ShellTypeOK
  <2>2. reloads' \in [Version -> Nat]
    <3>1. reloads' = [reloads EXCEPT ![tab.draws] = reloads[tab.draws] + 1]
      BY <1>15 DEF Reloads
    <3>2. tab.draws \in Version => reloads[tab.draws] + 1 \in Nat
      BY DEF ShellTypeOK
    <3>3. QED
      BY <3>1, <3>2 DEF ShellTypeOK
  <2>3. QED
    BY <1>15, <1>1, <2>1, <2>2 DEF Reloads, ShellTypeOK, cacheVars
<1>16. CASE UNCHANGED shellVars
  BY <1>16 DEF shellVars, cacheVars, ShellTypeOK
<1>17. QED
  BY <1>2, <1>3, <1>4, <1>5, <1>6, <1>7, <1>8, <1>9, <1>10, <1>11, <1>12, <1>13, <1>14, <1>15, <1>16
     DEF ShellNext, Refreshing

StoreInv == OneStored /\ StoredStays /\ ListIsPages /\ BeforeWhole /\ PageWhole

Stores(at) == at \in {"adding", "listed", "paged"}

\* A refresh that begins, goes on without storing, or ends leaves the cache as it was; one
\* that ends between the list and its page says so.
LEMMA LeavesCache ==
  ASSUME ShellTypeOK, StoreInv, ~raced, NEW r \in Refreshes, NEW to \in RefreshRow, Becomes(r, to),
         ~Stores(to.at), UNCHANGED cacheVars, torn => torn', torn' # torn => torn',
         refresh[r].at = "listed" => torn'
  PROVE  StoreInv'
<1> USE DEF Stores
<1>1. /\ refresh'[r] = to
      /\ \A s \in Refreshes : s # r => refresh'[s] = refresh[s]
  BY OthersStay
<1>2. cachedPage' = cachedPage /\ cachedList' = cachedList /\ cachedFiles' = cachedFiles /\ before' = before
  BY DEF cacheVars
<1>3. OneStored'
  BY <1>1 DEF StoreInv, OneStored, Storing, Switching
<1>4. StoredStays'
  <2> SUFFICES ASSUME NEW s \in Refreshes, s # r PROVE HeldBy(s)'
    BY <1>1 DEF StoredStays, HeldBy, Storing, Switching
  <2> QED
    BY <1>1, <1>2 DEF StoreInv, StoredStays, HeldBy, Storing, Switching, Files
<1>5. ListIsPages'
  BY <1>1, <1>2 DEF StoreInv, ListIsPages
<1>6. BeforeWhole' /\ PageWhole'
  BY <1>2 DEF StoreInv, BeforeWhole, PageWhole
<1>7. QED
  BY <1>3, <1>4, <1>5, <1>6 DEF StoreInv

\* More files in the cache disturb nothing.
LEMMA MoreFiles ==
  ASSUME ShellTypeOK, StoreInv, ~raced, UNCHANGED <<cachedPage, cachedList, before, torn>>,
         cachedFiles \subseteq cachedFiles',
         \A s \in Refreshes :
           /\ refresh'[s].at = refresh[s].at /\ refresh'[s].page = refresh[s].page
           /\ refresh'[s].list = refresh[s].list /\ refresh'[s].current = refresh[s].current
           /\ refresh[s].at = "adding" =>
                cachedFiles \cup refresh[s].todo \subseteq cachedFiles' \cup refresh'[s].todo
  PROVE  StoreInv'
<1>1. OneStored'
  BY DEF StoreInv, OneStored, Storing, Switching
<1>2. StoredStays'
  BY DEF StoreInv, StoredStays, HeldBy, Storing, Switching, Files
<1>3. ListIsPages' /\ BeforeWhole' /\ PageWhole'
  BY DEF StoreInv, ListIsPages, BeforeWhole, PageWhole
<1>4. QED
  BY <1>1, <1>2, <1>3 DEF StoreInv

LEMMA StoringBegins ==
  ASSUME ShellTypeOK, StoreInv, ~raced, ~raced', NEW r \in Refreshes, StartStore(r)
  PROVE  StoreInv'
<1>1. CASE ~Belongs(refresh[r].page, refresh[r].list)
  <2>1. Becomes(r, NoRefresh) /\ NoRefresh \in RefreshRow /\ ~Stores(NoRefresh.at) /\ UNCHANGED <<cacheVars, torn>>
    BY <1>1 DEF StartStore, NoRefresh, RefreshRow, Place, Stores
  <2>2. refresh[r].at # "listed"
    BY DEF StartStore
  <2>3. QED
    BY <2>1, <2>2, LeavesCache
<1>2. CASE Belongs(refresh[r].page, refresh[r].list)
  <2> DEFINE page == refresh[r].page  list == refresh[r].list
             to == [refresh[r] EXCEPT !.at = "adding", !.todo = FilesOf(page, list) \ cachedFiles]
  <2>0. refresh[r] \in RefreshRow
    BY DEF ShellTypeOK, RefreshRow, Place
  <2>1. Becomes(r, to) /\ page # 0 /\ list \in {0, page} /\ UNCHANGED <<cacheVars, torn>>
    BY <1>2 DEF StartStore, Belongs
  <2>2. to \in RefreshRow /\ to.at = "adding" /\ to.page = page /\ to.list = list
        /\ to.todo = FilesOf(page, list) \ cachedFiles
    BY <2>0, BuildTyped DEF RefreshRow, Place
  <2>3. /\ refresh'[r] = to
        /\ \A s \in Refreshes : s # r => refresh'[s] = refresh[s]
    BY <2>1, <2>2, OthersStay
  <2>4. \A s \in Refreshes : Storing(s) => refresh[s].page = page
    BY DEF StartStore
  <2>5. cachedPage' = cachedPage /\ cachedList' = cachedList /\ cachedFiles' = cachedFiles /\ before' = before /\ torn' = torn
    BY <2>1 DEF cacheVars
  <2> HIDE DEF to, page, list
  <2>6. OneStored'
    BY <2>2, <2>3, <2>4 DEF StoreInv, OneStored, Storing, Switching
  <2>7. StoredStays'
    <3>1. ASSUME NEW s \in Refreshes, s # r PROVE HeldBy(s)'
      BY <3>1, <2>3, <2>5 DEF StoreInv, StoredStays, HeldBy, Storing, Switching, Files
    <3>2. Files(r)' \subseteq cachedFiles' \cup refresh'[r].todo
      BY <2>2, <2>3, <2>5 DEF Files
    <3>3. QED
      BY <3>1, <3>2, <2>1, <2>2, <2>3, <2>5 DEF StoredStays, HeldBy, Storing, Switching
  <2>8. refresh[r].at = "list"
    BY DEF StartStore
  <2>9. ListIsPages'
    BY <2>2, <2>3, <2>5, <2>8 DEF StoreInv, ListIsPages
  <2>10. BeforeWhole' /\ PageWhole'
    BY <2>5 DEF StoreInv, BeforeWhole, PageWhole
  <2>11. QED
    BY <2>6, <2>7, <2>9, <2>10 DEF StoreInv
<1>3. QED
  BY <1>1, <1>2

LEMMA FileIsAdded ==
  ASSUME ShellTypeOK, StoreInv, ~raced, NEW r \in Refreshes, AddFile(r)
  PROVE  StoreInv'
<1>0. refresh[r] \in RefreshRow /\ refresh[r].at = "adding" /\ UNCHANGED <<cachedPage, cachedList, before, torn>>
  BY DEF AddFile, ShellTypeOK, RefreshRow, Place
<1>1. CASE Becomes(r, NoRefresh) /\ UNCHANGED cachedFiles
  <2>1. NoRefresh \in RefreshRow /\ ~Stores(NoRefresh.at)
    BY DEF NoRefresh, RefreshRow, Place, Stores
  <2>2. QED
    BY <1>0, <1>1, <2>1, LeavesCache DEF cacheVars
<1>2. ASSUME NEW file, cachedFiles' = cachedFiles \cup {file},
             Becomes(r, [refresh[r] EXCEPT !.todo = refresh[r].todo \ {file}])
      PROVE  StoreInv'
  <2>1. [refresh[r] EXCEPT !.todo = refresh[r].todo \ {file}] \in RefreshRow
    BY <1>0 DEF RefreshRow, Place
  <2>2. /\ refresh'[r] = [refresh[r] EXCEPT !.todo = refresh[r].todo \ {file}]
        /\ \A s \in Refreshes : s # r => refresh'[s] = refresh[s]
    BY <1>2, <2>1, OthersStay
  <2>3. /\ refresh'[r].at = refresh[r].at /\ refresh'[r].page = refresh[r].page
        /\ refresh'[r].list = refresh[r].list /\ refresh'[r].current = refresh[r].current
        /\ refresh'[r].todo = refresh[r].todo \ {file}
    BY <2>2, <1>0 DEF RefreshRow
  <2>4. QED
    BY <1>0, <1>2, <2>2, <2>3, MoreFiles
<1>3. QED
  BY <1>1, <1>2 DEF AddFile

LEMMA ListIsWritten ==
  ASSUME ShellTypeOK, StoreInv, ~raced, ~raced', NEW r \in Refreshes, WriteList(r)
  PROVE  StoreInv'
<1> DEFINE page == refresh[r].page  list == refresh[r].list
<1>0. /\ refresh[r] \in RefreshRow /\ refresh[r].at = "adding" /\ refresh[r].todo = {}
      /\ UNCHANGED <<cachedPage, cachedFiles, before, torn>>
      /\ page # 0 /\ list \in {0, page} /\ FilesOf(page, list) \subseteq cachedFiles
  BY DEF WriteList, ShellTypeOK, RefreshRow, Place, StoreInv, StoredStays, HeldBy, Storing, Files
<1>1. \A s \in Refreshes : ~Switching(s)
  BY DEF WriteList, Switching
<1>2. \A s \in Refreshes : Storing(s) => refresh[s].page = page
  BY <1>0 DEF StoreInv, OneStored, Storing
<1>3. cachedPage # 0 => Script(cachedPage) \in cachedFiles /\ (cachedList = cachedPage => Build(cachedPage) \subseteq cachedFiles)
  BY DEF StoreInv, PageWhole
<1>4. ~torn => cachedList \in {0, cachedPage}
  BY <1>1 DEF StoreInv, ListIsPages, Switching
<1>5. cachedPage' = cachedPage /\ cachedFiles' = cachedFiles /\ before' = before /\ torn' = torn
  BY <1>0
<1>6. BeforeWhole'
  BY <1>5 DEF StoreInv, BeforeWhole
<1>7. CASE page = cachedPage
  <2>1. /\ Becomes(r, NoRefresh) /\ cachedList' = (IF list = 0 THEN cachedList ELSE list)
        /\ NoRefresh \in RefreshRow /\ NoRefresh.at = "idle"
    BY <1>7 DEF WriteList, NoRefresh, RefreshRow, Place
  <2>2. /\ refresh'[r] = NoRefresh
        /\ \A s \in Refreshes : s # r => refresh'[s] = refresh[s]
    BY <2>1, OthersStay
  <2>3. OneStored'
    BY <2>1, <2>2 DEF StoreInv, OneStored, Storing, Switching
  <2>4. \A s \in Refreshes : HeldBy(s)'
    BY <1>1, <1>5, <2>1, <2>2 DEF StoreInv, StoredStays, HeldBy, Storing, Switching, Files
  <2>5. ListIsPages'
    BY <1>0, <1>4, <1>5, <1>7, <2>1 DEF ListIsPages
  <2>6. PageWhole'
    BY <1>0, <1>3, <1>5, <1>7, <2>1 DEF PageWhole, FilesOf
  <2>7. QED
    BY <1>6, <2>3, <2>4, <2>5, <2>6 DEF StoreInv, StoredStays
<1>8. CASE page # cachedPage
  <2> DEFINE current == IF cachedPage = 0 THEN 0 ELSE cachedList
             to == [refresh[r] EXCEPT !.at = "listed", !.current = current]
  <2>1. Becomes(r, to) /\ cachedList' = list
    BY <1>8 DEF WriteList
  <2>2. /\ to \in RefreshRow /\ to.at = "listed" /\ to.page = page /\ to.list = list
        /\ to.current = current
    BY <1>0 DEF RefreshRow, Place, ShellTypeOK
  <2>3. /\ refresh'[r] = to
        /\ \A s \in Refreshes : s # r => refresh'[s] = refresh[s]
    BY <2>1, <2>2, OthersStay
  <2>4. current # 0 /\ ~torn => current = cachedPage /\ Build(cachedPage) \subseteq cachedFiles
    BY <1>3, <1>4
  <2> HIDE DEF to, page, list, current
  <2>5. OneStored'
    BY <1>1, <1>2, <2>2, <2>3 DEF OneStored, Storing, Switching
  <2>6. ASSUME NEW s \in Refreshes, s # r PROVE HeldBy(s)'
    BY <1>1, <1>5, <2>3, <2>6 DEF StoreInv, StoredStays, HeldBy, Storing, Switching, Files
  <2>7. Files(r)' \subseteq cachedFiles'
    BY <1>0, <1>5, <2>2, <2>3 DEF Files
  <2>8. HeldBy(r)'
    BY <1>0, <1>5, <1>8, <2>1, <2>2, <2>3, <2>4, <2>7 DEF HeldBy, Storing, Switching
  <2>9. ListIsPages'
    BY <2>2, <2>3 DEF ListIsPages
  <2>10. PageWhole'
    BY <1>0, <1>3, <1>5, <1>8, <2>1 DEF PageWhole
  <2>11. QED
    BY <1>6, <2>5, <2>6, <2>8, <2>9, <2>10 DEF StoreInv, StoredStays
<1>9. QED
  BY <1>7, <1>8

LEMMA PageIsWritten ==
  ASSUME ShellTypeOK, StoreInv, ~raced, NEW r \in Refreshes, WritePage(r)
  PROVE  StoreInv'
<1> DEFINE page == refresh[r].page  list == refresh[r].list  current == refresh[r].current
           to == IF Drops(r) THEN [refresh[r] EXCEPT !.at = "paged"] ELSE NoRefresh
<1>0. /\ refresh[r] \in RefreshRow /\ refresh[r].at = "listed"
      /\ UNCHANGED <<cachedList, cachedFiles, torn>> /\ cachedPage' = page
      /\ before' = (IF current # 0 THEN cachedPage ELSE 0) /\ Becomes(r, to)
      /\ page # 0 /\ list \in {0, page} /\ FilesOf(page, list) \subseteq cachedFiles
      /\ cachedList = list
      /\ current # 0 /\ ~torn => current = cachedPage /\ Build(cachedPage) \subseteq cachedFiles
  BY DEF WritePage, ShellTypeOK, RefreshRow, Place, StoreInv, StoredStays, HeldBy, Storing, Switching, Files
<1>1. \A s \in Refreshes : s # r => ~Switching(s)
  BY <1>0 DEF StoreInv, OneStored, Switching
<1>2. \A s \in Refreshes : Storing(s) => refresh[s].page = page
  BY <1>0 DEF StoreInv, OneStored, Storing
<1>3. /\ to \in RefreshRow
      /\ Drops(r) => to.at = "paged" /\ to.page = page /\ to.list = list /\ to.current = current /\ list # 0
      /\ ~Drops(r) => to.at = "idle"
  BY <1>0 DEF RefreshRow, Place, NoRefresh, Drops
<1> HIDE DEF to
<1>4. /\ refresh'[r] = to
      /\ \A s \in Refreshes : s # r => refresh'[s] = refresh[s]
  BY <1>0, <1>3, OthersStay
<1>5. cachedList' = cachedList /\ cachedFiles' = cachedFiles /\ torn' = torn
  BY <1>0
<1> HIDE DEF page, list, current
<1>6. OneStored'
  <2>1. \A s \in Refreshes : Storing(s)' => refresh'[s].page = page
    BY <1>0, <1>2, <1>3, <1>4 DEF Storing
  <2>2. \A s \in Refreshes : Switching(s)' => s = r
    BY <1>1, <1>4 DEF Switching
  <2>3. QED
    BY <2>1, <2>2 DEF OneStored
<1>7. ASSUME NEW s \in Refreshes, s # r PROVE HeldBy(s)'
  BY <1>1, <1>4, <1>5, <1>7 DEF StoreInv, StoredStays, HeldBy, Storing, Switching, Files
<1>8. HeldBy(r)'
  <2>1. CASE Drops(r)
    <3>1. Files(r)' = FilesOf(page, list)
      BY <1>3, <1>4, <2>1 DEF Files
    <3>2. ~torn => before' = current
      BY <1>0
    <3>3. QED
      BY <1>0, <1>3, <1>4, <1>5, <2>1, <3>1, <3>2 DEF HeldBy, Storing, Switching
  <2>2. CASE ~Drops(r)
    BY <1>3, <1>4, <2>2 DEF HeldBy, Storing, Switching
  <2>3. QED
    BY <2>1, <2>2
<1>9. ListIsPages'
  BY <1>0, <1>5 DEF ListIsPages
<1>10. BeforeWhole' /\ PageWhole'
  BY <1>0, <1>5 DEF BeforeWhole, PageWhole, FilesOf
<1>11. QED
  BY <1>6, <1>7, <1>8, <1>9, <1>10 DEF StoreInv, StoredStays

LEMMA OldFilesGo ==
  ASSUME ShellTypeOK, StoreInv, ~raced, NEW r \in Refreshes, Prune(r)
  PROVE  StoreInv'
<1> DEFINE page == refresh[r].page  current == refresh[r].current
<1>0. /\ refresh[r].at = "paged" /\ Becomes(r, NoRefresh)
      /\ UNCHANGED <<cachedPage, cachedList, before, torn>>
      /\ cachedFiles' = cachedFiles \cap (FilesOf(page, page) \cup Build(current))
      /\ page # 0 /\ cachedPage = page /\ cachedList = page /\ FilesOf(page, page) \subseteq cachedFiles
      /\ ~torn => before = current
  BY DEF Prune, Kept, StoreInv, StoredStays, HeldBy, Storing, Switching, Files
<1>1. \A s \in Refreshes : s # r => ~Switching(s)
  BY <1>0 DEF StoreInv, OneStored, Switching
<1>2. \A s \in Refreshes : Storing(s) => refresh[s].page = page
  BY <1>0 DEF StoreInv, OneStored, Storing
<1>3. NoRefresh \in RefreshRow /\ NoRefresh.at = "idle"
  BY DEF NoRefresh, RefreshRow, Place
<1>4. /\ refresh'[r] = NoRefresh
      /\ \A s \in Refreshes : s # r => refresh'[s] = refresh[s]
  BY <1>0, <1>3, OthersStay
<1> HIDE DEF page, current
<1>5. FilesOf(page, page) \subseteq cachedFiles'
  BY <1>0
<1>6. OneStored'
  BY <1>3, <1>4 DEF StoreInv, OneStored, Storing, Switching
<1>7. ASSUME NEW s \in Refreshes, s # r PROVE HeldBy(s)'
  <2>1. CASE refresh[s].at = "adding"
    <3>1. refresh[s].page = page /\ refresh[s].list \in {0, page} /\ Files(s) \subseteq cachedFiles \cup refresh[s].todo
      BY <1>2, <2>1 DEF StoreInv, StoredStays, HeldBy, Storing
    <3>2. Files(s) \subseteq FilesOf(page, page)
      BY <3>1 DEF Files, FilesOf, Build
    <3>3. Files(s)' = Files(s)
      BY <1>4, <1>7 DEF Files
    <3>4. QED
      BY <1>0, <1>4, <1>5, <1>7, <2>1, <3>1, <3>2, <3>3 DEF HeldBy, Storing, Switching
  <2>2. CASE refresh[s].at # "adding"
    BY <1>1, <1>4, <1>7, <2>2 DEF HeldBy, Storing, Switching
  <2>3. QED
    BY <2>1, <2>2
<1>8. HeldBy(r)'
  BY <1>3, <1>4 DEF HeldBy, Storing, Switching
<1>9. ListIsPages'
  BY <1>0 DEF ListIsPages
<1>10. BeforeWhole'
  BY <1>0 DEF StoreInv, BeforeWhole
<1>11. PageWhole'
  BY <1>0, <1>5 DEF PageWhole, FilesOf
<1>12. QED
  BY <1>6, <1>7, <1>8, <1>9, <1>10, <1>11 DEF StoreInv, StoredStays

LEMMA CacheIsDropped ==
  ASSUME ShellTypeOK, StoreInv, ~raced, Evicted
  PROVE  StoreInv'
<1>1. /\ cachedPage' = 0 /\ cachedList' = 0 /\ before' = 0 /\ refresh' = refresh
      /\ \A r \in Refreshes : ~Storing(r) /\ ~Switching(r)
  BY DEF Evicted, Storing, Switching
<1>2. QED
  BY <1>1 DEF StoreInv, OneStored, StoredStays, HeldBy, ListIsPages, BeforeWhole, PageWhole, Storing, Switching

\* A refresh of the cache that begins behind a visit.
LEMMA BehindLeavesCache ==
  ASSUME ShellTypeOK, StoreInv, ~raced, NEW r \in Refreshes, Behind(r), UNCHANGED <<cacheVars, torn>>
  PROVE  StoreInv'
<1>1. PICK page \in {0, deployed} : Becomes(r, [NoRefresh EXCEPT !.at = "fetching", !.page = page])
  BY DEF Behind
<1>2. page \in Nat
  BY <1>1 DEF ShellTypeOK
<1> DEFINE to == [NoRefresh EXCEPT !.at = "fetching", !.page = page]
<1>3. NoRefresh \in RefreshRow
  BY DEF NoRefresh, RefreshRow, Place
<1>4. to \in RefreshRow /\ to.at = "fetching"
  BY <1>2, <1>3 DEF RefreshRow, Place
<1>5. ~Stores(to.at)
  BY <1>4 DEF Stores
<1>6. refresh[r].at # "listed"
  BY DEF Behind, Idle
<1>7. Becomes(r, to)
  BY <1>1
<1> HIDE DEF to
<1>8. QED
  BY <1>4, <1>5, <1>6, <1>7, LeavesCache

LEMMA StoreStep ==
  ASSUME ShellTypeOK, StoreInv, ~raced, ~raced', [ShellNext]_shellVars
  PROVE  StoreInv'
<1>0. /\ NoRefresh \in RefreshRow /\ ~Stores(NoRefresh.at)
      /\ \A r \in Refreshes : refresh[r] \in RefreshRow
  BY DEF NoRefresh, RefreshRow, Place, Stores, ShellTypeOK
<1>1. CASE UNCHANGED <<cacheVars, refresh, torn>>
  BY <1>1 DEF StoreInv, OneStored, StoredStays, HeldBy, ListIsPages, BeforeWhole, PageWhole, Storing,
              Switching, Files, cacheVars
<1>2. CASE Deploy \/ ShowsError \/ UNCHANGED shellVars
  BY <1>1, <1>2 DEF Deploy, ShowsError, shellVars
<1>3. CASE Opens
  BY <1>3, MoreFiles DEF Opens
<1>4. ASSUME NEW r \in Refreshes, Visit(r) \/ Reloads(r) PROVE StoreInv'
  BY <1>4, BehindLeavesCache DEF Visit, Reloads
<1>5. ASSUME NEW r \in Refreshes, FetchPage(r) PROVE StoreInv'
  <2>1. /\ [refresh[r] EXCEPT !.page = deployed] \in RefreshRow
        /\ [refresh[r] EXCEPT !.page = deployed].at = refresh[r].at
    BY <1>0 DEF ShellTypeOK, RefreshRow, Place
  <2>2. /\ refresh[r].at \in {"fetching", "list"} /\ UNCHANGED <<cacheVars, torn>>
        /\ Becomes(r, [refresh[r] EXCEPT !.page = deployed]) \/ Becomes(r, NoRefresh)
    BY <1>5 DEF FetchPage
  <2>3. ~Stores([refresh[r] EXCEPT !.page = deployed].at)
    BY <2>1, <2>2 DEF Stores
  <2>4. QED
    BY <1>0, <2>1, <2>2, <2>3, LeavesCache
<1>6. ASSUME NEW r \in Refreshes, FetchList(r) PROVE StoreInv'
  <2>1. PICK to \in {[refresh[r] EXCEPT !.at = "list", !.list = deployed], [refresh[r] EXCEPT !.at = "list"]} : Becomes(r, to)
    BY <1>6 DEF FetchList
  <2>2. to \in RefreshRow /\ to.at = "list"
    BY <1>0 DEF ShellTypeOK, RefreshRow, Place
  <2>3. refresh[r].at = "fetching" /\ UNCHANGED <<cacheVars, torn>> /\ ~Stores(to.at)
    BY <1>6, <2>2 DEF FetchList, Stores
  <2>4. QED
    BY <2>1, <2>2, <2>3, LeavesCache
<1>7. ASSUME NEW r \in Refreshes, Killed(r) PROVE StoreInv'
  <2>1. /\ Becomes(r, NoRefresh) /\ UNCHANGED cacheVars
        /\ torn' = (torn \/ refresh[r].at = "listed")
    BY <1>7 DEF Killed
  <2>2. torn => torn'
    BY <2>1
  <2>3. refresh[r].at = "listed" => torn'
    BY <2>1
  <2>4. torn' # torn => torn'
    BY <2>1, Zenon DEF ShellTypeOK
  <2>5. QED
    BY <1>0, <2>1, <2>2, <2>3, <2>4, LeavesCache
<1>8. CASE Evicted
  BY <1>8, CacheIsDropped
<1>9. QED
  BY <1>2, <1>3, <1>4, <1>5, <1>6, <1>7, <1>8, StoringBegins, FileIsAdded, ListIsWritten, PageIsWritten, OldFilesGo
     DEF ShellNext, Refreshing

\* While a load draws the same version, a version that has reloaded the tab is not drawn
\* again, or is remembered.
LEMMA ReloadsStep ==
  ASSUME ShellTypeOK, ReloadsEnd, [ShellNext]_shellVars
  PROVE  ReloadsEnd'
<1>1. CASE UNCHANGED <<tab, reloads, cachedPage, deployed>>
  BY <1>1 DEF ReloadsEnd, Shell
<1>2. CASE reloads' = Uncounted
  <2>1. \A v \in Version : reloads'[v] = 0
    BY <1>2 DEF Uncounted
  <2>2. QED
    BY <2>1 DEF ReloadsEnd
<1>3. CASE Deploy
  <2>1. cachedPage # 0 => Shell' = Shell /\ reloads' = reloads /\ tab' = tab
    BY <1>3 DEF Deploy, Shell, cacheVars
  <2>2. cachedPage = 0 => reloads' = Uncounted
    BY <1>3 DEF Deploy
  <2>3. QED
    BY <1>2, <2>1, <2>2 DEF ReloadsEnd
<1>4. CASE Opens \/ ShowsError
  <2>1. /\ tab'.draws = tab.draws /\ tab'.reloadedFor = tab.reloadedFor
        /\ UNCHANGED <<reloads, cachedPage, deployed>>
    BY <1>4 DEF Opens, ShowsError, cacheVars, ShellTypeOK
  <2>2. QED
    BY <2>1 DEF ReloadsEnd, Shell
<1>5. ASSUME NEW r \in Refreshes, Visit(r) PROVE ReloadsEnd'
  <2>1. /\ UNCHANGED <<reloads, cachedPage, deployed>> /\ tab'.reloadedFor = tab.reloadedFor
        /\ tab'.draws \in {tab.draws, Shell}
    BY <1>5 DEF Visit, cacheVars, ShellTypeOK
  <2>2. QED
    BY <2>1 DEF ReloadsEnd, Shell
<1>6. ASSUME NEW r \in Refreshes, Reloads(r) PROVE ReloadsEnd'
  <2>1. /\ UNCHANGED <<cachedPage, deployed>> /\ tab'.draws = Shell /\ tab'.reloadedFor = tab.draws
        /\ tab.reloadedFor # tab.draws
        /\ reloads' = [reloads EXCEPT ![tab.draws] = reloads[tab.draws] + 1]
    BY <1>6 DEF Reloads, ReloadDue, Remembered, cacheVars, ShellTypeOK
  <2>2. Shell' = Shell
    BY <2>1 DEF Shell
  <2>3. tab.draws \in Version => reloads[tab.draws] = 0
    BY <2>1 DEF ReloadsEnd, ShellTypeOK
  <2>4. \A v \in Version : reloads'[v] = IF v = tab.draws THEN 1 ELSE reloads[v]
    BY <2>1, <2>3 DEF ShellTypeOK
  <2>5. QED
    BY <2>1, <2>2, <2>4 DEF ReloadsEnd
<1>7. ASSUME NEW r \in Refreshes, Refreshing(r) \/ Killed(r) PROVE ReloadsEnd'
  <2>1. CASE WritePage(r)
    BY <1>2, <2>1 DEF WritePage
  <2>2. CASE ~WritePage(r)
    BY <1>1, <1>7, <2>2 DEF Refreshing, Killed, FetchPage, FetchList, StartStore, AddFile, WriteList, Prune, cacheVars
  <2>3. QED
    BY <2>1, <2>2
<1>8. CASE Evicted
  BY <1>2, <1>8 DEF Evicted
<1>9. CASE UNCHANGED shellVars
  BY <1>1, <1>9 DEF shellVars, cacheVars
<1>10. QED
  BY <1>3, <1>4, <1>5, <1>6, <1>7, <1>8, <1>9 DEF ShellNext

LEMMA ShellStep == ShellInv /\ [ShellNext]_shellVars => ShellInv'
<1> SUFFICES ASSUME ShellInv, [ShellNext]_shellVars PROVE ShellInv'
  OBVIOUS
<1>1. ShellTypeOK /\ ShellTypeOK'
  BY ShellTypes DEF ShellInv
<1>2. ASSUME ~raced' PROVE (StoreInv /\ ReloadsEnd)'
  <2>1. ~raced
    BY <1>2 DEF ShellNext, shellVars
  <2>2. StoreInv /\ ReloadsEnd
    BY <2>1 DEF ShellInv, StoreInv
  <2>3. QED
    BY <1>1, <1>2, <2>1, <2>2, StoreStep, ReloadsStep
<1>3. QED
  BY <1>1, <1>2 DEF ShellInv, StoreInv

LEMMA ShellInvHolds == Spec => []ShellInv
<1>1. Init => ShellInv
  BY ShellInitHolds DEF Init
<1>2. ShellInv /\ [Next]_vars => ShellInv'
  <2> SUFFICES ASSUME ShellInv, [Next]_vars PROVE ShellInv'
    OBVIOUS
  <2>1. [ShellNext]_shellVars
    BY DEF Next, vars
  <2>2. QED
    BY <2>1, ShellStep
<1>3. QED
  BY <1>1, <1>2, PTL DEF Spec

(* What the worker keeps can be opened: a cached page has its script, and  *)
(* its lazy screens when it came with its list; a tab that draws the       *)
(* version before keeps its own; and no tab reloads itself for ever (sw.js *)
(* storeShell, staleBuild.ts).                                             *)
THEOREM ShellKept == Spec => []ShellHolds
<1>1. ShellInv => ShellHolds
  <2> SUFFICES ASSUME ShellInv PROVE PageWhole /\ TabKeepsScreens /\ ReloadsOnce
    BY DEF ShellHolds
  <2>1. PageWhole /\ TabKeepsScreens
    BY DEF ShellInv, PageWhole, TabKeepsScreens, BeforeWhole
  <2>2. ReloadsOnce
    BY DEF ShellInv, ReloadsOnce, ReloadsEnd
  <2>3. QED
    BY <2>1, <2>2
<1>2. QED
  BY <1>1, ShellInvHolds, PTL

-----------------------------------------------------------------------------
(***************************************************************************)
(* The switch. Every step of a call replaces the call's row, and all but   *)
(* the last leave what the page shows.                                     *)
(***************************************************************************)

Moved(n, to) == calls' = [calls EXCEPT ![n] = to]

\* A call that goes on keeps whose it is, what it is and when it began.
Same(call, to) ==
  to.kind = call.kind /\ to.owner = call.owner /\ to.since = call.since /\ to.here = call.here

Statuses == {"disabled", "blocked", "off", "on", "failed"}

LEMMA MovedCalls ==
  ASSUME calls \in Seq(CallRow), NEW n \in DOMAIN calls, NEW to \in CallRow, Moved(n, to)
  PROVE  /\ calls' \in Seq(CallRow) /\ Len(calls') = Len(calls) /\ DOMAIN calls' = DOMAIN calls
         /\ calls'[n] = to
         /\ \A m \in DOMAIN calls : m # n => calls'[m] = calls[m]
BY DEF Moved

LEMMA BegunCalls ==
  ASSUME calls \in Seq(CallRow), NEW to \in CallRow, calls' = Append(calls, to)
  PROVE  /\ calls' \in Seq(CallRow) /\ Len(calls') = Len(calls) + 1
         /\ DOMAIN calls' = DOMAIN calls \cup {Len(calls) + 1} /\ Len(calls) + 1 \notin DOMAIN calls
         /\ calls'[Len(calls) + 1] = to
         /\ \A m \in DOMAIN calls : calls'[m] = calls[m]
OBVIOUS

LEMMA OverIsOver == Over \in CallRow /\ Over.at = "over" /\ ~Under(Over)
  BY DEF Over, CallRow, Places, Under

LEMMA CallIs ==
  ASSUME calls \in Seq(CallRow), NEW n \in DOMAIN calls
  PROVE  calls[n] \in CallRow
OBVIOUS

\* A call that goes on to another place.
LEMMA GoesOn ==
  ASSUME calls \in Seq(CallRow), NEW n \in DOMAIN calls, NEW at \in Places
  PROVE  LET to == [calls[n] EXCEPT !.at = at] IN
           /\ to \in CallRow /\ to.at = at /\ Same(calls[n], to)
           /\ to.sub = calls[n].sub /\ to.key = calls[n].key /\ to.rest = calls[n].rest
           /\ Goes(n, at) => Moved(n, to)
<1>1. calls[n] \in CallRow
  BY CallIs
<1>2. Goes(n, at) => Moved(n, [calls[n] EXCEPT !.at = at])
  BY DEF Goes, Moved
<1>3. QED
  BY <1>1, <1>2 DEF CallRow, Same

\* What an answer changes of the page.
LEMMA AnswerIs ==
  ASSUME PushTyped, NEW n \in DOMAIN calls, NEW status \in Statuses, Answered(n, status),
         Under(calls[n]) => calls[n].owner \in Wallet, Under(calls[n]) => calls[n].since <= changes,
         Under(calls[n]), changes' = changes
  PROVE  /\ Moved(n, Over) /\ owner' = owner /\ crossed' = crossed
         /\ check' \in 0 .. Len(calls) /\ busy' \in 0 .. Len(calls)
         /\ switch' \in {"none", "checking", "disabled", "blocked", "off", "on"}
         /\ answers' \in [owner : Wallet \cup {None}, since : 0 .. changes, accepted : BOOLEAN]
         /\ turnedOff' \subseteq Wallet
<1>0. calls[n] \in CallRow
  BY CallIs DEF PushTyped
<1>1. Moved(n, Over) /\ owner' = owner /\ crossed' = crossed
  BY DEF Answered, Moved
<1>2. check' \in 0 .. Len(calls) /\ busy' \in 0 .. Len(calls)
  BY DEF Answered, PushTyped, PushTypeOK
<1>3. switch' \in {"none", "checking", "disabled", "blocked", "off", "on"}
  BY DEF Answered, PushTyped, PushTypeOK, Statuses
<1>4. turnedOff' \subseteq Wallet
  BY DEF Answered, PushTyped
<1>5. answers' \in [owner : Wallet \cup {None}, since : 0 .. changes, accepted : BOOLEAN]
  <2>1. CASE Lands(n, status)
    <3>1. answers' = [owner |-> calls[n].owner, since |-> calls[n].since, accepted |-> (calls[n].at = "accepted")]
      BY <2>1 DEF Answered
    <3>2. calls[n].since \in 0 .. changes /\ calls[n].owner \in Wallet \cup {None}
      BY <1>0 DEF CallRow, PushTyped
    <3>3. QED
      BY <3>1, <3>2
  <2>2. CASE ~Lands(n, status)
    <3>1. answers' = [answers EXCEPT !.accepted = answers.accepted /\ status # "failed"]
      BY <2>2 DEF Answered
    <3>2. (answers.accepted /\ status # "failed") \in BOOLEAN
      OBVIOUS
    <3>3. QED
      BY <3>1, <3>2, Zenon DEF PushTyped
  <2>3. QED
    BY <2>1, <2>2
<1>6. QED
  BY <1>1, <1>2, <1>3, <1>4, <1>5

\* The steps of a call: it goes on, its page has left it, or it is answered.
Outcome(n, to) ==
  /\ to \in CallRow /\ Moved(n, to) /\ Under(calls[n]) /\ UNCHANGED <<owner, crossed, world>>
  /\ \/ Under(to) /\ Same(calls[n], to) /\ UNCHANGED <<pageVars, turnedOff>>
     \/ to = Over /\ ~calls[n].here /\ UNCHANGED <<pageVars, turnedOff>>
     \/ to = Over /\ calls[n].here /\ \E status \in Statuses : Answered(n, status)

BrowserTyped ==
  /\ permission \in {"default", "granted", "denied"}
  /\ madeWith \in Seq(Nat) /\ Len(madeWith) <= MaxEndpoints /\ sub \in 0 .. Len(madeWith)
  /\ followed \subseteq Wallet /\ key \in Nat
  /\ rows \subseteq welcomed /\ welcomed \subseteq (1 .. Len(madeWith)) \X Wallet

LEMMA TypedBrowser == PushTyped => BrowserTyped /\ MaxEndpoints \in Nat
  BY PushBounds DEF PushTyped, PushTypeOK, BrowserTyped

LEMMA OutcomeTyped ==
  ASSUME PushTyped, CallsSound, NEW n \in DOMAIN calls, NEW to, Outcome(n, to), BrowserTyped'
  PROVE  PushTyped'
<1>0. to \in CallRow /\ Moved(n, to) /\ UNCHANGED <<owner, crossed, world>> /\ Under(calls[n])
  BY DEF Outcome
<1>1. calls' \in Seq(CallRow) /\ Len(calls') = Len(calls)
  BY <1>0, MovedCalls DEF PushTyped
<1>2. /\ check' \in 0 .. Len(calls) /\ busy' \in 0 .. Len(calls)
      /\ switch' \in {"none", "checking", "disabled", "blocked", "off", "on"}
      /\ answers' \in [owner : Wallet \cup {None}, since : 0 .. changes, accepted : BOOLEAN]
      /\ turnedOff' \subseteq Wallet
  <2>1. CASE UNCHANGED <<pageVars, turnedOff>>
    BY <2>1 DEF pageVars, PushTyped, PushTypeOK
  <2>2. ASSUME NEW status \in Statuses, Answered(n, status)
        PROVE  /\ check' \in 0 .. Len(calls) /\ busy' \in 0 .. Len(calls)
               /\ switch' \in {"none", "checking", "disabled", "blocked", "off", "on"}
               /\ answers' \in [owner : Wallet \cup {None}, since : 0 .. changes, accepted : BOOLEAN]
               /\ turnedOff' \subseteq Wallet
    <3>1. calls[n].owner \in Wallet /\ calls[n].since <= changes /\ changes' = changes
      BY <1>0 DEF CallsSound, CallSound, world
    <3>2. QED
      BY <1>0, <2>2, <3>1, AnswerIs
  <2>3. QED
    BY <2>1, <2>2 DEF Outcome
<1>3. changes' = changes /\ met' = met /\ owner' = owner
  BY <1>0 DEF world
<1>4. (1 .. Len(madeWith)') \X Wallet \subseteq Row
  BY PushBounds DEF BrowserTyped, Row
<1>5. PushTypeOK'
  BY <1>1, <1>2, <1>3, <1>4 DEF PushTyped, PushTypeOK, BrowserTyped, Row
<1>6. answers' \in [owner : Wallet \cup {None}, since : 0 .. changes', accepted : BOOLEAN]
  BY <1>2, <1>3
<1>7. met' \in BOOLEAN /\ changes' \in Nat
  BY <1>3 DEF PushTyped
<1>8. QED
  BY <1>1, <1>2, <1>5, <1>6, <1>7 DEF PushTyped, BrowserTyped

\* What the step of one call leaves of the others.
LEMMA OutcomeSound ==
  ASSUME PushTyped, CallsSound, NEW n \in DOMAIN calls, NEW to, Outcome(n, to), CallSound(to)',
         Len(madeWith) <= Len(madeWith'), Len(madeWith') \in Nat, welcomed \subseteq welcomed', key' = key
  PROVE  CallsSound'
<1>0. to \in CallRow /\ Moved(n, to) /\ UNCHANGED world /\ calls \in Seq(CallRow)
  BY DEF Outcome, PushTyped
<1>1. /\ DOMAIN calls' = DOMAIN calls /\ calls'[n] = to
      /\ \A m \in DOMAIN calls : m # n => calls'[m] = calls[m]
  BY <1>0, MovedCalls
<1>2. ASSUME NEW m \in DOMAIN calls, m # n PROVE CallSound(calls[m])'
  <2>1. CallSound(calls[m]) /\ calls[m] \in CallRow /\ Len(madeWith) \in Nat
    BY CallIs DEF CallsSound, PushTyped
  <2>2. calls'[m] = calls[m] /\ changes' = changes /\ met' = met /\ key' = key
    BY <1>0, <1>1, <1>2 DEF world
  <2>3. calls[m].sub \in 1 .. Len(madeWith) => calls[m].sub \in 1 .. Len(madeWith')
    BY <2>1 DEF CallRow
  <2>4. QED
    BY <2>1, <2>2, <2>3 DEF CallSound, Under
<1>3. QED
  BY <1>1, <1>2 DEF CallsSound

LEMMA OverIsSound == CallSound(Over)'
  BY DEF CallSound, Over, Under, Deleting

LEMMA AnswersOutcome ==
  ASSUME CallsSound, NEW n \in DOMAIN calls, NEW status \in Statuses, Answered(n, status),
         Under(calls[n]), calls[n].at \notin AtServer, UNCHANGED world
  PROVE  Outcome(n, Over)
<1>1. calls[n].here
  BY DEF CallsSound, CallSound
<1>2. Moved(n, Over) /\ UNCHANGED <<owner, crossed>>
  BY DEF Answered, Moved
<1>3. QED
  BY <1>1, <1>2, OverIsOver DEF Outcome

LEMMA StaysOutcome ==
  ASSUME NEW n \in DOMAIN calls, NEW to \in CallRow, Moved(n, to), Under(calls[n]),
         (Under(to) /\ Same(calls[n], to)) \/ (to = Over /\ ~calls[n].here), Stays, UNCHANGED world
  PROVE  Outcome(n, to)
  BY DEF Outcome, Stays, pageVars

\* What the server tells.
LEMMA TellsOutcome ==
  ASSUME calls \in Seq(CallRow), NEW n \in DOMAIN calls, NEW at \in Places \ {"over"}, Tells(n, at),
         Under(calls[n]), Stays, UNCHANGED world
  PROVE  \E to \in CallRow :
           /\ Outcome(n, to)
           /\ \/ to = Over
              \/ /\ to.at = at /\ Same(calls[n], to) /\ calls[n].here
                 /\ to.sub = calls[n].sub /\ to.key = calls[n].key /\ to.rest = calls[n].rest
<1>1. CASE calls[n].here
  <2> DEFINE to == [calls[n] EXCEPT !.at = at]
  <2>1. /\ to \in CallRow /\ to.at = at /\ Same(calls[n], to)
        /\ to.sub = calls[n].sub /\ to.key = calls[n].key /\ to.rest = calls[n].rest /\ Moved(n, to)
    BY <1>1, GoesOn DEF Tells
  <2> HIDE DEF to
  <2>2. Under(to)
    BY <2>1 DEF Under
  <2>3. QED
    BY <1>1, <2>1, <2>2, StaysOutcome
<1>2. CASE ~calls[n].here
  <2>1. Moved(n, Over)
    BY <1>2 DEF Tells, Moved
  <2>2. QED
    BY <1>2, <2>1, OverIsOver, StaysOutcome
<1>3. QED
  BY <1>1, <1>2

\* A step that leaves what the browser and the server keep but the list, or removes rows.
LEMMA TypedAgain ==
  ASSUME PushTyped, UNCHANGED <<madeWith, welcomed, key>>, permission' \in {"default", "granted", "denied"},
         sub' \in {0, sub}, followed' \subseteq Wallet, rows' \subseteq welcomed
  PROVE  BrowserTyped' /\ Len(madeWith) <= Len(madeWith') /\ Len(madeWith') \in Nat
  BY TypedBrowser DEF BrowserTyped, PushTyped

LEMMA AskSound ==
  ASSUME PushTyped, CallsSound, NEW n \in DOMAIN calls, AskPermission(n)
  PROVE  \E to : Outcome(n, to) /\ PushTyped' /\ CallsSound'
<1>0. /\ calls[n].at = "permission" /\ Under(calls[n]) /\ calls[n].at \notin AtServer
      /\ UNCHANGED <<world, madeWith, welcomed, key, sub, followed, rows>>
  BY DEF AskPermission, Under, serverVars, AtServer
<1>1. BrowserTyped' /\ Len(madeWith) <= Len(madeWith') /\ Len(madeWith') \in Nat
  BY <1>0, TypedAgain DEF AskPermission, PushTyped, PushTypeOK
<1>2. ASSUME NEW status \in Statuses, Answered(n, status) PROVE \E to : Outcome(n, to) /\ CallSound(to)'
  BY <1>0, <1>2, AnswersOutcome, OverIsSound
<1>3. ASSUME Goes(n, "key"), Stays PROVE \E to : Outcome(n, to) /\ CallSound(to)'
  <2>1. PICK to \in CallRow : to.at = "key" /\ Same(calls[n], to) /\ Moved(n, to)
    BY <1>3, GoesOn DEF Places, PushTyped
  <2>5. Under(to)
    BY <2>1 DEF Under
  <2>2. Outcome(n, to)
    BY <1>0, <1>3, <2>1, <2>5, StaysOutcome
  <2>3. CallSound(calls[n]) /\ changes' = changes /\ met' = met
    BY <1>0 DEF CallsSound, world
  <2>4. CallSound(to)'
    BY <1>0, <2>1, <2>3 DEF CallSound, Same, Under, Deleting
  <2>6. QED
    BY <2>2, <2>4
<1>4. \E to : Outcome(n, to) /\ CallSound(to)'
  BY <1>2, <1>3 DEF AskPermission, Statuses, PushTyped
<1>5. QED
  BY <1>0, <1>1, <1>4, OutcomeTyped, OutcomeSound

LEMMA ReadKeySound ==
  ASSUME PushTyped, CallsSound, NEW n \in DOMAIN calls, ReadKey(n)
  PROVE  \E to : Outcome(n, to) /\ PushTyped' /\ CallsSound'
<1>0. /\ calls[n].at = "key" /\ Under(calls[n]) /\ calls[n].at \notin AtServer
      /\ UNCHANGED <<world, madeWith, welcomed, key, sub, followed, rows, permission>>
      /\ calls[n] \in CallRow
  BY CallIs DEF ReadKey, Under, serverVars, browserVars, AtServer, PushTyped
<1>1. BrowserTyped' /\ Len(madeWith) <= Len(madeWith') /\ Len(madeWith') \in Nat
  BY <1>0, TypedAgain DEF PushTyped, PushTypeOK
<1>2. ASSUME NEW status \in Statuses, Answered(n, status) PROVE \E to : Outcome(n, to) /\ CallSound(to)'
  BY <1>0, <1>2, AnswersOutcome, OverIsSound
<1>3. ASSUME calls' = [calls EXCEPT ![n].at = "browser", ![n].key = key], key # 0, Stays
      PROVE \E to : Outcome(n, to) /\ CallSound(to)'
  <2>2. PICK to \in CallRow : to.at = "browser" /\ to.key = key /\ Same(calls[n], to) /\ Moved(n, to)
    <3> DEFINE new == [calls[n] EXCEPT !.at = "browser", !.key = key]
    <3>1. new \in CallRow /\ new.at = "browser" /\ new.key = key /\ Same(calls[n], new)
      BY <1>0 DEF CallRow, Same, Places, PushTyped
    <3>2. Moved(n, new)
      BY <1>3, <1>0 DEF Moved, CallRow
    <3> HIDE DEF new
    <3>3. QED
      BY <3>1, <3>2
  <2>1. Under(to)
    BY <2>2 DEF Under
  <2>3. Outcome(n, to)
    BY <1>0, <1>3, <2>1, <2>2, StaysOutcome
  <2>4. CallSound(calls[n]) /\ changes' = changes /\ met' = met /\ key' = key
    BY <1>0 DEF CallsSound, world
  <2>5. CallSound(to)'
    BY <1>0, <1>3, <2>2, <2>4 DEF CallSound, Same, Under, Deleting
  <2>6. QED
    BY <2>3, <2>5
<1>4. \E to : Outcome(n, to) /\ CallSound(to)'
  BY <1>2, <1>3 DEF ReadKey, Statuses
<1>5. QED
  BY <1>0, <1>1, <1>4, OutcomeTyped, OutcomeSound

\* A call that asks the server about the subscription the browser holds.
LEMMA AsksSound ==
  ASSUME PushTyped, CallsSound, NEW n \in DOMAIN calls, calls[n].at \in {"browser", "cleared"},
         calls[n].kind # "disable", NEW at \in {"asked", "clearing"},
         at = "clearing" => calls[n].kind = "enable",
         NEW endpoint \in 1 .. Len(madeWith'), Len(madeWith) <= Len(madeWith'), Len(madeWith') \in Nat,
         calls' = [calls EXCEPT ![n].at = at, ![n].sub = endpoint],
         Stays, UNCHANGED world, key' = key
  PROVE  \E to : Outcome(n, to) /\ CallSound(to)'
<1>0. calls[n] \in CallRow
  BY CallIs DEF PushTyped
<1>1. PICK to \in CallRow :
        to.at = at /\ to.sub = endpoint /\ to.key = calls[n].key /\ Same(calls[n], to) /\ Moved(n, to)
  <2> DEFINE new == [calls[n] EXCEPT !.at = at, !.sub = endpoint]
  <2>1. new \in CallRow /\ new.at = at /\ new.sub = endpoint /\ new.key = calls[n].key /\ Same(calls[n], new)
    BY <1>0 DEF CallRow, Same, Places
  <2>2. Moved(n, new)
    BY <1>0 DEF Moved, CallRow
  <2> HIDE DEF new
  <2>3. QED
    BY <2>1, <2>2
<1>2. Under(to) /\ Under(calls[n])
  BY <1>1 DEF Under
<1>3. Outcome(n, to)
  BY <1>1, <1>2, StaysOutcome
<1>4. CallSound(calls[n]) /\ changes' = changes /\ met' = met /\ key' = key
  BY DEF CallsSound, world
<1>5. CallSound(to)'
  BY <1>1, <1>4 DEF CallSound, Same, Under, Deleting, AtServer
<1>6. QED
  BY <1>3, <1>5

LEMMA CheckBrowserSound ==
  ASSUME PushTyped, CallsSound, NEW n \in DOMAIN calls, CheckBrowser(n)
  PROVE  \E to : Outcome(n, to) /\ PushTyped' /\ CallsSound'
<1>0. /\ calls[n].kind = "status" /\ calls[n].at = "browser" /\ Under(calls[n]) /\ calls[n].at \notin AtServer
      /\ UNCHANGED <<world, madeWith, welcomed, key, sub, rows, permission>>
      /\ sub \in 0 .. Len(madeWith) /\ Len(madeWith) \in Nat
  BY DEF CheckBrowser, Under, serverVars, AtServer, PushTyped, PushTypeOK
<1>1. followed' \subseteq Wallet
  BY DEF CheckBrowser, PushTyped, PushTypeOK
<1>2. BrowserTyped' /\ Len(madeWith) <= Len(madeWith') /\ Len(madeWith') \in Nat
  BY <1>0, <1>1, TypedAgain DEF PushTyped, PushTypeOK
<1>3. ASSUME NEW status \in Statuses, Answered(n, status) PROVE \E to : Outcome(n, to) /\ CallSound(to)'
  BY <1>0, <1>3, AnswersOutcome, OverIsSound
<1>4. ASSUME calls' = [calls EXCEPT ![n].at = "asked", ![n].sub = sub], Stays, sub # 0
      PROVE \E to : Outcome(n, to) /\ CallSound(to)'
  <2>1. sub \in 1 .. Len(madeWith')
    BY <1>0, <1>4
  <2>2. QED
    BY <1>0, <1>2, <1>4, <2>1, AsksSound
<1>5. \E to : Outcome(n, to) /\ CallSound(to)'
  BY <1>3, <1>4 DEF CheckBrowser, Statuses
<1>6. QED
  BY <1>0, <1>2, <1>5, OutcomeTyped, OutcomeSound

\* A new subscription, or none.
LEMMA SubscribesSound ==
  ASSUME PushTyped, CallsSound, NEW n \in DOMAIN calls, Subscribes(n), calls[n].kind = "enable",
         calls[n].at \in {"browser", "cleared"}, UNCHANGED <<world, permission, serverVars>>,
         followed' \subseteq Wallet
  PROVE  \E to : Outcome(n, to) /\ PushTyped' /\ CallsSound'
<1>4. BrowserTyped /\ MaxEndpoints \in Nat
  BY TypedBrowser
<1>5. calls[n] \in CallRow /\ Len(madeWith) \in Nat
  BY CallIs DEF PushTyped
<1>0. /\ UNCHANGED <<world, permission, key, rows, welcomed>> /\ BrowserTyped
      /\ Len(madeWith) \in Nat /\ calls[n].key \in Nat /\ Under(calls[n])
      /\ calls[n].at \notin AtServer /\ MaxEndpoints \in Nat
  BY <1>4, <1>5 DEF serverVars, CallRow, Under, AtServer
<1>1. CASE permission = "granted"
  <2>1. /\ Len(madeWith) < MaxEndpoints /\ madeWith' = Append(madeWith, calls[n].key)
        /\ sub' = Len(madeWith) + 1 /\ Stays
        /\ calls' = [calls EXCEPT ![n].at = "asked", ![n].sub = Len(madeWith) + 1]
    BY <1>1 DEF Subscribes
  <2>2. madeWith' \in Seq(Nat) /\ Len(madeWith') = Len(madeWith) + 1
    BY <1>0, <2>1 DEF PushTyped
  <2>3. welcomed' \subseteq (1 .. Len(madeWith')) \X Wallet
    <3>1. (1 .. Len(madeWith)) \subseteq 1 .. Len(madeWith')
      BY <1>0, <2>2
    <3>2. QED
      BY <1>0, <3>1 DEF BrowserTyped
  <2>4. BrowserTyped'
    BY <1>0, <2>1, <2>2, <2>3 DEF BrowserTyped
  <2>5. PICK to : Outcome(n, to) /\ CallSound(to)'
    <3>1. Len(madeWith) + 1 \in 1 .. Len(madeWith') /\ Len(madeWith) <= Len(madeWith') /\ Len(madeWith') \in Nat
      BY <1>0, <2>2
    <3>2. calls[n].kind # "disable" /\ key' = key /\ UNCHANGED world
      BY <1>0
    <3>3. QED
      BY <2>1, <3>1, <3>2, AsksSound
  <2>6. QED
    BY <1>0, <2>2, <2>4, <2>5, OutcomeTyped, OutcomeSound
<1>2. CASE permission # "granted"
  <2>1. sub' = 0 /\ Answered(n, "blocked") /\ madeWith' = madeWith
    BY <1>2 DEF Subscribes
  <2>2. BrowserTyped' /\ Len(madeWith) <= Len(madeWith') /\ Len(madeWith') \in Nat
    BY <1>0, <2>1, TypedAgain DEF PushTyped, BrowserTyped
  <2>3. Outcome(n, Over)
    BY <1>0, <2>1, AnswersOutcome DEF Statuses
  <2>4. QED
    BY <1>0, <2>2, <2>3, OverIsSound, OutcomeTyped, OutcomeSound
<1>3. QED
  BY <1>1, <1>2

LEMMA EnableBrowserSound ==
  ASSUME PushTyped, CallsSound, NEW n \in DOMAIN calls, EnableBrowser(n)
  PROVE  \E to : Outcome(n, to) /\ PushTyped' /\ CallsSound'
<1>0. /\ calls[n].kind = "enable" /\ calls[n].at = "browser"
      /\ UNCHANGED <<world, permission, followed, serverVars>>
      /\ sub \in 0 .. Len(madeWith) /\ Len(madeWith) \in Nat /\ followed \subseteq Wallet
  BY DEF EnableBrowser, PushTyped, PushTypeOK
<1>1. CASE Subscribes(n)
  BY <1>0, <1>1, SubscribesSound
<1>2. ASSUME NEW at \in {"asked", "clearing"}, sub # 0, calls' = [calls EXCEPT ![n].at = at, ![n].sub = sub],
             Stays, UNCHANGED <<sub, madeWith>>
      PROVE  \E to : Outcome(n, to) /\ PushTyped' /\ CallsSound'
  <2>1. sub \in 1 .. Len(madeWith') /\ key' = key /\ UNCHANGED <<rows, welcomed>>
    BY <1>0, <1>2 DEF serverVars
  <2>2. BrowserTyped' /\ Len(madeWith) <= Len(madeWith') /\ Len(madeWith') \in Nat
    BY <1>0, <1>2, <2>1, TypedAgain DEF PushTyped, PushTypeOK
  <2>3. calls[n].kind # "disable" /\ calls[n].at \in {"browser", "cleared"}
    BY <1>0
  <2>4. PICK to : Outcome(n, to) /\ CallSound(to)'
    BY <1>0, <1>2, <2>1, <2>2, <2>3, AsksSound
  <2>5. QED
    BY <2>1, <2>2, <2>4, OutcomeTyped, OutcomeSound
<1>3. QED
  BY <1>1, <1>2 DEF EnableBrowser

LEMMA ClearEndpointSound ==
  ASSUME PushTyped, CallsSound, NEW n \in DOMAIN calls, ClearEndpoint(n)
  PROVE  \E to : Outcome(n, to) /\ PushTyped' /\ CallsSound'
<1>0. /\ calls[n].at = "clearing" /\ Under(calls[n]) /\ Goes(n, "cleared") /\ Stays
      /\ UNCHANGED <<world, sub, madeWith, followed, permission, key, welcomed>>
  BY DEF ClearEndpoint, browserVars, Under
<1>1. rows' \subseteq rows
  BY DEF ClearEndpoint
<1>2. BrowserTyped' /\ Len(madeWith) <= Len(madeWith') /\ Len(madeWith') \in Nat
  BY <1>0, <1>1, TypedAgain DEF PushTyped, PushTypeOK
<1>3. PICK to \in CallRow : to.at = "cleared" /\ Same(calls[n], to) /\ to.sub = calls[n].sub
                            /\ to.key = calls[n].key /\ Moved(n, to)
  BY <1>0, GoesOn DEF Places, PushTyped
<1>4. Under(to)
  BY <1>3 DEF Under
<1>5. Outcome(n, to)
  BY <1>0, <1>3, <1>4, StaysOutcome
<1>6. CallSound(calls[n]) /\ changes' = changes /\ met' = met /\ key' = key /\ madeWith' = madeWith
  BY <1>0 DEF CallsSound, world
<1>7. CallSound(to)'
  BY <1>0, <1>3, <1>6 DEF CallSound, Same, Under, Deleting, AtServer
<1>8. QED
  BY <1>0, <1>2, <1>5, <1>7, OutcomeTyped, OutcomeSound

LEMMA ReplaceSound ==
  ASSUME PushTyped, CallsSound, NEW n \in DOMAIN calls, Replace(n)
  PROVE  \E to : Outcome(n, to) /\ PushTyped' /\ CallsSound'
<1>1. calls[n].at = "cleared" /\ Subscribes(n) /\ followed' \subseteq Wallet
      /\ UNCHANGED <<world, permission, serverVars>>
  BY DEF Replace
<1>2. calls[n].kind = "enable"
  BY <1>1, CallIs DEF CallsSound, CallSound, PushTyped, CallRow, Deleting
<1>3. QED
  BY <1>1, <1>2, SubscribesSound

LEMMA DisableBrowserSound ==
  ASSUME PushTyped, CallsSound, NEW n \in DOMAIN calls, DisableBrowser(n)
  PROVE  \E to : Outcome(n, to) /\ PushTyped' /\ CallsSound'
<1> DEFINE rest == followed \ {calls[n].owner}
<1>0. /\ calls[n].kind = "disable" /\ calls[n].at = "browser" /\ Under(calls[n]) /\ calls[n].at \notin AtServer
      /\ UNCHANGED <<world, permission, sub, madeWith, key, rows, welcomed>>
      /\ sub \in 0 .. Len(madeWith) /\ Len(madeWith) \in Nat /\ rest \subseteq Wallet
      /\ calls[n] \in CallRow
  BY CallIs DEF DisableBrowser, PushTyped, PushTypeOK, Under, AtServer, serverVars
<1>1. followed' \subseteq Wallet
  BY DEF DisableBrowser, PushTyped, PushTypeOK
<1>2. BrowserTyped' /\ Len(madeWith) <= Len(madeWith') /\ Len(madeWith') \in Nat
  BY <1>0, <1>1, TypedAgain DEF PushTyped, PushTypeOK
<1>3. ASSUME Answered(n, "off") PROVE \E to : Outcome(n, to) /\ CallSound(to)'
  BY <1>0, <1>3, AnswersOutcome, OverIsSound DEF Statuses
<1>4. ASSUME calls' = [calls EXCEPT ![n].at = "deleting", ![n].sub = sub, ![n].rest = rest], Stays, sub # 0
      PROVE \E to : Outcome(n, to) /\ CallSound(to)'
  <2>1. PICK to \in CallRow : to.at = "deleting" /\ to.sub = sub /\ Same(calls[n], to) /\ Moved(n, to)
    <3> DEFINE new == [calls[n] EXCEPT !.at = "deleting", !.sub = sub, !.rest = rest]
    <3>4. sub \in Nat /\ rest \in SUBSET Wallet /\ "deleting" \in Places
      BY <1>0 DEF Places
    <3>2. Moved(n, new)
      BY <1>0, <1>4, Zenon DEF Moved
    <3> HIDE DEF rest
    <3>5. new \in CallRow
      BY <1>0, <3>4 DEF CallRow
    <3>1. new \in CallRow /\ new.at = "deleting" /\ new.sub = sub /\ Same(calls[n], new)
      BY <1>0, <3>5 DEF CallRow, Same
    <3> HIDE DEF new
    <3>3. QED
      BY <3>1, <3>2
  <2>2. Under(to)
    BY <2>1 DEF Under
  <2>3. Outcome(n, to)
    BY <1>0, <1>4, <2>1, <2>2, StaysOutcome
  <2>4. CallSound(calls[n]) /\ changes' = changes /\ met' = met /\ key' = key /\ madeWith' = madeWith
    BY <1>0 DEF CallsSound, world
  <2>5. CallSound(to)'
    BY <1>0, <1>4, <2>1, <2>4 DEF CallSound, Same, Under, Deleting, AtServer
  <2>6. QED
    BY <2>3, <2>5
<1>5. \E to : Outcome(n, to) /\ CallSound(to)'
  BY <1>3, <1>4 DEF DisableBrowser
<1>6. QED
  BY <1>0, <1>2, <1>5, OutcomeTyped, OutcomeSound

\* The steps of the server, which tells the page.
LEMMA ToldSound ==
  ASSUME PushTyped, CallsSound, NEW n \in DOMAIN calls, calls[n].at \in AtServer,
         NEW at \in Answering \cup {"deleted", "undeleted"}, Tells(n, at),
         (at \in {"deleted", "undeleted"}) <=> (calls[n].at = "deleting"), Stays,
         UNCHANGED <<world, madeWith, key>>, welcomed \subseteq welcomed', BrowserTyped'
  PROVE  \E to : Outcome(n, to) /\ PushTyped' /\ CallsSound'
<1>0. Under(calls[n]) /\ at \in Places \ {"over"} /\ calls \in Seq(CallRow) /\ UNCHANGED world
  BY DEF Under, AtServer, Places, Answering, PushTyped
<1>1. PICK to \in CallRow :
           /\ Outcome(n, to)
           /\ \/ to = Over
              \/ /\ to.at = at /\ Same(calls[n], to) /\ calls[n].here
                 /\ to.sub = calls[n].sub /\ to.key = calls[n].key /\ to.rest = calls[n].rest
  BY <1>0, TellsOutcome
<1>2. CallSound(calls[n]) /\ changes' = changes /\ met' = met /\ key' = key /\ madeWith' = madeWith
  BY DEF CallsSound, world
<1>3. ASSUME to = Over PROVE CallSound(to)'
  BY <1>3, OverIsSound DEF Over
<1>4. ASSUME to # Over PROVE CallSound(to)'
  BY <1>0, <1>1, <1>2, <1>4 DEF CallSound, Same, Under, Deleting, AtServer, Answering
<1>5. CallSound(to)'
  BY <1>3, <1>4
<1>6. Len(madeWith) <= Len(madeWith') /\ Len(madeWith') \in Nat
  BY <1>2 DEF PushTyped
<1>7. QED
  BY <1>1, <1>2, <1>5, <1>6, OutcomeTyped, OutcomeSound

LEMMA DeleteRowsSound ==
  ASSUME PushTyped, CallsSound, NEW n \in DOMAIN calls, DeleteRows(n)
  PROVE  \E to : Outcome(n, to) /\ PushTyped' /\ CallsSound'
<1>0. /\ calls[n].at = "deleting" /\ Stays
      /\ UNCHANGED <<world, sub, madeWith, followed, permission, key, welcomed>>
  BY DEF DeleteRows, browserVars
<1>1. rows' \subseteq rows
  BY DEF DeleteRows
<1>2. BrowserTyped'
  BY <1>0, <1>1, TypedAgain DEF PushTyped, PushTypeOK
<1>3. Tells(n, "deleted") \/ Tells(n, "undeleted")
  BY DEF DeleteRows
<1>4. calls[n].at \in AtServer
  BY <1>0 DEF AtServer
<1>5. QED
  BY <1>0, <1>2, <1>3, <1>4, ToldSound DEF Answering

LEMMA DeletedSound ==
  ASSUME PushTyped, CallsSound, NEW n \in DOMAIN calls, Deleted(n)
  PROVE  \E to : Outcome(n, to) /\ PushTyped' /\ CallsSound'
<1>0. /\ calls[n].at \in {"deleted", "undeleted"} /\ Under(calls[n]) /\ calls[n].at \notin AtServer
      /\ UNCHANGED <<world, madeWith, permission, key, welcomed, rows>>
      /\ calls[n] \in CallRow
  BY CallIs DEF Deleted, serverVars, Under, AtServer, PushTyped
<1>1. sub' \in {0, sub} /\ followed' \subseteq Wallet
  BY <1>0 DEF Deleted, CallRow, PushTyped, PushTypeOK
<1>2. BrowserTyped' /\ Len(madeWith) <= Len(madeWith') /\ Len(madeWith') \in Nat
  BY <1>0, <1>1, TypedAgain DEF PushTyped, PushTypeOK
<1>3. PICK status \in Statuses : Answered(n, status)
  BY DEF Deleted, Statuses
<1>4. Outcome(n, Over)
  BY <1>0, <1>3, AnswersOutcome
<1>5. QED
  BY <1>0, <1>2, <1>4, OverIsSound, OutcomeTyped, OutcomeSound

LEMMA LookUpSound ==
  ASSUME PushTyped, CallsSound, NEW n \in DOMAIN calls, LookUp(n)
  PROVE  \E to : Outcome(n, to) /\ PushTyped' /\ CallsSound'
<1> DEFINE found == <<calls[n].sub, calls[n].owner>>
<1>0. /\ calls[n].at = "asked" /\ Under(calls[n]) /\ calls[n].at \in AtServer /\ Stays
      /\ UNCHANGED <<world, sub, madeWith, followed, permission, key, rows>>
      /\ CallSound(calls[n]) /\ BrowserTyped /\ calls \in Seq(CallRow)
  BY TypedBrowser DEF LookUp, browserVars, CallsSound, Under, AtServer, PushTyped
<1>1. found \in (1 .. Len(madeWith)) \X Wallet
  BY <1>0 DEF CallSound
<1>2. welcomed' \in {welcomed, welcomed \cup {found}}
  BY DEF LookUp
<1>3. BrowserTyped' /\ welcomed \subseteq welcomed'
  BY <1>0, <1>1, <1>2 DEF BrowserTyped
<1>4. ASSUME NEW at \in Answering, Tells(n, at) PROVE \E to : Outcome(n, to) /\ PushTyped' /\ CallsSound'
  BY <1>0, <1>3, <1>4, ToldSound DEF Answering
<1>5. ASSUME Goes(n, "saving"), welcomed' = welcomed \cup {found}
      PROVE  \E to : Outcome(n, to) /\ PushTyped' /\ CallsSound'
  <2>1. PICK to \in CallRow : to.at = "saving" /\ Same(calls[n], to) /\ to.sub = calls[n].sub
                            /\ to.key = calls[n].key /\ Moved(n, to)
    BY <1>0, <1>5, GoesOn DEF Places
  <2>2. Under(to)
    BY <2>1 DEF Under
  <2>3. Outcome(n, to)
    BY <1>0, <2>1, <2>2, StaysOutcome
  <2>4. changes' = changes /\ met' = met /\ key' = key /\ madeWith' = madeWith
    BY <1>0 DEF world
  <2>5. CallSound(to)'
    BY <1>0, <1>5, <2>1, <2>4 DEF CallSound, Same, Under, Deleting, AtServer
  <2>6. Len(madeWith) <= Len(madeWith') /\ Len(madeWith') \in Nat
    BY <2>4 DEF PushTyped
  <2>7. QED
    BY <1>3, <2>3, <2>4, <2>5, <2>6, OutcomeTyped, OutcomeSound
<1>6. QED
  BY <1>4, <1>5 DEF LookUp, Answering

LEMMA SaveRowSound ==
  ASSUME PushTyped, CallsSound, NEW n \in DOMAIN calls, SaveRow(n)
  PROVE  \E to : Outcome(n, to) /\ PushTyped' /\ CallsSound'
<1> DEFINE saved == <<calls[n].sub, calls[n].owner>>
<1>0. /\ calls[n].at = "saving" /\ calls[n].at \in AtServer /\ Stays
      /\ UNCHANGED <<world, sub, madeWith, followed, permission, key, welcomed>>
      /\ CallSound(calls[n])
  BY DEF SaveRow, browserVars, CallsSound, AtServer
<1>1. rows' \subseteq rows \cup {saved} /\ saved \in welcomed
  BY <1>0 DEF SaveRow, CallSound
<1>2. BrowserTyped'
  BY <1>0, <1>1, TypedAgain DEF PushTyped, PushTypeOK
<1>3. Tells(n, "accepted") \/ Tells(n, "failing")
  BY DEF SaveRow
<1>4. QED
  BY <1>0, <1>2, <1>3, ToldSound DEF Answering

LEMMA SubscribeAnsweredSound ==
  ASSUME PushTyped, CallsSound, NEW n \in DOMAIN calls, SubscribeAnswered(n)
  PROVE  \E to : Outcome(n, to) /\ PushTyped' /\ CallsSound'
<1>0. /\ calls[n].at \in Answering /\ Under(calls[n]) /\ calls[n].at \notin AtServer
      /\ UNCHANGED <<world, sub, madeWith, permission, key, welcomed, rows>>
      /\ CallSound(calls[n])
  BY DEF SubscribeAnswered, serverVars, Under, AtServer, Answering, CallsSound
<1>1. followed' \subseteq Wallet
  BY <1>0 DEF SubscribeAnswered, CallSound, PushTyped, PushTypeOK
<1>2. BrowserTyped' /\ Len(madeWith) <= Len(madeWith') /\ Len(madeWith') \in Nat
  BY <1>0, <1>1, TypedAgain DEF PushTyped, PushTypeOK
<1>3. PICK status \in Statuses : Answered(n, status)
  BY DEF SubscribeAnswered, Statuses
<1>4. Outcome(n, Over)
  BY <1>0, <1>3, AnswersOutcome
<1>5. QED
  BY <1>0, <1>2, <1>4, OverIsSound, OutcomeTyped, OutcomeSound

LEMMA StepSound ==
  ASSUME PushTyped, CallsSound, NEW n \in DOMAIN calls, Step(n) \/ AskPermission(n)
  PROVE  \E to : Outcome(n, to) /\ PushTyped' /\ CallsSound'
BY AskSound, ReadKeySound, CheckBrowserSound, EnableBrowserSound, ClearEndpointSound, ReplaceSound,
   DisableBrowserSound, DeleteRowsSound, DeletedSound, LookUpSound, SaveRowSound, SubscribeAnsweredSound DEF Step

Switches == {"none", "checking", "disabled", "blocked", "off", "on"}

LEMMA PushInitHolds == PushInit => PushTyped /\ CallsSound
<1> SUFFICES ASSUME PushInit PROVE PushTyped /\ CallsSound
  OBVIOUS
<1>1. calls = <<>> /\ calls \in Seq(CallRow) /\ DOMAIN calls = {} /\ Len(calls) = 0
  BY DEF PushInit
<1>2. madeWith \in Seq(Nat) /\ Len(madeWith) <= MaxEndpoints /\ sub \in 0 .. Len(madeWith)
      /\ welcomed \subseteq (1 .. Len(madeWith)) \X Wallet
  <2>1. CASE madeWith = <<>> /\ sub = 0 /\ welcomed = {}
    BY <2>1, PushBounds
  <2>2. CASE madeWith = <<1>> /\ sub = 1 /\ welcomed = {1} \X Wallet
    <3>1. madeWith \in Seq(Nat) /\ Len(madeWith) = 1
      BY <2>2
    <3>2. QED
      BY <2>2, <3>1, PushBounds
  <2>3. QED
    BY <2>1, <2>2 DEF PushInit
<1>3. rows \subseteq welcomed /\ followed \subseteq Wallet /\ key \in Nat
      /\ permission \in {"default", "granted", "denied"}
  BY DEF PushInit
<1>4. answers \in [owner : Wallet \cup {None}, since : 0 .. changes, accepted : BOOLEAN]
  BY DEF PushInit
<1>5. (1 .. Len(madeWith)) \X Wallet \subseteq Row
  BY <1>2, PushBounds DEF Row
<1>6. PushTypeOK
  BY <1>1, <1>2, <1>3, <1>5 DEF PushInit, PushTypeOK
<1>7. PushTyped
  BY <1>1, <1>2, <1>3, <1>4, <1>6 DEF PushInit, PushTyped
<1>8. QED
  BY <1>1, <1>7 DEF CallsSound

\* A call that begins: a status, or a change the person asked for.
LEMMA BeginsSound ==
  ASSUME PushTyped, CallsSound, NEW to \in CallRow, calls' = Append(calls, to),
         to.owner \in Wallet, to.here, to.since = changes, to.key = 0,
         \/ to.kind = "status" /\ to.at = "key"
         \/ to.kind = "enable" /\ to.at = "permission"
         \/ to.kind = "disable" /\ to.at = "browser",
         UNCHANGED <<world, madeWith, welcomed, key>>
  PROVE  CallsSound'
<1>1. /\ DOMAIN calls' = DOMAIN calls \cup {Len(calls) + 1} /\ calls'[Len(calls) + 1] = to
      /\ \A m \in DOMAIN calls : calls'[m] = calls[m]
  BY BegunCalls DEF PushTyped
<1>2. changes' = changes /\ met' = met /\ changes \in Nat
  BY DEF world, PushTyped
<1>3. CallSound(to)'
  BY <1>2 DEF CallSound, Under, Deleting
<1>4. \A m \in DOMAIN calls : CallSound(calls[m])'
  BY <1>1, <1>2 DEF CallsSound, CallSound, Under
<1>5. QED
  BY <1>1, <1>3, <1>4 DEF CallsSound

LEMMA CallBegun ==
  ASSUME PushTyped, NEW kind \in {"status", "enable", "disable"}, NEW at \in Places
  PROVE  /\ Call(kind, at) \in CallRow
         /\ Call(kind, at).kind = kind /\ Call(kind, at).at = at /\ Call(kind, at).owner = owner
         /\ Call(kind, at).here /\ Call(kind, at).since = changes /\ Call(kind, at).key = 0
BY DEF Call, CallRow, PushTyped, PushTypeOK

LEMMA ConnectIs ==
  ASSUME PushTyped, Connect
  PROVE  \E to \in CallRow :
           /\ to.kind = "status" /\ to.at = "key" /\ to.owner = owner' /\ to.owner \in Wallet /\ to.here
           /\ to.since = changes /\ to.key = 0 /\ Begins(to)
<1>1. PICK wallet \in Wallet \ {owner} :
        owner' = wallet /\ Begins([Call("status", "key") EXCEPT !.owner = wallet])
  BY DEF Connect
<1>2. /\ Call("status", "key") \in CallRow /\ Call("status", "key").key = 0
      /\ Call("status", "key").kind = "status" /\ Call("status", "key").at = "key"
      /\ Call("status", "key").here /\ Call("status", "key").since = changes
  BY CallBegun DEF Places
<1> DEFINE to == [Call("status", "key") EXCEPT !.owner = wallet]
<1>3. /\ to \in CallRow /\ to.kind = "status" /\ to.at = "key" /\ to.owner = wallet
      /\ to.here /\ to.since = changes /\ to.key = 0
  BY <1>2 DEF CallRow
<1>4. Begins(to)
  BY <1>1
<1> HIDE DEF to
<1>5. QED
  BY <1>1, <1>3, <1>4

LEMMA ClickIs ==
  ASSUME PushTyped, Click
  PROVE  \E to \in CallRow :
           /\ \/ to.kind = "enable" /\ to.at = "permission" /\ switch = "off"
              \/ to.kind = "disable" /\ to.at = "browser" /\ switch = "on"
           /\ to.owner = owner /\ to.owner \in Wallet /\ to.here
           /\ to.since = changes /\ to.key = 0 /\ Begins(to)
<1>1. owner \in Wallet
  BY DEF Click, PushTyped, PushTypeOK
<1>2. CASE switch = "off" /\ Begins(Call("enable", "permission"))
  BY <1>1, <1>2, CallBegun DEF Places
<1>3. CASE switch = "on" /\ Begins(Call("disable", "browser"))
  BY <1>1, <1>3, CallBegun DEF Places
<1>4. QED
  BY <1>2, <1>3 DEF Click

LEMMA ConnectSound ==
  ASSUME PushTyped, CallsSound, Connect
  PROVE  PushTyped' /\ CallsSound'
<1>1. PICK to \in CallRow :
           /\ to.kind = "status" /\ to.at = "key" /\ to.owner = owner' /\ to.owner \in Wallet /\ to.here
           /\ to.since = changes /\ to.key = 0 /\ Begins(to)
  BY ConnectIs
<1>2. /\ calls' \in Seq(CallRow) /\ Len(calls') = Len(calls) + 1 /\ Len(calls) \in Nat
  BY <1>1, BegunCalls DEF Begins, PushTyped
<1>3. CallsSound'
  BY <1>1, BeginsSound DEF Begins, Connect, browserVars, serverVars
<1>4. PushTyped'
  BY <1>1, <1>2 DEF Connect, browserVars, serverVars, world, PushTyped, PushTypeOK, Row
<1>5. QED
  BY <1>3, <1>4

LEMMA ClickSound ==
  ASSUME PushTyped, CallsSound, Click
  PROVE  PushTyped' /\ CallsSound'
<1>1. PICK to \in CallRow :
           /\ \/ to.kind = "enable" /\ to.at = "permission"
              \/ to.kind = "disable" /\ to.at = "browser"
           /\ to.owner = owner /\ to.owner \in Wallet /\ to.here
           /\ to.since = changes /\ to.key = 0 /\ Begins(to)
  BY ClickIs
<1>2. /\ calls' \in Seq(CallRow) /\ Len(calls') = Len(calls) + 1 /\ Len(calls) \in Nat
  BY <1>1, BegunCalls DEF Begins, PushTyped
<1>3. CallsSound'
  BY <1>1, BeginsSound DEF Begins, Click, browserVars, serverVars
<1>4. PushTyped'
  BY <1>2 DEF Click, browserVars, serverVars, world, PushTyped, PushTypeOK, Row
<1>5. QED
  BY <1>3, <1>4

\* What is left of a call when its page is loaded anew.
Left(call) == IF call.at \in AtServer THEN [call EXCEPT !.here = FALSE] ELSE Over

LeftTyped(call) ==
  /\ Left(call) \in CallRow
  /\ call.at \notin AtServer => Left(call) = Over
  /\ call.at \in AtServer =>
       /\ Left(call).at = call.at /\ Left(call).kind = call.kind /\ Left(call).owner = call.owner
       /\ Left(call).sub = call.sub /\ Left(call).key = call.key /\ Left(call).rest = call.rest
       /\ Left(call).since = call.since /\ ~Left(call).here

LEMMA LeftIs ==
  ASSUME NEW call \in CallRow
  PROVE  LeftTyped(call)
<1>1. CASE call.at \notin AtServer
  BY <1>1, OverIsOver DEF Left, LeftTyped
<1>2. CASE call.at \in AtServer
  <2>1. Left(call) = [call EXCEPT !.here = FALSE]
    BY <1>2 DEF Left
  <2>2. QED
    BY <1>2, <2>1 DEF CallRow, LeftTyped
<1>3. QED
  BY <1>1, <1>2

\* The status the new page asks for.
LEMMA ReloadIs ==
  ASSUME PushTyped, Reload
  PROVE  \E to \in CallRow :
           /\ to.kind = "status" /\ to.at = "key" /\ to.owner = owner /\ to.owner \in Wallet /\ to.here
           /\ to.since = changes' /\ to.key = 0
           /\ calls' \in Seq(CallRow) /\ Len(calls') = Len(calls) + 1
           /\ DOMAIN calls' = DOMAIN calls \cup {Len(calls) + 1} /\ Len(calls) + 1 \notin DOMAIN calls
           /\ calls'[Len(calls) + 1] = to
           /\ \A m \in DOMAIN calls : calls'[m] = Left(calls[m])
<1> DEFINE left == [m \in DOMAIN calls |-> Left(calls[m])]
           to == [Call("status", "key") EXCEPT !.since = changes']
<1>0. calls' = Append(left, to) /\ changes' \in Nat /\ owner \in Wallet /\ calls \in Seq(CallRow)
  BY DEF Reload, Left, Change, PushTyped, PushTypeOK
<1>1. /\ Call("status", "key") \in CallRow /\ Call("status", "key").key = 0
      /\ Call("status", "key").kind = "status" /\ Call("status", "key").at = "key"
      /\ Call("status", "key").here /\ Call("status", "key").owner = owner
  BY CallBegun DEF Places
<1>2. /\ to \in CallRow /\ to.kind = "status" /\ to.at = "key" /\ to.owner = owner /\ to.here
      /\ to.since = changes' /\ to.key = 0
  BY <1>0, <1>1 DEF CallRow
<1>4. left \in Seq(CallRow) /\ Len(left) = Len(calls) /\ DOMAIN left = DOMAIN calls
  <2>1. DOMAIN calls = 1 .. Len(calls) /\ Len(calls) \in Nat
    BY <1>0
  <2>2. \A m \in DOMAIN calls : Left(calls[m]) \in CallRow
    BY <1>0, LeftIs DEF LeftTyped
  <2>3. left \in [1 .. Len(calls) -> CallRow]
    BY <2>1, <2>2
  <2>4. QED
    BY <2>1, <2>3
<1>5. \A m \in DOMAIN calls : left[m] = Left(calls[m])
  OBVIOUS
<1> HIDE DEF left, to
<1>6. /\ calls' \in Seq(CallRow) /\ Len(calls') = Len(calls) + 1
      /\ DOMAIN calls' = DOMAIN calls \cup {Len(calls) + 1} /\ Len(calls) + 1 \notin DOMAIN calls
      /\ calls'[Len(calls) + 1] = to
      /\ \A m \in DOMAIN calls : calls'[m] = left[m]
  BY <1>0, <1>2, <1>4
<1>7. \A m \in DOMAIN calls : calls'[m] = Left(calls[m])
  BY <1>5, <1>6
<1>8. QED
  BY <1>0, <1>2, <1>6, <1>7

LEMMA ReloadSound ==
  ASSUME PushTyped, CallsSound, Reload
  PROVE  PushTyped' /\ CallsSound'
<1>1. /\ owner' = owner /\ switch' = "checking" /\ check' = Len(calls) + 1 /\ busy' = 0
      /\ UNCHANGED <<permission, sub, madeWith, followed, key, rows, welcomed, answers, turnedOff>>
      /\ changes' = changes + 1 /\ met' = (\E m \in DOMAIN calls : calls[m].at \in AtServer)
  BY DEF Reload, browserVars, serverVars, Change
<1>2. PICK to \in CallRow :
           /\ to.kind = "status" /\ to.at = "key" /\ to.owner = owner /\ to.owner \in Wallet /\ to.here
           /\ to.since = changes' /\ to.key = 0
           /\ calls' \in Seq(CallRow) /\ Len(calls') = Len(calls) + 1
           /\ DOMAIN calls' = DOMAIN calls \cup {Len(calls) + 1} /\ Len(calls) + 1 \notin DOMAIN calls
           /\ calls'[Len(calls) + 1] = to
           /\ \A m \in DOMAIN calls : calls'[m] = Left(calls[m])
  BY ReloadIs
<1>3. /\ Len(calls) \in Nat /\ changes \in Nat /\ changes' \in Nat /\ met' \in BOOLEAN
      /\ \A m \in DOMAIN calls : calls[m] \in CallRow
  BY <1>1 DEF PushTyped
<1>4. answers' \in [owner : Wallet \cup {None}, since : 0 .. changes', accepted : BOOLEAN]
  <2>1. 0 .. changes \subseteq 0 .. changes'
    BY <1>1, <1>3
  <2>2. QED
    BY <1>1, <2>1 DEF PushTyped
<1>5. PushTypeOK'
  <2>1. check' \in 0 .. Len(calls') /\ busy' \in 0 .. Len(calls')
    BY <1>1, <1>2, <1>3
  <2>2. QED
    BY <1>1, <2>1 DEF PushTyped, PushTypeOK, Row
<1>6. PushTyped'
  BY <1>1, <1>2, <1>3, <1>4, <1>5 DEF PushTyped
<1>7. ASSUME NEW m \in DOMAIN calls PROVE CallSound(calls[m])'
  <2>0. calls'[m] = Left(calls[m]) /\ LeftTyped(calls[m]) /\ calls[m] \in CallRow
    BY <1>2, <1>3, LeftIs
  <2>1. CASE calls[m].at \notin AtServer
    <3>1. calls'[m] = Over
      BY <2>0, <2>1 DEF LeftTyped
    <3>2. CallSound(Over)'
      BY OverIsSound
    <3>3. QED
      BY <3>1, <3>2 DEF Over, CallSound, Under, Deleting
  <2>2. CASE calls[m].at \in AtServer
    <3>1. CallSound(calls[m]) /\ met'
      BY <1>1, <2>2 DEF CallsSound
    <3>2. calls[m].since \in Nat
      BY <2>0 DEF CallRow
    <3>3. /\ calls'[m].at = calls[m].at /\ calls'[m].kind = calls[m].kind /\ calls'[m].owner = calls[m].owner
          /\ calls'[m].sub = calls[m].sub /\ calls'[m].since = calls[m].since
      BY <2>0, <2>2 DEF LeftTyped
    <3>4. QED
      BY <1>1, <1>3, <2>2, <3>1, <3>2, <3>3 DEF CallSound, Under, AtServer, Deleting
  <2>3. QED
    BY <2>1, <2>2
<1>8. CallSound(to)'
  BY <1>2, <1>3 DEF CallSound, Under, Deleting
<1>9. QED
  BY <1>2, <1>6, <1>7, <1>8 DEF CallsSound

\* The world changes: what was under way is met.
LEMMA ChangeSound ==
  ASSUME PushTyped, CallsSound, Change(Places \ {"over"}), UNCHANGED <<calls, madeWith, welcomed>>
  PROVE  /\ CallsSound' /\ changes' = changes + 1 /\ changes' \in Nat /\ met' \in BOOLEAN
         /\ ~met' => \A n \in DOMAIN calls : ~Under(calls[n])
<1>1. changes' = changes + 1 /\ changes \in Nat /\ met' = (\E n \in DOMAIN calls : calls[n].at \in Places \ {"over"})
  BY DEF Change, PushTyped
<1>2. \A n \in DOMAIN calls : calls[n] \in CallRow
  BY CallIs DEF PushTyped
<1>3. ~met' => \A n \in DOMAIN calls : ~Under(calls[n])
  BY <1>1, <1>2 DEF Under, CallRow
<1>4. ASSUME NEW n \in DOMAIN calls PROVE CallSound(calls[n])'
  BY <1>1, <1>2, <1>3 DEF CallsSound, CallSound, Under, CallRow
<1>5. QED
  BY <1>1, <1>3, <1>4 DEF CallsSound

LEMMA OutsideSound ==
  ASSUME PushTyped, CallsSound, Operator \/ Person \/ IndexerRemoves \/ Disconnect \/ UNCHANGED pushVars
  PROVE  PushTyped' /\ CallsSound'
<1>1. CASE Operator
  <2>1. UNCHANGED <<calls, madeWith, welcomed, permission, sub, followed, owner, switch, check, busy, answers, turnedOff>>
        /\ Change(Places \ {"over"}) /\ key' \in Nat /\ rows' \subseteq rows
    BY <1>1 DEF Operator, browserVars, pageVars, PushTyped
  <2>2. CallsSound' /\ changes' = changes + 1 /\ changes' \in Nat /\ met' \in BOOLEAN
    BY <2>1, ChangeSound
  <2>3. answers' \in [owner : Wallet \cup {None}, since : 0 .. changes', accepted : BOOLEAN]
    BY <2>1, <2>2 DEF PushTyped
  <2>4. PushTypeOK'
    BY <2>1 DEF PushTyped, PushTypeOK, Row
  <2>5. QED
    BY <2>1, <2>2, <2>3, <2>4 DEF PushTyped
<1>2. CASE Person
  <2>1. UNCHANGED <<calls, madeWith, welcomed, key, rows, followed, owner, switch, check, busy, answers, turnedOff>>
        /\ Change(Places \ {"over"}) /\ permission' \in {"default", "granted", "denied"} /\ sub' \in {0, sub}
    BY <1>2 DEF Person, serverVars, pageVars
  <2>2. CallsSound' /\ changes' = changes + 1 /\ changes' \in Nat /\ met' \in BOOLEAN
    BY <2>1, ChangeSound
  <2>3. answers' \in [owner : Wallet \cup {None}, since : 0 .. changes', accepted : BOOLEAN]
    BY <2>1, <2>2 DEF PushTyped
  <2>4. PushTypeOK'
    BY <2>1 DEF PushTyped, PushTypeOK, Row
  <2>5. QED
    BY <2>1, <2>2, <2>3, <2>4 DEF PushTyped
<1>3. CASE IndexerRemoves
  <2>1. UNCHANGED <<calls, madeWith, welcomed, key, permission, sub, followed, owner, switch, check, busy, answers,
                    turnedOff, changes, met>> /\ rows' \subseteq rows
    BY <1>3 DEF IndexerRemoves, browserVars, pageVars, pastVars, world
  <2>2. QED
    BY <2>1 DEF PushTyped, PushTypeOK, Row, CallsSound, CallSound, Under
<1>4. CASE Disconnect
  <2>1. UNCHANGED <<calls, madeWith, welcomed, key, permission, sub, followed, rows, switch, busy, answers,
                    turnedOff, changes, met>> /\ owner' = None /\ check' = 0
    BY <1>4 DEF Disconnect, browserVars, serverVars, pastVars, world
  <2>2. QED
    BY <2>1 DEF PushTyped, PushTypeOK, Row, CallsSound, CallSound, Under
<1>5. CASE UNCHANGED pushVars
  <2>1. UNCHANGED <<calls, madeWith, welcomed, key, permission, sub, followed, rows, owner, switch, check, busy, answers,
                    turnedOff, changes, met>>
    BY <1>5 DEF pushVars, browserVars, serverVars, pageVars, pastVars, world
  <2>2. QED
    BY <2>1 DEF PushTyped, PushTypeOK, Row, CallsSound, CallSound, Under
<1>6. QED
  BY <1>1, <1>2, <1>3, <1>4, <1>5

LEMMA PushTypedStep ==
  ASSUME PushTyped, CallsSound, [PushNext]_pushVars
  PROVE  PushTyped' /\ CallsSound'
BY StepSound, ConnectSound, ClickSound, ReloadSound, OutsideSound DEF PushNext

-----------------------------------------------------------------------------
(***************************************************************************)
(* Who the page's calls are of: the switch waits for a status of the       *)
(* wallet that is connected, at most one change is the page's, and it is   *)
(* the only call of its wallet.                                            *)
(***************************************************************************)

Control == CheckSound /\ OneChange /\ Alone /\ SwitchIsOwners

LEMMA OutcomeControl ==
  ASSUME PushTyped, CallsSound, Control, NEW n \in DOMAIN calls, NEW to, Outcome(n, to)
  PROVE  Control'
<1>0. to \in CallRow /\ Moved(n, to) /\ UNCHANGED <<owner, crossed>> /\ calls \in Seq(CallRow)
      /\ Under(calls[n]) /\ check \in 0 .. Len(calls) /\ DOMAIN calls = 1 .. Len(calls) /\ Len(calls) \in Nat
  BY DEF Outcome, PushTyped, PushTypeOK
<1>1. /\ DOMAIN calls' = DOMAIN calls /\ calls'[n] = to
      /\ \A m \in DOMAIN calls : m # n => calls'[m] = calls[m]
  BY <1>0, MovedCalls
<1>2. Under(to) => Same(calls[n], to) /\ UNCHANGED <<check, busy>>
  BY OverIsOver DEF Outcome, pageVars
<1>3. check' \in {0, check} /\ (check' = n => Under(to))
  <2>1. CASE UNCHANGED pageVars /\ Under(to)
    BY <2>1 DEF pageVars
  <2>2. CASE UNCHANGED pageVars /\ ~calls[n].here
    <3>1. check' = check
      BY <2>2 DEF pageVars
    <3>2. check # n
      BY <1>0, <2>2 DEF Control, CheckSound
    <3>3. QED
      BY <3>1, <3>2
  <2>3. ASSUME NEW status \in Statuses, Answered(n, status) PROVE check' \in {0, check} /\ check' # n
    BY <1>0, <2>3 DEF Answered
  <2>4. QED
    BY <2>1, <2>2, <2>3 DEF Outcome
<1>4. CheckSound'
  <2> SUFFICES ASSUME check' # 0
               PROVE  /\ owner' # None /\ calls'[check'].owner = owner' /\ calls'[check'].kind = "status"
                      /\ Under(calls'[check']) /\ calls'[check'].here
    BY DEF CheckSound, Under
  <2>1. /\ check' = check /\ check \in DOMAIN calls /\ owner # None /\ calls[check].owner = owner
        /\ calls[check].kind = "status" /\ Under(calls[check]) /\ calls[check].here /\ owner' = owner
    BY <1>0, <1>3 DEF Control, CheckSound
  <2>2. CASE check = n
    BY <1>1, <1>2, <1>3, <2>1, <2>2 DEF Same
  <2>3. CASE check # n
    BY <1>1, <2>1, <2>3
  <2>4. QED
    BY <2>2, <2>3
<1>5. OneChange'
  <2> SUFFICES ASSUME NEW m \in DOMAIN calls, Under(calls'[m]), calls'[m].here, calls'[m].kind # "status"
               PROVE  m = busy'
    BY <1>1 DEF OneChange, Under
  <2>1. CASE m = n
    <3>1. Under(to) /\ to.here /\ to.kind # "status"
      BY <1>1, <2>1
    <3>2. calls[n].here /\ calls[n].kind # "status" /\ busy' = busy
      BY <1>2, <3>1 DEF Same
    <3>3. QED
      BY <1>0, <2>1, <3>2 DEF Control, OneChange
  <2>2. CASE m # n
    <3>1. m = busy
      BY <1>1, <2>2 DEF Control, OneChange
    <3>2. busy' = busy
      BY <2>2, <3>1 DEF Outcome, Answered, pageVars
    <3>3. QED
      BY <3>1, <3>2
  <2>3. QED
    BY <2>1, <2>2
<1>6. Alone'
  <2> SUFFICES ASSUME NEW a \in DOMAIN calls, NEW b \in DOMAIN calls, a # b, Under(calls'[a]), Under(calls'[b]),
                      calls'[a].owner = calls'[b].owner, calls'[a].kind # "status"
               PROVE  calls'[a].owner \in crossed'
    BY <1>1 DEF Alone, Under
  <2>1. \A m \in DOMAIN calls : Under(calls'[m]) =>
          Under(calls[m]) /\ calls'[m].owner = calls[m].owner /\ calls'[m].kind = calls[m].kind
    BY <1>0, <1>1, <1>2 DEF Same
  <2>2. calls[a].owner \in crossed
    BY <2>1 DEF Control, Alone
  <2>3. QED
    BY <1>0, <2>1, <2>2
<1>7. SwitchIsOwners'
  <2>1. CASE UNCHANGED pageVars
    BY <2>1 DEF pageVars, Control, SwitchIsOwners
  <2>2. ASSUME NEW status \in Statuses, Answered(n, status) PROVE SwitchIsOwners'
    <3>1. CASE Lands(n, status)
      <4>1. owner = calls[n].owner
        BY <1>0, <3>1 DEF Lands, Control, CheckSound
      <4>2. answers'.owner = calls[n].owner
        BY <2>2, <3>1 DEF Answered
      <4>3. QED
        BY <1>0, <4>1, <4>2 DEF SwitchIsOwners
    <3>2. CASE ~Lands(n, status)
      <4>1. switch' = switch /\ answers' = [answers EXCEPT !.accepted = @ /\ status # "failed"]
        BY <2>2, <3>2 DEF Answered
      <4>2. answers'.owner = answers.owner
        BY <4>1 DEF PushTyped
      <4>3. QED
        BY <1>0, <4>1, <4>2 DEF Control, SwitchIsOwners
    <3>3. QED
      BY <3>1, <3>2
  <2>3. QED
    BY <2>1, <2>2 DEF Outcome
<1>8. QED
  BY <1>4, <1>5, <1>6, <1>7 DEF Control

\* A change that meets another call of its wallet is noted.
LEMMA BeginsCrosses ==
  ASSUME PushTyped, NEW to \in CallRow, Begins(to)
  PROVE  /\ crossed \subseteq crossed'
         /\ \A m \in DOMAIN calls :
              Under(calls[m]) /\ calls[m].owner = to.owner /\ (calls[m].kind # "status" \/ to.kind # "status")
                => to.owner \in crossed'
<1>1. crossed \subseteq crossed'
  BY DEF Begins
<1>2. ASSUME NEW m \in DOMAIN calls, Under(calls[m]), calls[m].owner = to.owner,
             calls[m].kind # "status" \/ to.kind # "status"
      PROVE  to.owner \in crossed'
  <2>1. calls[m].kind \in {"status", "enable", "disable"} /\ to.kind \in {"status", "enable", "disable"}
    BY CallIs DEF PushTyped, CallRow
  <2>2. {"enable", "disable"} \cap {to.kind, calls[m].kind} # {}
    BY <1>2, <2>1
  <2>3. QED
    BY <1>2, <2>2 DEF Begins
<1>3. QED
  BY <1>1, <1>2

LEMMA BeginsAlone ==
  ASSUME PushTyped, Alone, NEW to \in CallRow, Begins(to)
  PROVE  Alone'
<1>1. /\ DOMAIN calls' = DOMAIN calls \cup {Len(calls) + 1} /\ calls'[Len(calls) + 1] = to
      /\ \A m \in DOMAIN calls : calls'[m] = calls[m]
  BY BegunCalls DEF PushTyped, Begins
<1>2. SUFFICES ASSUME NEW a \in DOMAIN calls', NEW b \in DOMAIN calls', a # b, Under(calls'[a]), Under(calls'[b]),
                      calls'[a].owner = calls'[b].owner, calls'[a].kind # "status"
               PROVE  calls'[a].owner \in crossed'
  BY DEF Alone, Under
<1>3. CASE a \in DOMAIN calls /\ b \in DOMAIN calls
  BY <1>1, <1>2, <1>3, BeginsCrosses DEF Alone
<1>4. CASE a \in DOMAIN calls /\ b = Len(calls) + 1
  BY <1>1, <1>2, <1>4, BeginsCrosses
<1>5. CASE a = Len(calls) + 1 /\ b \in DOMAIN calls
  BY <1>1, <1>2, <1>5, BeginsCrosses
<1>6. QED
  BY <1>1, <1>2, <1>3, <1>4, <1>5

LEMMA ConnectControl ==
  ASSUME PushTyped, Control, Connect
  PROVE  Control'
<1>1. PICK to \in CallRow :
           /\ to.kind = "status" /\ to.at = "key" /\ to.owner = owner' /\ to.owner \in Wallet /\ to.here
           /\ to.since = changes /\ to.key = 0 /\ Begins(to)
  BY ConnectIs
<1>2. /\ DOMAIN calls' = DOMAIN calls \cup {Len(calls) + 1} /\ calls'[Len(calls) + 1] = to
      /\ \A m \in DOMAIN calls : calls'[m] = calls[m]
  BY <1>1, BegunCalls DEF PushTyped, Begins
<1>3. switch' = "checking" /\ check' = Len(calls) + 1 /\ busy' = busy
  BY DEF Connect
<1>4. CheckSound'
  BY <1>1, <1>2, <1>3, PushBounds DEF CheckSound, Under
<1>5. OneChange'
  BY <1>1, <1>2, <1>3 DEF Control, OneChange, Under
<1>6. Alone'
  BY <1>1, BeginsAlone DEF Control
<1>7. QED
  BY <1>3, <1>4, <1>5, <1>6 DEF Control, SwitchIsOwners

LEMMA ClickControl ==
  ASSUME PushTyped, Control, Click
  PROVE  Control'
<1>1. PICK to \in CallRow :
           /\ \/ to.kind = "enable" /\ to.at = "permission" /\ switch = "off"
              \/ to.kind = "disable" /\ to.at = "browser" /\ switch = "on"
           /\ to.owner = owner /\ to.owner \in Wallet /\ to.here
           /\ to.since = changes /\ to.key = 0 /\ Begins(to)
  BY ClickIs
<1>2. /\ DOMAIN calls' = DOMAIN calls \cup {Len(calls) + 1} /\ calls'[Len(calls) + 1] = to
      /\ \A m \in DOMAIN calls : calls'[m] = calls[m]
      /\ DOMAIN calls = 1 .. Len(calls) /\ Len(calls) \in Nat
  BY <1>1, BegunCalls DEF PushTyped, Begins
<1>3. UNCHANGED <<switch, check, owner, answers>> /\ busy' = Len(calls) + 1 /\ busy = 0
  BY DEF Click
<1>4. CheckSound'
  <2> SUFFICES ASSUME check # 0 PROVE CheckSound'
    BY <1>3 DEF CheckSound
  <2>1. check \in DOMAIN calls
    BY <1>2 DEF PushTyped, PushTypeOK
  <2>2. QED
    BY <1>2, <1>3, <2>1 DEF Control, CheckSound, Under
<1>5. OneChange'
  <2> SUFFICES ASSUME NEW m \in DOMAIN calls', Under(calls'[m]), calls'[m].here, calls'[m].kind # "status"
               PROVE  m = busy'
    BY DEF OneChange, Under
  <2>1. CASE m \in DOMAIN calls
    <3>1. m = 0
      BY <1>2, <1>3, <2>1 DEF Control, OneChange
    <3>2. QED
      BY <1>2, <2>1, <3>1
  <2>2. QED
    BY <1>2, <1>3, <2>1
<1>6. Alone'
  BY <1>1, BeginsAlone DEF Control
<1>7. QED
  BY <1>3, <1>4, <1>5, <1>6 DEF Control, SwitchIsOwners

LEMMA ReloadControl ==
  ASSUME PushTyped, Control, Reload
  PROVE  Control'
<1>1. PICK to \in CallRow :
           /\ to.kind = "status" /\ to.at = "key" /\ to.owner = owner /\ to.owner \in Wallet /\ to.here
           /\ to.since = changes' /\ to.key = 0
           /\ calls' \in Seq(CallRow) /\ Len(calls') = Len(calls) + 1
           /\ DOMAIN calls' = DOMAIN calls \cup {Len(calls) + 1} /\ Len(calls) + 1 \notin DOMAIN calls
           /\ calls'[Len(calls) + 1] = to
           /\ \A m \in DOMAIN calls : calls'[m] = Left(calls[m])
  BY ReloadIs
<1>2. /\ switch' = "checking" /\ check' = Len(calls) + 1 /\ owner' = owner
      /\ crossed' = crossed \cup
           {calls[m].owner : m \in {k \in DOMAIN calls : Under(calls[k]) /\ calls[k].kind # "status"}}
  BY DEF Reload
<1>3. ASSUME NEW m \in DOMAIN calls, Under(calls'[m])
      PROVE  ~calls'[m].here /\ Under(calls[m]) /\ calls'[m].kind = calls[m].kind /\ calls'[m].owner = calls[m].owner
  <2>1. calls'[m] = Left(calls[m]) /\ LeftTyped(calls[m])
    BY <1>1, CallIs, LeftIs DEF PushTyped
  <2>2. calls[m].at \in AtServer
    BY <1>3, <2>1, OverIsOver DEF LeftTyped
  <2>3. QED
    BY <2>1, <2>2 DEF LeftTyped, Under, AtServer
<1>4. CheckSound'
  BY <1>1, <1>2, PushBounds DEF CheckSound, Under
<1>5. OneChange'
  BY <1>1, <1>3 DEF OneChange, Under
<1>6. Alone'
  <2> SUFFICES ASSUME NEW a \in DOMAIN calls', NEW b \in DOMAIN calls', a # b, Under(calls'[a]), Under(calls'[b]),
                      calls'[a].owner = calls'[b].owner, calls'[a].kind # "status"
               PROVE  calls'[a].owner \in crossed'
    BY DEF Alone, Under
  <2>1. a \in DOMAIN calls
    BY <1>1
  <2>2. Under(calls[a]) /\ calls[a].kind # "status" /\ calls'[a].owner = calls[a].owner
    BY <1>3, <2>1
  <2>3. QED
    BY <1>2, <2>1, <2>2
<1>7. QED
  BY <1>2, <1>4, <1>5, <1>6 DEF Control, SwitchIsOwners

LEMMA OutsideControl ==
  ASSUME Control, Operator \/ Person \/ IndexerRemoves \/ Disconnect \/ UNCHANGED pushVars
  PROVE  Control'
<1>1. /\ UNCHANGED <<switch, busy, answers, calls, crossed>>
      /\ UNCHANGED <<owner, check>> \/ (owner' = None /\ check' = 0)
  BY DEF Operator, Person, IndexerRemoves, Disconnect, pushVars, pageVars, pastVars, serverVars, browserVars
<1>2. QED
  BY <1>1 DEF Control, CheckSound, OneChange, Alone, SwitchIsOwners, Under

LEMMA ControlStep ==
  ASSUME PushTyped, CallsSound, Control, [PushNext]_pushVars
  PROVE  Control'
BY StepSound, OutcomeControl, ConnectControl, ClickControl, ReloadControl, OutsideControl DEF PushNext

-----------------------------------------------------------------------------
(***************************************************************************)
(* What a step of a call does to the subscription, to the list and to the  *)
(* rows. Most leave them, or remove something.                             *)
(***************************************************************************)

LEMMA OutcomeFacts ==
  ASSUME PushTyped, NEW n \in DOMAIN calls, NEW to, Outcome(n, to)
  PROVE  /\ DOMAIN calls' = DOMAIN calls
         /\ \A m \in DOMAIN calls : m # n => calls'[m] = calls[m]
         /\ Under(calls[n]) /\ crossed' = crossed
         /\ Under(calls'[n]) => Same(calls[n], calls'[n])
<1>1. to \in CallRow /\ Moved(n, to) /\ Under(calls[n]) /\ crossed' = crossed /\ calls \in Seq(CallRow)
  BY DEF Outcome, PushTyped
<1>2. /\ DOMAIN calls' = DOMAIN calls /\ calls'[n] = to
      /\ \A m \in DOMAIN calls : m # n => calls'[m] = calls[m]
  BY <1>1, MovedCalls
<1>3. Under(to) => Same(calls[n], to)
  BY OverIsOver DEF Outcome
<1>4. QED
  BY <1>1, <1>2, <1>3

\* A status asks the server of a wallet the list names only.
Asks(n) ==
  calls[n].kind = "status" /\ calls[n].at \in {"key", "browser"} =>
    calls'[n].at \in {"browser", "over"} \/ calls[n].owner \in followed

Quiet(n) ==
  /\ UNCHANGED <<sub, turnedOff>> /\ followed' \subseteq followed /\ rows' \subseteq rows
  /\ calls'[n].at \notin Deleting /\ Asks(n)

Saves(n) ==
  /\ calls[n].at = "saving" /\ UNCHANGED <<sub, turnedOff, followed>> /\ calls'[n].at \notin Deleting
  /\ rows' \subseteq rows \cup {<<calls[n].sub, calls[n].owner>>}

Renews(n) ==
  /\ calls[n].kind = "enable" /\ calls[n].at \in {"browser", "cleared"}
  /\ sub' \notin 1 .. Len(madeWith) /\ UNCHANGED <<turnedOff, rows>> /\ followed' \subseteq followed
  /\ calls'[n].at \notin Deleting

Follows(n) ==
  /\ calls[n].kind = "enable" /\ calls[n].at = "accepted"
  /\ UNCHANGED <<sub, turnedOff, rows>> /\ followed' = followed \cup {calls[n].owner}
  /\ calls'[n].at \notin Deleting

LEMMA AnswersOver ==
  ASSUME calls \in Seq(CallRow), NEW n \in DOMAIN calls, NEW status, Answered(n, status)
  PROVE  calls'[n] = Over /\ calls'[n].at = "over" /\ (calls[n].kind # "disable" => turnedOff' = turnedOff)
<1>1. calls' = [calls EXCEPT ![n] = Over]
  BY DEF Answered
<1>2. calls'[n] = Over
  BY <1>1
<1>3. QED
  BY <1>2, OverIsOver DEF Answered

LEMMA GoesTo ==
  ASSUME calls \in Seq(CallRow), NEW n \in DOMAIN calls, NEW at, Goes(n, at)
  PROVE  calls'[n] = [calls[n] EXCEPT !.at = at] /\ calls'[n].at = at
BY CallIs DEF Goes, CallRow

LEMMA TellsTo ==
  ASSUME calls \in Seq(CallRow), NEW n \in DOMAIN calls, NEW at, Tells(n, at)
  PROVE  calls'[n].at \in {at, "over"} /\ (calls[n].here => Goes(n, at)) /\ (~calls[n].here => calls'[n] = Over)
<1>1. CASE calls[n].here
  BY <1>1, GoesTo DEF Tells
<1>2. CASE ~calls[n].here
  BY <1>2, OverIsOver DEF Tells
<1>3. QED
  BY <1>1, <1>2

LEMMA SubscribesRenews ==
  ASSUME PushTyped, NEW n \in DOMAIN calls, Subscribes(n), calls[n].kind = "enable",
         calls[n].at \in {"browser", "cleared"}, UNCHANGED rows, followed' \subseteq followed
  PROVE  Renews(n)
<1>0. calls \in Seq(CallRow) /\ calls[n] \in CallRow /\ Len(madeWith) \in Nat
  BY CallIs DEF PushTyped
<1>1. CASE permission = "granted"
  <2>1. sub' = Len(madeWith) + 1 /\ turnedOff' = turnedOff
        /\ calls' = [calls EXCEPT ![n].at = "asked", ![n].sub = Len(madeWith) + 1]
    BY <1>1 DEF Subscribes, Stays
  <2>2. calls'[n].at = "asked"
    BY <1>0, <2>1 DEF CallRow
  <2>3. QED
    BY <1>0, <2>1, <2>2 DEF Renews, Deleting
<1>2. CASE permission # "granted"
  <2>1. sub' = 0 /\ Answered(n, "blocked")
    BY <1>2 DEF Subscribes
  <2>2. QED
    BY <1>0, <2>1, AnswersOver DEF Renews, Deleting
<1>3. QED
  BY <1>1, <1>2

LEMMA StepKinds ==
  ASSUME PushTyped, CallsSound, NEW n \in DOMAIN calls, Step(n) \/ AskPermission(n)
  PROVE  \/ Quiet(n) \/ Saves(n) \/ Renews(n) \/ Follows(n)
         \/ DisableBrowser(n) \/ DeleteRows(n) \/ Deleted(n)
<1>0. calls \in Seq(CallRow) /\ calls[n] \in CallRow /\ CallSound(calls[n])
  BY CallIs DEF PushTyped, CallsSound
<1>1. CASE AskPermission(n)
  <2>1. /\ calls[n].at = "permission" /\ UNCHANGED <<sub, followed, rows>> /\ calls[n].kind # "disable"
    BY <1>0, <1>1 DEF AskPermission, serverVars, CallSound, Deleting
  <2>2. calls'[n].at \in {"over", "key"} /\ turnedOff' = turnedOff
    BY <1>0, <1>1, <2>1, AnswersOver, GoesTo DEF AskPermission, Stays, PushTyped
  <2>3. QED
    BY <2>1, <2>2 DEF Quiet, Asks, Deleting
<1>2. CASE ReadKey(n)
  <2>1. /\ calls[n].at = "key" /\ UNCHANGED <<sub, followed, rows>> /\ calls[n].kind # "disable"
    BY <1>0, <1>2 DEF ReadKey, serverVars, browserVars, CallSound, Deleting
  <2>2. ASSUME NEW status, Answered(n, status) PROVE calls'[n].at \in {"over", "browser"} /\ turnedOff' = turnedOff
    BY <1>0, <2>1, <2>2, AnswersOver
  <2>3. ASSUME calls' = [calls EXCEPT ![n].at = "browser", ![n].key = key], Stays
        PROVE calls'[n].at \in {"over", "browser"} /\ turnedOff' = turnedOff
    BY <1>0, <2>3 DEF CallRow, Stays
  <2>4. calls'[n].at \in {"over", "browser"} /\ turnedOff' = turnedOff
    BY <1>2, <2>2, <2>3 DEF ReadKey
  <2>5. QED
    BY <2>1, <2>4 DEF Quiet, Asks, Deleting
<1>3. CASE CheckBrowser(n)
  <2>1. calls[n].kind = "status" /\ calls[n].at = "browser" /\ UNCHANGED <<sub, rows>> /\ followed' \subseteq followed
    BY <1>3 DEF CheckBrowser, serverVars
  <2>2. ASSUME NEW status, Answered(n, status) PROVE Quiet(n)
    BY <1>0, <2>1, <2>2, AnswersOver DEF Quiet, Asks, Deleting
  <2>3. ASSUME calls' = [calls EXCEPT ![n].at = "asked", ![n].sub = sub], Stays, calls[n].owner \in followed PROVE Quiet(n)
    <3>1. calls'[n].at = "asked"
      BY <1>0, <2>3 DEF CallRow
    <3>2. QED
      BY <2>1, <2>3, <3>1 DEF Quiet, Asks, Deleting, Stays
  <2>4. QED
    BY <1>3, <2>2, <2>3 DEF CheckBrowser
<1>4. CASE EnableBrowser(n)
  <2>1. calls[n].kind = "enable" /\ calls[n].at = "browser" /\ UNCHANGED <<followed, rows>>
    BY <1>4 DEF EnableBrowser, serverVars
  <2>2. CASE Subscribes(n)
    BY <2>1, <2>2, SubscribesRenews
  <2>3. ASSUME NEW at \in {"asked", "clearing"}, calls' = [calls EXCEPT ![n].at = at, ![n].sub = sub], Stays, UNCHANGED sub
        PROVE Quiet(n)
    <3>1. calls'[n].at = at
      BY <1>0, <2>3 DEF CallRow
    <3>2. QED
      BY <2>1, <2>3, <3>1 DEF Quiet, Asks, Deleting, Stays
  <2>4. QED
    BY <1>4, <2>2, <2>3 DEF EnableBrowser
<1>5. CASE ClearEndpoint(n)
  <2>1. calls[n].at = "clearing" /\ UNCHANGED <<sub, followed, turnedOff>> /\ rows' \subseteq rows /\ Goes(n, "cleared")
    BY <1>5 DEF ClearEndpoint, browserVars, Stays
  <2>2. calls'[n].at = "cleared"
    BY <1>0, <2>1, GoesTo
  <2>3. QED
    BY <2>1, <2>2 DEF Quiet, Asks, Deleting
<1>6. CASE Replace(n)
  <2>1. calls[n].at = "cleared" /\ Subscribes(n) /\ followed' \subseteq followed /\ UNCHANGED rows
    BY <1>6 DEF Replace, serverVars
  <2>2. calls[n].kind = "enable"
    BY <1>0, <2>1 DEF CallSound, CallRow, Deleting
  <2>3. QED
    BY <2>1, <2>2, SubscribesRenews
<1>7. CASE LookUp(n)
  <2>1. calls[n].at = "asked" /\ UNCHANGED <<sub, followed, rows, turnedOff>>
    BY <1>7 DEF LookUp, Stays, browserVars
  <2>2. calls'[n].at \in {"failing", "accepted", "refused", "saving", "over"}
    <3>1. ASSUME NEW at \in Answering, Tells(n, at) PROVE calls'[n].at \in {at, "over"}
      BY <1>0, <3>1, TellsTo
    <3>2. ASSUME Goes(n, "saving") PROVE calls'[n].at = "saving"
      BY <1>0, <3>2, GoesTo
    <3>3. QED
      BY <1>7, <3>1, <3>2 DEF LookUp, Answering
  <2>3. QED
    BY <2>1, <2>2 DEF Quiet, Asks, Deleting
<1>8. CASE SaveRow(n)
  <2>1. calls[n].at = "saving" /\ UNCHANGED <<sub, followed, turnedOff>>
        /\ rows' \subseteq rows \cup {<<calls[n].sub, calls[n].owner>>}
    BY <1>8 DEF SaveRow, Stays, browserVars
  <2>2. calls'[n].at \in {"failing", "accepted", "over"}
    BY <1>0, <1>8, TellsTo DEF SaveRow
  <2>3. QED
    BY <2>1, <2>2 DEF Saves, Deleting
<1>9. CASE SubscribeAnswered(n)
  <2>1. calls[n].at \in Answering /\ UNCHANGED <<sub, rows>> /\ calls[n].kind # "disable"
    BY <1>0, <1>9 DEF SubscribeAnswered, serverVars, CallSound, Deleting, Answering
  <2>2. PICK status : Answered(n, status)
    BY <1>9 DEF SubscribeAnswered
  <2>3. calls'[n].at = "over" /\ turnedOff' = turnedOff
    BY <1>0, <2>1, <2>2, AnswersOver
  <2>4. followed' \subseteq followed
          \/ (calls[n].kind = "enable" /\ calls[n].at = "accepted" /\ followed' = followed \cup {calls[n].owner})
    BY <1>0, <1>9, <2>1 DEF SubscribeAnswered, CallRow
  <2>5. QED
    BY <2>1, <2>3, <2>4 DEF Quiet, Follows, Asks, Deleting, Answering
<1>10. QED
  BY <1>1, <1>2, <1>3, <1>4, <1>5, <1>6, <1>7, <1>8, <1>9 DEF Step

-----------------------------------------------------------------------------
(***************************************************************************)
(* Off means off: a disable at the server keeps its place, and a wallet    *)
(* that was turned off has nothing left.                                   *)
(***************************************************************************)

\* Of the changes that are the page's, only one is under way, and it is no one else's.
LEMMA OnlyChange ==
  ASSUME CallsSound, Control, NEW n \in DOMAIN calls, NEW m \in DOMAIN calls, m # n,
         calls[m].at \in Deleting, calls[m].here, Under(calls[n]), calls[n].at \notin AtServer
  PROVE  calls[n].kind = "status"
<1>1. calls[m].kind = "disable" /\ Under(calls[m]) /\ calls[n].here
  BY DEF CallsSound, CallSound, Under, Deleting
<1>2. m = busy
  BY <1>1 DEF Control, OneChange
<1>3. QED
  BY <1>1, <1>2 DEF Control, OneChange

\* What the step of one call leaves of another one's disable.
LEMMA OthersDisable ==
  ASSUME PushTyped, CallsSound, Control, DisableSound, OffSound,
         NEW n \in DOMAIN calls, Step(n) \/ AskPermission(n),
         DOMAIN calls' = DOMAIN calls, \A m \in DOMAIN calls : m # n => calls'[m] = calls[m],
         Under(calls[n]), crossed' = crossed, NEW m \in DOMAIN calls, m # n
  PROVE  DisableTrue(calls[m])'
<1>0. calls'[m] = calls[m] /\ calls[n] \in CallRow /\ calls[m] \in CallRow /\ CallSound(calls[n]) /\ CallSound(calls[m])
  BY CallIs DEF PushTyped, CallsSound
<1>1. SUFFICES ASSUME calls[m].at \in Deleting, calls[m].here PROVE DisableTrue(calls[m])'
  BY <1>0 DEF DisableTrue
<1>2. /\ sub \in {0, calls[m].sub} /\ followed \ {calls[m].owner} \subseteq calls[m].rest
      /\ calls[m].owner \notin calls[m].rest /\ calls[m].rest \cap (turnedOff \ crossed) = {}
      /\ calls[m].at = "deleted" /\ calls[m].owner \notin crossed => <<sub, calls[m].owner>> \notin rows
      /\ Under(calls[m]) /\ calls[m].kind = "disable"
  BY <1>0, <1>1 DEF DisableSound, DisableTrue, CallSound, Under, Deleting
<1>3. calls[n].at \notin AtServer => calls[n].kind = "status"
  BY <1>1, OnlyChange
<1>4. UNCHANGED <<sub, turnedOff>> /\ followed' \subseteq followed
      /\ (rows' \subseteq rows \/ (Under(calls[n]) /\ rows' \subseteq rows \cup {<<calls[n].sub, calls[n].owner>>}))
  <2>1. CASE Quiet(n)
    BY <2>1 DEF Quiet
  <2>2. CASE Saves(n)
    BY <2>2 DEF Saves
  <2>3. CASE Renews(n)
    BY <1>3, <2>3 DEF Renews, AtServer
  <2>4. CASE Follows(n)
    BY <1>3, <2>4 DEF Follows, AtServer
  <2>5. CASE DisableBrowser(n)
    BY <1>3, <2>5 DEF DisableBrowser, AtServer
  <2>6. CASE DeleteRows(n)
    BY <2>6 DEF DeleteRows, Stays, browserVars
  <2>7. CASE Deleted(n)
    <3>1. calls[n].at \in {"deleted", "undeleted"}
      BY <2>7 DEF Deleted
    <3>2. QED
      BY <1>0, <1>3, <3>1 DEF CallSound, AtServer, Deleting
  <2>8. QED
    BY <2>1, <2>2, <2>3, <2>4, <2>5, <2>6, <2>7, StepKinds
<1>5. calls[n].owner = calls[m].owner => calls[m].owner \in crossed
  BY <1>2 DEF Control, Alone
<1>6. <<sub, calls[m].owner>> \notin rows /\ calls[m].owner \notin crossed => <<sub', calls[m].owner>> \notin rows'
  BY <1>4, <1>5
<1>7. QED
  BY <1>0, <1>1, <1>2, <1>4, <1>6 DEF DisableTrue

LEMMA OwnDisable ==
  ASSUME PushTyped, CallsSound, Control, DisableSound, OffSound,
         NEW n \in DOMAIN calls, Step(n) \/ AskPermission(n), crossed' = crossed
  PROVE  DisableTrue(calls[n])'
<1>0. calls \in Seq(CallRow) /\ calls[n] \in CallRow /\ CallSound(calls[n])
  BY CallIs DEF PushTyped, CallsSound
<1>1. CASE Quiet(n) \/ Saves(n) \/ Renews(n) \/ Follows(n)
  BY <1>1 DEF Quiet, Saves, Renews, Follows, DisableTrue
<1>2. CASE DisableBrowser(n)
  <2>1. CASE Answered(n, "off")
    <3>1. calls'[n].at = "over"
      BY <1>0, <2>1, AnswersOver
    <3>2. QED
      BY <3>1 DEF DisableTrue, Deleting
  <2> DEFINE rest == followed \ {calls[n].owner}
  <2>2. ASSUME calls' = [calls EXCEPT ![n].at = "deleting", ![n].sub = sub, ![n].rest = rest], Stays,
               UNCHANGED <<followed, sub>>
        PROVE DisableTrue(calls[n])'
    <3>1. /\ calls'[n].at = "deleting" /\ calls'[n].sub = sub /\ calls'[n].rest = rest
          /\ calls'[n].owner = calls[n].owner
      <4> HIDE DEF rest
      <4>1. QED
        BY <1>0, <2>2 DEF CallRow
    <3>2. rest \cap (turnedOff \ crossed) = {}
      BY DEF OffSound, OffTrue
    <3>3. turnedOff' = turnedOff
      BY <2>2 DEF Stays
    <3>4. QED
      BY <2>2, <3>1, <3>2, <3>3 DEF DisableTrue
  <2>3. QED
    BY <1>2, <2>1, <2>2 DEF DisableBrowser
<1>3. CASE DeleteRows(n)
  <2>1. calls[n].at = "deleting" /\ UNCHANGED <<sub, followed, turnedOff>> /\ rows' \subseteq rows
    BY <1>3 DEF DeleteRows, Stays, browserVars
  <2>2. SUFFICES ASSUME calls[n].here PROVE DisableTrue(calls[n])'
    <3>1. CASE ~calls[n].here
      <4>1. calls'[n] = Over
        BY <1>0, <1>3, <3>1, TellsTo DEF DeleteRows
      <4>2. QED
        BY <4>1 DEF Over, DisableTrue, Deleting
    <3>2. QED
      BY <3>1, <2>2
  <2>3. /\ sub \in {0, calls[n].sub} /\ followed \ {calls[n].owner} \subseteq calls[n].rest
        /\ calls[n].owner \notin calls[n].rest /\ calls[n].rest \cap (turnedOff \ crossed) = {}
    BY <2>1, <2>2 DEF DisableSound, DisableTrue, Deleting
  <2>4. PICK at \in {"deleted", "undeleted"} : Goes(n, at) /\ (at = "deleted" => rows' = rows \ Named(n))
    <3>1. ASSUME NEW at, Tells(n, at) PROVE Goes(n, at)
      BY <2>2, <3>1 DEF Tells
    <3>2. QED
      BY <1>3, <3>1 DEF DeleteRows
  <2>5. calls'[n] = [calls[n] EXCEPT !.at = at] /\ calls'[n].at = at
    BY <1>0, <2>4, GoesTo
  <2>6. calls'[n].sub = calls[n].sub /\ calls'[n].rest = calls[n].rest /\ calls'[n].owner = calls[n].owner
    BY <1>0, <2>5 DEF CallRow
  <2>7. at = "deleted" => <<sub, calls[n].owner>> \notin rows'
    <3>1. <<0, calls[n].owner>> \notin rows
      BY DEF PushTyped, PushTypeOK, Row
    <3>2. <<calls[n].sub, calls[n].owner>> \notin rows \ Named(n)
      BY DEF Named
    <3>3. QED
      BY <2>1, <2>3, <2>4, <3>1, <3>2
  <2>8. QED
    BY <2>1, <2>3, <2>5, <2>6, <2>7 DEF DisableTrue
<1>4. CASE Deleted(n)
  <2>1. PICK status : Answered(n, status)
    BY <1>4 DEF Deleted
  <2>2. calls'[n].at = "over"
    BY <1>0, <2>1, AnswersOver
  <2>3. QED
    BY <2>2 DEF DisableTrue, Deleting
<1>5. QED
  BY <1>1, <1>2, <1>3, <1>4, StepKinds

\* A wallet that was off before.
LEMMA StaysOff ==
  ASSUME PushTyped, CallsSound, Control, DisableSound, OffSound,
         NEW n \in DOMAIN calls, Step(n) \/ AskPermission(n),
         DOMAIN calls' = DOMAIN calls, \A m \in DOMAIN calls : m # n => calls'[m] = calls[m],
         Under(calls[n]), crossed' = crossed, Under(calls'[n]) => Same(calls[n], calls'[n]),
         NEW wallet \in turnedOff \ crossed
  PROVE  OffTrue(wallet)'
<1>0. /\ OffTrue(wallet) /\ CallSound(calls[n]) /\ wallet \in Wallet
      /\ rows \subseteq (1 .. Len(madeWith)) \X Wallet /\ rows \subseteq Row
  BY DEF CallsSound, OffSound, PushTyped, PushTypeOK
<1>1. calls[n].owner = wallet => calls[n].kind = "status" /\ calls[n].at \in {"key", "browser"}
  BY <1>0 DEF OffTrue
<1>2. CASE Quiet(n)
  <2>1. wallet \notin followed' /\ <<sub', wallet>> \notin rows'
    BY <1>0, <1>2 DEF Quiet, OffTrue
  <2>2. Under(calls'[n]) /\ calls'[n].owner = wallet => calls'[n].kind = "status" /\ calls'[n].at \in {"key", "browser"}
    BY <1>0, <1>1, <1>2 DEF Quiet, Asks, OffTrue, Same, Under
  <2>3. QED
    BY <1>0, <2>1, <2>2 DEF OffTrue, Under
<1>3. calls[n].owner # wallet =>
        \A m \in DOMAIN calls : Under(calls'[m]) /\ calls'[m].owner = wallet =>
          calls'[m].kind = "status" /\ calls'[m].at \in {"key", "browser"}
  BY <1>0 DEF OffTrue, Same, Under
<1>4. CASE calls[n].owner # wallet
  <2>0. \/ calls[n].owner # wallet /\ wallet \notin followed' /\ <<sub', wallet>> \notin rows'
        \/ Quiet(n)
    <3>1. CASE Saves(n)
      BY <1>0, <1>4, <3>1 DEF Saves, OffTrue
    <3>2. CASE Renews(n)
      BY <1>0, <1>4, <3>2 DEF Renews, OffTrue
    <3>3. CASE Follows(n)
      BY <1>0, <1>4, <3>3 DEF Follows, OffTrue
    <3>4. CASE DisableBrowser(n)
      BY <1>0, <1>4, <3>4 DEF DisableBrowser, OffTrue, serverVars
    <3>5. CASE DeleteRows(n)
      BY <1>0, <1>4, <3>5 DEF DeleteRows, OffTrue, browserVars
    <3>6. CASE Deleted(n)
      <4>1. calls[n].at \in Deleting /\ calls[n].here
        BY <1>0, <3>6 DEF Deleted, CallSound, Under, Deleting, AtServer
      <4>2. wallet \notin calls[n].rest
        BY <4>1 DEF DisableSound, DisableTrue
      <4>3. followed' \in {followed, calls[n].rest} /\ sub' \in {0, sub} /\ rows' = rows
        BY <3>6 DEF Deleted, serverVars
      <4>4. <<0, wallet>> \notin rows
        BY <1>0 DEF Row
      <4>5. QED
        BY <1>0, <1>4, <4>2, <4>3, <4>4 DEF OffTrue
    <3>7. QED
      BY <3>1, <3>2, <3>3, <3>4, <3>5, <3>6, StepKinds
  <2>1. QED
    BY <1>2, <1>3, <2>0 DEF OffTrue, Under
<1>5. CASE calls[n].owner = wallet
  <2>1. ~Saves(n) /\ ~Renews(n) /\ ~Follows(n) /\ ~DisableBrowser(n) /\ ~DeleteRows(n) /\ ~Deleted(n)
    BY <1>1, <1>5 DEF Saves, Renews, Follows, DisableBrowser, DeleteRows, Deleted
  <2>2. QED
    BY <1>2, <2>1, StepKinds
<1>6. QED
  BY <1>4, <1>5

\* A wallet that is turned off by this step.
LEMMA TurnsOff ==
  ASSUME PushTyped, CallsSound, Control, DisableSound, OffSound,
         NEW n \in DOMAIN calls, Step(n) \/ AskPermission(n),
         DOMAIN calls' = DOMAIN calls, \A m \in DOMAIN calls : m # n => calls'[m] = calls[m],
         Under(calls[n]), crossed' = crossed,
         NEW wallet \in turnedOff' \ crossed', wallet \notin turnedOff
  PROVE  OffTrue(wallet)'
<1>0. calls \in Seq(CallRow) /\ CallSound(calls[n]) /\ rows \subseteq Row
  BY DEF PushTyped, PushTypeOK, CallsSound
<1>1. DisableBrowser(n) \/ Deleted(n)
  BY StepKinds DEF Quiet, Saves, Renews, Follows, DeleteRows, Stays
<1>2. Answered(n, "off") /\ calls[n].kind = "disable"
  <2>1. CASE DisableBrowser(n)
    BY <2>1 DEF DisableBrowser, Stays
  <2>2. CASE Deleted(n)
    <3>1. calls[n].kind = "disable"
      BY <1>0, <2>2 DEF Deleted, CallSound, Deleting
    <3>2. ~Answered(n, "failed")
      BY DEF Answered
    <3>3. QED
      BY <2>2, <3>1, <3>2 DEF Deleted
  <2>3. QED
    BY <1>1, <2>1, <2>2
<1>3. wallet = calls[n].owner /\ calls'[n].at = "over"
  BY <1>0, <1>2, AnswersOver DEF Answered
<1>4. \A m \in DOMAIN calls : ~(Under(calls'[m]) /\ calls'[m].owner = wallet)
  <2>1. \A m \in DOMAIN calls : m # n /\ Under(calls[m]) => calls[m].owner # wallet
    BY <1>2, <1>3 DEF Control, Alone
  <2>2. QED
    BY <1>3, <2>1 DEF Under
<1>5. <<0, wallet>> \notin rows
  BY <1>0 DEF Row
<1>6. wallet \notin followed' /\ <<sub', wallet>> \notin rows'
  <2>1. CASE DisableBrowser(n)
    <3>1. sub = 0 /\ followed' = followed \ {calls[n].owner} /\ UNCHANGED <<sub, rows>>
      BY <2>1, <1>2, <1>3 DEF DisableBrowser, Stays, serverVars
    <3>2. QED
      BY <1>3, <1>5, <3>1
  <2>2. CASE Deleted(n)
    <3>1. calls[n].at \in Deleting /\ calls[n].here
      BY <1>0, <2>2 DEF Deleted, CallSound, Under, Deleting, AtServer
    <3>2. /\ sub \in {0, calls[n].sub} /\ calls[n].owner \notin calls[n].rest
          /\ calls[n].at = "deleted" => <<sub, calls[n].owner>> \notin rows
      BY <1>3, <3>1 DEF DisableSound, DisableTrue
    <3>3. calls[n].rest = {} \/ calls[n].at = "deleted"
      <4>1. ~Answered(n, "failed")
        BY <1>3 DEF Answered
      <4>2. QED
        BY <2>2, <4>1 DEF Deleted
    <3>4. /\ sub' = IF calls[n].rest = {} /\ sub = calls[n].sub THEN 0 ELSE sub
          /\ followed' = calls[n].rest /\ rows' = rows
      BY <2>2, <3>3 DEF Deleted, serverVars
    <3>5. QED
      BY <1>3, <1>5, <3>2, <3>3, <3>4
  <2>3. QED
    BY <1>1, <2>1, <2>2
<1>7. QED
  BY <1>4, <1>6 DEF OffTrue, Under

OffInv == DisableSound /\ OffSound

LEMMA OutcomeOff ==
  ASSUME PushTyped, CallsSound, Control, OffInv, NEW n \in DOMAIN calls, Step(n) \/ AskPermission(n)
  PROVE  OffInv'
<1>1. PICK to : Outcome(n, to)
  BY StepSound
<1>2. /\ DOMAIN calls' = DOMAIN calls /\ \A m \in DOMAIN calls : m # n => calls'[m] = calls[m]
      /\ Under(calls[n]) /\ crossed' = crossed
      /\ Under(calls'[n]) => Same(calls[n], calls'[n])
  BY <1>1, OutcomeFacts
<1>3. DisableSound /\ OffSound
  BY DEF OffInv
<1>4. \A m \in DOMAIN calls : m # n => DisableTrue(calls[m])'
  BY <1>2, <1>3, OthersDisable
<1>5. DisableTrue(calls[n])'
  BY <1>2, <1>3, OwnDisable
<1>6. DisableSound'
  BY <1>2, <1>4, <1>5 DEF DisableSound
<1>7. OffSound'
  <2> SUFFICES ASSUME NEW wallet \in turnedOff' \ crossed' PROVE OffTrue(wallet)'
    BY DEF OffSound
  <2>1. CASE wallet \in turnedOff
    BY <1>2, <1>3, <2>1, StaysOff
  <2>2. CASE wallet \notin turnedOff
    BY <1>2, <1>3, <2>2, TurnsOff
  <2>3. QED
    BY <2>1, <2>2
<1>8. QED
  BY <1>6, <1>7 DEF OffInv

\* A call that begins.
LEMMA BeginsOff ==
  ASSUME PushTyped, CallsSound, OffInv, NEW to \in CallRow, Begins(to), to.at \notin Deleting,
         UNCHANGED <<sub, followed, rows>>, turnedOff' \subseteq turnedOff,
         to.owner \in turnedOff' => to.kind = "status" /\ to.at = "key"
  PROVE  OffInv'
<1>1. /\ DOMAIN calls' = DOMAIN calls \cup {Len(calls) + 1} /\ calls'[Len(calls) + 1] = to
      /\ \A m \in DOMAIN calls : calls'[m] = calls[m]
  BY BegunCalls DEF PushTyped, Begins
<1>2. crossed \subseteq crossed'
  BY BeginsCrosses
<1>3. DisableSound'
  <2>1. \A m \in DOMAIN calls : DisableTrue(calls[m])'
    BY <1>1, <1>2 DEF OffInv, DisableSound, DisableTrue
  <2>2. DisableTrue(to)'
    BY DEF DisableTrue
  <2>3. QED
    BY <1>1, <2>1, <2>2 DEF DisableSound
<1>4. OffSound'
  <2> SUFFICES ASSUME NEW wallet \in turnedOff' \ crossed' PROVE OffTrue(wallet)'
    BY DEF OffSound
  <2>1. OffTrue(wallet)
    BY <1>2 DEF OffInv, OffSound
  <2>2. QED
    BY <1>1, <2>1 DEF OffTrue, Under
<1>5. QED
  BY <1>3, <1>4 DEF OffInv

LEMMA ReloadOff ==
  ASSUME PushTyped, CallsSound, OffInv, Reload
  PROVE  OffInv'
<1>1. PICK to \in CallRow :
           /\ to.kind = "status" /\ to.at = "key" /\ to.owner = owner /\ to.owner \in Wallet /\ to.here
           /\ to.since = changes' /\ to.key = 0
           /\ calls' \in Seq(CallRow) /\ Len(calls') = Len(calls) + 1
           /\ DOMAIN calls' = DOMAIN calls \cup {Len(calls) + 1} /\ Len(calls) + 1 \notin DOMAIN calls
           /\ calls'[Len(calls) + 1] = to
           /\ \A m \in DOMAIN calls : calls'[m] = Left(calls[m])
  BY ReloadIs
<1>2. crossed \subseteq crossed' /\ UNCHANGED <<sub, followed, rows, turnedOff>>
  BY DEF Reload, browserVars, serverVars
<1>3. ASSUME NEW m \in DOMAIN calls, Under(calls'[m])
      PROVE  ~calls'[m].here /\ Under(calls[m]) /\ calls'[m].owner = calls[m].owner /\ calls[m].at \in AtServer
  <2>1. calls'[m] = Left(calls[m]) /\ LeftTyped(calls[m])
    BY <1>1, CallIs, LeftIs DEF PushTyped
  <2>2. calls[m].at \in AtServer
    BY <1>3, <2>1, OverIsOver DEF LeftTyped
  <2>3. QED
    BY <2>1, <2>2 DEF LeftTyped, Under, AtServer
<1>4. DisableSound'
  BY <1>1, <1>3 DEF DisableSound, DisableTrue, Deleting, Under
<1>5. OffSound'
  <2> SUFFICES ASSUME NEW wallet \in turnedOff' \ crossed' PROVE OffTrue(wallet)'
    BY DEF OffSound
  <2>1. OffTrue(wallet)
    BY <1>2 DEF OffInv, OffSound
  <2>2. \A m \in DOMAIN calls : ~(Under(calls'[m]) /\ calls'[m].owner = wallet)
    BY <1>3, <2>1 DEF OffTrue, AtServer
  <2>3. QED
    BY <1>1, <1>2, <2>1, <2>2 DEF OffTrue, Under
<1>6. QED
  BY <1>4, <1>5 DEF OffInv

LEMMA OutsideOff ==
  ASSUME PushTyped, OffInv, Operator \/ Person \/ IndexerRemoves \/ Disconnect \/ UNCHANGED pushVars
  PROVE  OffInv'
<1>1. UNCHANGED <<calls, followed, turnedOff, crossed>> /\ sub' \in {0, sub} /\ rows' \subseteq rows
  BY DEF Operator, Person, IndexerRemoves, Disconnect, pushVars, pageVars, pastVars, serverVars, browserVars
<1>2. \A wallet : <<0, wallet>> \notin rows'
  BY <1>1 DEF PushTyped, PushTypeOK, Row
<1>3. DisableSound'
  BY <1>1, <1>2 DEF OffInv, DisableSound, DisableTrue
<1>4. OffSound'
  BY <1>1, <1>2 DEF OffInv, OffSound, OffTrue, Under
<1>5. QED
  BY <1>3, <1>4 DEF OffInv

LEMMA OffStep ==
  ASSUME PushTyped, CallsSound, Control, OffInv, [PushNext]_pushVars
  PROVE  OffInv'
<1>1. CASE Connect
  <2>1. PICK to \in CallRow :
           /\ to.kind = "status" /\ to.at = "key" /\ to.owner = owner' /\ to.owner \in Wallet /\ to.here
           /\ to.since = changes /\ to.key = 0 /\ Begins(to)
    BY <1>1, ConnectIs
  <2>2. UNCHANGED <<sub, followed, rows, turnedOff>>
    BY <1>1 DEF Connect, browserVars, serverVars
  <2>3. QED
    BY <2>1, <2>2, BeginsOff DEF Deleting
<1>2. CASE Click
  <2>1. PICK to \in CallRow :
           /\ \/ to.kind = "enable" /\ to.at = "permission" /\ switch = "off"
              \/ to.kind = "disable" /\ to.at = "browser" /\ switch = "on"
           /\ to.owner = owner /\ to.owner \in Wallet /\ to.here
           /\ to.since = changes /\ to.key = 0 /\ Begins(to)
    BY <1>2, ClickIs
  <2>2. UNCHANGED <<sub, followed, rows>> /\ turnedOff' = turnedOff \ {owner}
    BY <1>2 DEF Click, browserVars, serverVars
  <2>3. QED
    BY <2>1, <2>2, BeginsOff DEF Deleting
<1>3. QED
  BY <1>1, <1>2, ReloadOff, OutsideOff, OutcomeOff DEF PushNext

-----------------------------------------------------------------------------
(***************************************************************************)
(* On means on: in a world that did not change under a call, what a call   *)
(* learnt of the browser is still so when it is answered.                  *)
(***************************************************************************)

RealInv == PushTyped /\ CallsSound /\ Control /\ OffInv /\ CallsReal

\* In such a world every call that is under way is the page's own and knows the key.
LEMMA Knows ==
  ASSUME CallsSound, ~met, NEW n \in DOMAIN calls, Under(calls[n])
  PROVE  /\ calls[n].here /\ calls[n].since = changes
         /\ calls[n].kind # "disable" /\ calls[n].at \notin {"permission", "key"} => calls[n].key = key /\ key # 0
BY DEF CallsSound, CallSound

LEMMA StepsKeepKey ==
  ASSUME NEW n \in DOMAIN calls, Step(n) \/ AskPermission(n)
  PROVE  key' = key /\ UNCHANGED world
BY DEF Step, AskPermission, ReadKey, CheckBrowser, EnableBrowser, ClearEndpoint, Replace, DisableBrowser,
       DeleteRows, Deleted, LookUp, SaveRow, SubscribeAnswered, serverVars

\* A status changes nothing but the list, and adds rows.
LEMMA StatusKeeps ==
  ASSUME CallsSound, NEW n \in DOMAIN calls, Step(n) \/ AskPermission(n), calls[n].kind = "status"
  PROVE  UNCHANGED <<sub, madeWith>> /\ rows \subseteq rows'
<1>1. calls[n].at \notin Deleting \cup {"permission", "clearing", "cleared"}
  BY DEF CallsSound, CallSound, Deleting
<1>2. ~AskPermission(n) /\ ~EnableBrowser(n) /\ ~ClearEndpoint(n) /\ ~Replace(n) /\ ~DisableBrowser(n)
      /\ ~DeleteRows(n) /\ ~Deleted(n)
  BY <1>1 DEF AskPermission, EnableBrowser, ClearEndpoint, Replace, DisableBrowser, DeleteRows, Deleted, Deleting
<1>3. ReadKey(n) \/ CheckBrowser(n) \/ LookUp(n) \/ SaveRow(n) \/ SubscribeAnswered(n)
  BY <1>2 DEF Step
<1>4. QED
  BY <1>3 DEF ReadKey, CheckBrowser, LookUp, SaveRow, SubscribeAnswered, browserVars, serverVars

\* A wallet that is listed stays so, with its row, until its own disable is done.
LEMMA KeepsListed ==
  ASSUME RealInv, ~met, NEW n \in DOMAIN calls, Step(n) \/ AskPermission(n), Under(calls[n]),
         SubIsCurrent, NEW wallet \in followed, wallet \notin crossed,
         Deleted(n) => calls[n].owner # wallet
  PROVE  /\ UNCHANGED sub /\ madeWith'[sub] = madeWith[sub] /\ wallet \in followed'
         /\ <<sub, wallet>> \in rows /\ (DeleteRows(n) => calls[n].owner # wallet) => <<sub, wallet>> \in rows'
<1>0. calls[n].here /\ sub # 0 /\ madeWith[sub] = key /\ CallReal(calls[n]) /\ CallSound(calls[n])
  BY Knows DEF RealInv, SubIsCurrent, CallsReal, CallsSound
<1>1. CASE AskPermission(n) \/ ReadKey(n) \/ LookUp(n)
  BY <1>1 DEF AskPermission, ReadKey, LookUp, serverVars, browserVars
<1>2. CASE CheckBrowser(n)
  <2>1. SameKey(n)
    BY <1>0, <1>2, Knows DEF RealInv, CheckBrowser, SameKey
  <2>2. QED
    BY <1>2, <2>1 DEF CheckBrowser, serverVars
<1>3. CASE EnableBrowser(n)
  BY <1>0, <1>3 DEF EnableBrowser, serverVars
<1>4. CASE ClearEndpoint(n) \/ Replace(n)
  <2>1. calls[n].at \in {"clearing", "cleared"}
    BY <1>4 DEF ClearEndpoint, Replace
  <2>2. QED
    BY <1>0, <2>1 DEF CallReal
<1>5. CASE DisableBrowser(n)
  BY <1>0, <1>5 DEF DisableBrowser, serverVars
<1>6. CASE DeleteRows(n)
  <2>1. followed \ {calls[n].owner} \subseteq calls[n].rest
    BY <1>0, <1>6 DEF DeleteRows, RealInv, OffInv, DisableSound, DisableTrue, Deleting
  <2>2. calls[n].owner # wallet => <<sub, wallet>> \notin Named(n)
    BY <2>1 DEF Named
  <2>3. UNCHANGED <<sub, madeWith, followed>> /\ rows' \in {rows, rows \ Named(n)}
    BY <1>6 DEF DeleteRows, browserVars
  <2>4. QED
    BY <1>6, <2>2, <2>3
<1>7. CASE Deleted(n)
  <2>1. followed \ {calls[n].owner} \subseteq calls[n].rest
    BY <1>0, <1>7 DEF Deleted, RealInv, OffInv, DisableSound, DisableTrue, Deleting
  <2>2. wallet \in calls[n].rest
    BY <1>7, <2>1
  <2>3. UNCHANGED <<madeWith, rows>>
    BY <1>7 DEF Deleted, serverVars
  <2>4. QED
    BY <1>7, <2>2, <2>3 DEF Deleted
<1>8. CASE SaveRow(n)
  BY <1>8 DEF SaveRow, browserVars
<1>9. CASE SubscribeAnswered(n)
  <2>1. calls[n].at = "refused" => calls[n].owner # wallet
    BY <1>0 DEF CallReal, Answering
  <2>2. UNCHANGED <<sub, madeWith, rows>>
    BY <1>9 DEF SubscribeAnswered, serverVars
  <2>3. wallet \in followed'
    BY <1>9, <2>1 DEF SubscribeAnswered
  <2>4. QED
    BY <2>2, <2>3
<1>10. QED
  BY <1>1, <1>2, <1>3, <1>4, <1>5, <1>6, <1>7, <1>8, <1>9 DEF Step

\* What a call learnt, while another one steps.
LEMMA OthersReal ==
  ASSUME RealInv, ~met, NEW n \in DOMAIN calls, Step(n) \/ AskPermission(n), Under(calls[n]), crossed' = crossed,
         NEW m \in DOMAIN calls, m # n, calls'[m] = calls[m]
  PROVE  CallReal(calls[m])'
<1>0. CallReal(calls[m]) /\ calls[n].here /\ key' = key /\ calls[m] \in CallRow
  BY Knows, StepsKeepKey, CallIs DEF RealInv, CallsReal, PushTyped
<1>1. CASE calls[n].kind = "status"
  <2>1. UNCHANGED <<sub, madeWith>> /\ rows \subseteq rows'
    BY <1>1, StatusKeeps DEF RealInv
  <2>2. (SubIsCurrent' <=> SubIsCurrent)
    BY <1>0, <2>1 DEF SubIsCurrent
  <2>3. calls[m].at \in {"asked", "saving"} \cup Answering /\ calls[m].owner \notin crossed /\ calls[m].kind = "status" =>
          calls[m].owner \in followed'
    <3>1. SUFFICES ASSUME calls[m].at \in {"asked", "saving"} \cup Answering, calls[m].owner \notin crossed,
                          calls[m].kind = "status"
                   PROVE  calls[m].owner \in followed'
      OBVIOUS
    <3>2. SubIsCurrent /\ calls[m].owner \in followed
      BY <1>0, <3>1 DEF CallReal
    <3>3. ~Deleted(n)
      BY <1>1 DEF Deleted, RealInv, CallsSound, CallSound, Deleting
    <3>4. QED
      BY <3>1, <3>2, <3>3, KeepsListed
  <2>4. QED
    BY <1>0, <2>1, <2>2, <2>3 DEF CallReal
<1>2. CASE calls[n].kind # "status"
  <2>1. Under(calls[m]) => calls[m].kind = "status" /\ (calls[m].owner = calls[n].owner => calls[m].owner \in crossed)
    <3>1. SUFFICES ASSUME Under(calls[m])
                   PROVE calls[m].kind = "status" /\ (calls[m].owner = calls[n].owner => calls[m].owner \in crossed)
      OBVIOUS
    <3>2. calls[m].here
      BY <3>1, Knows DEF RealInv
    <3>3. calls[m].kind = "status"
      BY <1>0, <1>2, <3>1, <3>2 DEF RealInv, Control, OneChange
    <3>4. QED
      BY <1>2, <3>1, <3>3 DEF RealInv, Control, Alone
  <2>2. calls[m].at \notin {"clearing", "cleared"}
    BY <2>1 DEF RealInv, CallsSound, CallSound, Under
  <2>3. SUFFICES ASSUME calls[m].at \in {"asked", "saving"} \cup Answering, calls[m].owner \notin crossed
                 PROVE  CallReal(calls[m])'
    BY <1>0, <2>2 DEF CallReal
  <2>4. /\ calls[m].kind = "status" /\ calls[m].owner # calls[n].owner
        /\ calls[m].sub = sub /\ SubIsCurrent /\ calls[m].at # "refused" /\ calls[m].owner \in followed
        /\ calls[m].at = "accepted" => <<sub, calls[m].owner>> \in rows
    BY <1>0, <2>1, <2>3 DEF CallReal, Under, Answering
  <2>5. /\ UNCHANGED sub /\ madeWith'[sub] = madeWith[sub] /\ calls[m].owner \in followed'
        /\ <<sub, calls[m].owner>> \in rows => <<sub, calls[m].owner>> \in rows'
    BY <2>3, <2>4, KeepsListed
  <2>6. SubIsCurrent'
    BY <1>0, <2>4, <2>5 DEF SubIsCurrent
  <2>7. QED
    BY <1>0, <2>2, <2>4, <2>5, <2>6 DEF CallReal
<1>3. QED
  BY <1>1, <1>2

\* A call that is over, or has not asked yet, claims nothing.
LEMMA RealWhenOver ==
  ASSUME NEW n, calls'[n].at \notin {"clearing", "cleared", "asked", "saving"} \cup Answering
  PROVE  CallReal(calls[n])'
BY DEF CallReal

LEMMA SubscribesReal ==
  ASSUME PushTyped, NEW n \in DOMAIN calls, Subscribes(n), calls[n].kind = "enable",
         ~met => calls[n].key = key /\ key # 0, key' = key, met' = met
  PROVE  CallReal(calls[n])'
<1>0. calls \in Seq(CallRow) /\ calls[n] \in CallRow /\ Len(madeWith) \in Nat /\ madeWith \in Seq(Nat)
  BY CallIs DEF PushTyped
<1>1. CASE permission = "granted"
  <2>1. sub' = Len(madeWith) + 1 /\ madeWith' = Append(madeWith, calls[n].key)
        /\ calls' = [calls EXCEPT ![n].at = "asked", ![n].sub = Len(madeWith) + 1]
    BY <1>1 DEF Subscribes, Stays
  <2>2. calls'[n].at = "asked" /\ calls'[n].sub = Len(madeWith) + 1 /\ calls'[n].kind = "enable"
    BY <1>0, <2>1 DEF CallRow
  <2>3. madeWith'[Len(madeWith) + 1] = calls[n].key
    BY <1>0, <2>1 DEF CallRow
  <2>4. ~met => SubIsCurrent'
    BY <1>0, <2>1, <2>3 DEF SubIsCurrent
  <2>5. QED
    BY <2>1, <2>2, <2>4 DEF CallReal
<1>2. CASE permission # "granted"
  <2>1. Answered(n, "blocked")
    BY <1>2 DEF Subscribes
  <2>2. calls'[n].at = "over"
    BY <1>0, <2>1, AnswersOver
  <2>3. QED
    BY <2>2, RealWhenOver DEF Answering
<1>3. QED
  BY <1>1, <1>2

LEMMA OwnReal ==
  ASSUME RealInv, ~met, NEW n \in DOMAIN calls, Step(n) \/ AskPermission(n), Under(calls[n]), crossed' = crossed
  PROVE  CallReal(calls[n])'
<1>0. /\ calls \in Seq(CallRow) /\ calls[n] \in CallRow /\ CallReal(calls[n]) /\ calls[n].here /\ key' = key
      /\ CallSound(calls[n])
  BY Knows, StepsKeepKey, CallIs DEF RealInv, CallsReal, PushTyped, CallsSound
<1>1. ASSUME NEW status, Answered(n, status) PROVE CallReal(calls[n])'
  <2>1. calls'[n].at = "over"
    BY <1>0, <1>1, AnswersOver
  <2>2. QED
    BY <2>1, RealWhenOver DEF Answering
<1>2. CASE AskPermission(n)
  <2>1. CASE Goes(n, "key")
    <3>1. calls'[n].at = "key"
      BY <1>0, <2>1, GoesTo
    <3>2. QED
      BY <3>1, RealWhenOver DEF Answering
  <2>2. QED
    BY <1>1, <1>2, <2>1 DEF AskPermission, RealInv, PushTyped
<1>3. CASE ReadKey(n)
  <2>1. CASE calls' = [calls EXCEPT ![n].at = "browser", ![n].key = key]
    <3>1. calls'[n].at = "browser"
      BY <1>0, <2>1 DEF CallRow
    <3>2. QED
      BY <3>1, RealWhenOver DEF Answering
  <2>2. QED
    BY <1>1, <1>3, <2>1 DEF ReadKey
<1>4. ASSUME calls[n].at = "browser", calls[n].kind # "disable", sub # 0,
             NEW at \in {"asked", "clearing"}, (at = "asked") <=> SameKey(n),
             calls[n].kind = "status" => at = "asked" /\ calls[n].owner \in followed,
             calls' = [calls EXCEPT ![n].at = at, ![n].sub = sub], UNCHANGED <<sub, madeWith, followed>>
      PROVE  CallReal(calls[n])'
  <2>1. calls'[n].at = at /\ calls'[n].sub = sub /\ calls'[n].kind = calls[n].kind /\ calls'[n].owner = calls[n].owner
    BY <1>0, <1>4 DEF CallRow
  <2>2. calls[n].key = key
    BY <1>0, <1>4, Knows DEF RealInv
  <2>3. SubIsCurrent' <=> SameKey(n)
    BY <1>0, <1>4, <2>2 DEF SubIsCurrent, SameKey
  <2>4. QED
    BY <1>4, <2>1, <2>3 DEF CallReal, Answering
<1>5. CASE CheckBrowser(n)
  BY <1>1, <1>4, <1>5 DEF CheckBrowser, Stays
<1>6. CASE EnableBrowser(n)
  <2>1. CASE Subscribes(n)
    BY <1>0, <1>6, <2>1, Knows, StepsKeepKey, SubscribesReal DEF EnableBrowser, RealInv, world
  <2>2. QED
    BY <1>4, <1>6, <2>1 DEF EnableBrowser
<1>7. CASE ClearEndpoint(n)
  <2>1. calls[n].at = "clearing" /\ Goes(n, "cleared") /\ UNCHANGED <<sub, madeWith>>
    BY <1>7 DEF ClearEndpoint, browserVars
  <2>2. calls'[n] = [calls[n] EXCEPT !.at = "cleared"] /\ calls'[n].at = "cleared"
    BY <1>0, <2>1, GoesTo
  <2>3. calls'[n].sub = calls[n].sub
    BY <1>0, <2>2 DEF CallRow
  <2>4. sub = calls[n].sub /\ ~SubIsCurrent
    BY <1>0, <2>1 DEF CallReal
  <2>5. QED
    BY <1>0, <2>1, <2>2, <2>3, <2>4 DEF CallReal, SubIsCurrent, Answering
<1>8. CASE Replace(n)
  <2>1. calls[n].kind = "enable" /\ Subscribes(n) /\ calls[n].at = "cleared"
    BY <1>0, <1>8 DEF Replace, CallSound, CallRow, Deleting
  <2>2. calls[n].key = key /\ key # 0
    BY <2>1, Knows DEF RealInv
  <2>3. QED
    BY <1>0, <2>1, <2>2, StepsKeepKey, SubscribesReal DEF RealInv, world
<1>9. CASE DisableBrowser(n)
  <2>1. CASE calls' = [calls EXCEPT ![n].at = "deleting", ![n].sub = sub, ![n].rest = followed \ {calls[n].owner}]
    <3>1. calls'[n].at = "deleting"
      BY <1>0, <2>1 DEF CallRow
    <3>2. QED
      BY <3>1, RealWhenOver DEF Answering
  <2>2. QED
    BY <1>1, <1>9, <2>1 DEF DisableBrowser
<1>10. CASE DeleteRows(n)
  <2>1. calls'[n].at \in {"deleted", "undeleted", "over"}
    BY <1>0, <1>10, TellsTo DEF DeleteRows
  <2>2. QED
    BY <2>1, RealWhenOver DEF Answering
<1>11. CASE Deleted(n)
  BY <1>1, <1>11 DEF Deleted
<1>12. ASSUME NEW at \in Answering \cup {"saving"}, Goes(n, at), calls[n].at \in {"asked", "saving"},
              UNCHANGED <<sub, madeWith, followed>>, calls[n].owner \notin crossed => at # "refused",
              at = "accepted" => <<calls[n].sub, calls[n].owner>> \in rows'
       PROVE  CallReal(calls[n])'
  <2>1. calls'[n] = [calls[n] EXCEPT !.at = at] /\ calls'[n].at = at
    BY <1>0, <1>12, GoesTo
  <2>2. calls'[n].sub = calls[n].sub /\ calls'[n].owner = calls[n].owner /\ calls'[n].kind = calls[n].kind
    BY <1>0, <2>1 DEF CallRow
  <2>3. calls[n].owner \notin crossed =>
          calls[n].sub = sub /\ SubIsCurrent /\ (calls[n].kind = "status" => calls[n].owner \in followed)
    BY <1>0, <1>12 DEF CallReal
  <2>4. SubIsCurrent' <=> SubIsCurrent
    BY <1>0, <1>12 DEF SubIsCurrent
  <2>5. QED
    BY <1>12, <2>1, <2>2, <2>3, <2>4 DEF CallReal, Answering
<1>13. CASE LookUp(n)
  <2>1. calls[n].at = "asked" /\ UNCHANGED <<sub, madeWith, followed, rows>>
    BY <1>13 DEF LookUp, browserVars
  <2>2. ASSUME Tells(n, "failing") PROVE CallReal(calls[n])'
    <3>1. Goes(n, "failing")
      BY <1>0, <2>2 DEF Tells
    <3>2. QED
      BY <1>12, <2>1, <3>1 DEF Answering
  <2>3. ASSUME Tells(n, "accepted"), <<calls[n].sub, calls[n].owner>> \in rows PROVE CallReal(calls[n])'
    <3>1. Goes(n, "accepted")
      BY <1>0, <2>3 DEF Tells
    <3>2. QED
      BY <1>12, <2>1, <2>3, <3>1 DEF Answering
  <2>4. ASSUME Goes(n, "saving") PROVE CallReal(calls[n])'
    BY <1>12, <2>1, <2>4 DEF Answering
  <2>5. ASSUME Tells(n, "refused"), ~(Live(calls[n].sub) /\ madeWith[calls[n].sub] = key) PROVE CallReal(calls[n])'
    <3>1. Goes(n, "refused")
      BY <1>0, <2>5 DEF Tells
    <3>2. calls[n].owner \in crossed
      BY <1>0, <2>1, <2>5 DEF CallReal, SubIsCurrent, Live
    <3>3. QED
      BY <1>12, <2>1, <3>1, <3>2 DEF Answering
  <2>6. QED
    BY <1>13, <2>2, <2>3, <2>4, <2>5 DEF LookUp
<1>14. CASE SaveRow(n)
  <2>1. calls[n].at = "saving" /\ UNCHANGED <<sub, madeWith, followed>>
    BY <1>14 DEF SaveRow, browserVars
  <2>2. ASSUME Tells(n, "failing") PROVE CallReal(calls[n])'
    <3>1. Goes(n, "failing")
      BY <1>0, <2>2 DEF Tells
    <3>2. QED
      BY <1>12, <2>1, <3>1 DEF Answering
  <2>3. ASSUME Tells(n, "accepted"), <<calls[n].sub, calls[n].owner>> \in rows' PROVE CallReal(calls[n])'
    <3>1. Goes(n, "accepted")
      BY <1>0, <2>3 DEF Tells
    <3>2. QED
      BY <1>12, <2>1, <2>3, <3>1 DEF Answering
  <2>4. QED
    BY <1>14, <2>2, <2>3 DEF SaveRow
<1>15. CASE SubscribeAnswered(n)
  BY <1>1, <1>15 DEF SubscribeAnswered
<1>16. QED
  BY <1>2, <1>3, <1>5, <1>6, <1>7, <1>8, <1>9, <1>10, <1>11, <1>13, <1>14, <1>15 DEF Step

LEMMA OutcomeReal ==
  ASSUME RealInv, NEW n \in DOMAIN calls, Step(n) \/ AskPermission(n)
  PROVE  CallsReal'
<1>1. PICK to : Outcome(n, to)
  BY StepSound DEF RealInv
<1>2. /\ DOMAIN calls' = DOMAIN calls /\ \A m \in DOMAIN calls : m # n => calls'[m] = calls[m]
      /\ Under(calls[n]) /\ crossed' = crossed
  BY <1>1, OutcomeFacts DEF RealInv
<1>3. met' = met
  BY StepsKeepKey DEF world
<1>4. CASE met
  BY <1>3, <1>4 DEF CallsReal, CallReal
<1>5. CASE ~met
  <2>1. \A m \in DOMAIN calls : m # n => CallReal(calls[m])'
    BY <1>2, <1>5, OthersReal
  <2>2. CallReal(calls[n])'
    BY <1>2, <1>5, OwnReal
  <2>3. QED
    BY <1>2, <2>1, <2>2 DEF CallsReal
<1>6. QED
  BY <1>4, <1>5

LEMMA BeginsReal ==
  ASSUME PushTyped, CallsReal, NEW to \in CallRow, Begins(to), to.at \in {"key", "permission", "browser"},
         UNCHANGED <<browserVars, serverVars, met>>
  PROVE  CallsReal'
<1>1. /\ DOMAIN calls' = DOMAIN calls \cup {Len(calls) + 1} /\ calls'[Len(calls) + 1] = to
      /\ \A m \in DOMAIN calls : calls'[m] = calls[m]
  BY BegunCalls DEF PushTyped, Begins
<1>2. crossed \subseteq crossed'
  BY BeginsCrosses
<1>3. \A m \in DOMAIN calls : CallReal(calls[m])'
  BY <1>1, <1>2 DEF CallsReal, CallReal, SubIsCurrent, browserVars, serverVars
<1>4. CallReal(to)'
  BY DEF CallReal, Answering
<1>5. QED
  BY <1>1, <1>3, <1>4 DEF CallsReal

LEMMA ReloadReal ==
  ASSUME PushTyped, CallsReal, Reload
  PROVE  CallsReal'
<1>1. PICK to \in CallRow :
           /\ to.kind = "status" /\ to.at = "key" /\ to.owner = owner /\ to.owner \in Wallet /\ to.here
           /\ to.since = changes' /\ to.key = 0
           /\ calls' \in Seq(CallRow) /\ Len(calls') = Len(calls) + 1
           /\ DOMAIN calls' = DOMAIN calls \cup {Len(calls) + 1} /\ Len(calls) + 1 \notin DOMAIN calls
           /\ calls'[Len(calls) + 1] = to
           /\ \A m \in DOMAIN calls : calls'[m] = Left(calls[m])
  BY ReloadIs
<1>2. CASE met'
  BY <1>2 DEF CallsReal, CallReal
<1>3. CASE ~met'
  <2>1. \A m \in DOMAIN calls : calls[m].at \notin AtServer
    BY <1>3 DEF Reload, Change
  <2>2. \A m \in DOMAIN calls : calls'[m].at = "over"
    BY <1>1, <2>1, OverIsOver DEF Left
  <2>3. \A m \in DOMAIN calls' : calls'[m].at \in {"over", "key"}
    BY <1>1, <2>2
  <2>4. QED
    BY <2>3 DEF CallsReal, CallReal, Answering
<1>4. QED
  BY <1>2, <1>3

LEMMA OutsideReal ==
  ASSUME PushTyped, CallsSound, CallsReal, Operator \/ Person \/ IndexerRemoves \/ Disconnect \/ UNCHANGED pushVars
  PROVE  CallsReal'
<1>1. CASE Operator \/ Person
  <2>1. ~met' => \A n \in DOMAIN calls : ~Under(calls[n])
    BY <1>1, ChangeSound DEF Operator, Person, browserVars, serverVars
  <2>2. calls' = calls
    BY <1>1 DEF Operator, Person
  <2>3. QED
    BY <2>1, <2>2 DEF CallsReal, CallReal, Under, Answering
<1>2. CASE IndexerRemoves
  <2>1. UNCHANGED <<calls, browserVars, key, crossed, met>>
        /\ \A row \in rows : row[1] = sub => row \in rows'
    BY <1>2 DEF IndexerRemoves, pastVars, world, Live
  <2>2. QED
    BY <2>1 DEF CallsReal, CallReal, SubIsCurrent, browserVars
<1>3. CASE Disconnect \/ UNCHANGED pushVars
  BY <1>3 DEF Disconnect, pushVars, CallsReal, CallReal, SubIsCurrent, browserVars, serverVars, pastVars, world
<1>4. QED
  BY <1>1, <1>2, <1>3

LEMMA RealStep ==
  ASSUME RealInv, [PushNext]_pushVars
  PROVE  CallsReal'
<1>1. CASE Connect
  <2>1. PICK to \in CallRow :
           /\ to.kind = "status" /\ to.at = "key" /\ to.owner = owner' /\ to.owner \in Wallet /\ to.here
           /\ to.since = changes /\ to.key = 0 /\ Begins(to)
    BY <1>1, ConnectIs DEF RealInv
  <2>2. UNCHANGED <<browserVars, serverVars, met>>
    BY <1>1 DEF Connect, world
  <2>3. QED
    BY <2>1, <2>2, BeginsReal DEF RealInv
<1>2. CASE Click
  <2>1. PICK to \in CallRow :
           /\ \/ to.kind = "enable" /\ to.at = "permission" /\ switch = "off"
              \/ to.kind = "disable" /\ to.at = "browser" /\ switch = "on"
           /\ to.owner = owner /\ to.owner \in Wallet /\ to.here
           /\ to.since = changes /\ to.key = 0 /\ Begins(to)
    BY <1>2, ClickIs DEF RealInv
  <2>2. UNCHANGED <<browserVars, serverVars, met>>
    BY <1>2 DEF Click, world
  <2>3. QED
    BY <2>1, <2>2, BeginsReal DEF RealInv
<1>3. QED
  BY <1>1, <1>2, ReloadReal, OutsideReal, OutcomeReal DEF PushNext, RealInv

\* What the page claims when its switch is on.
Claimed == owner # None /\ switch = "on" /\ answers.since = changes /\ ~met /\ owner \notin crossed

BeingDropped(n, wallet) == calls[n].at \in {"deleted", "undeleted"} /\ calls[n].owner = wallet

\* A step that leaves the switch as it was.
LEMMA OnKept ==
  ASSUME RealInv, OnStays, Claimed, NEW n \in DOMAIN calls, Step(n) \/ AskPermission(n),
         Under(calls[n]), DOMAIN calls' = DOMAIN calls, \A m \in DOMAIN calls : m # n => calls'[m] = calls[m],
         Under(calls'[n]) => Same(calls[n], calls'[n]), owner' = owner,
         answers'.accepted => answers.accepted, Deleted(n) => calls[n].owner # owner
  PROVE  OnStays'
<1>0. /\ SubIsCurrent /\ owner \in followed /\ owner \notin crossed /\ ~met
      /\ answers.accepted => <<sub, owner>> \in rows \/ \E m \in DOMAIN calls : BeingDropped(m, owner)
      /\ key' = key /\ calls \in Seq(CallRow) /\ calls[n] \in CallRow /\ calls[n].here
  BY StepsKeepKey, Knows, CallIs DEF OnStays, Claimed, BeingDropped, RealInv, PushTyped
<1>1. /\ UNCHANGED sub /\ madeWith'[sub] = madeWith[sub] /\ owner \in followed'
      /\ <<sub, owner>> \in rows /\ (DeleteRows(n) => calls[n].owner # owner) => <<sub, owner>> \in rows'
  BY <1>0, KeepsListed
<1>2. SubIsCurrent'
  BY <1>0, <1>1 DEF SubIsCurrent
<1>3. ASSUME answers.accepted
      PROVE  <<sub, owner>> \in rows' \/ \E m \in DOMAIN calls : calls'[m].at \in {"deleted", "undeleted"} /\ calls'[m].owner = owner
  <2>1. CASE DeleteRows(n) /\ calls[n].owner = owner
    <3>1. PICK at \in {"deleted", "undeleted"} : Goes(n, at)
      BY <1>0, <2>1 DEF DeleteRows, Tells
    <3>2. calls'[n].at = at
      BY <1>0, <3>1, GoesTo
    <3>3. calls'[n].owner = owner
      BY <2>1, <3>2 DEF Under, Same
    <3>4. QED
      BY <3>2, <3>3
  <2>2. CASE <<sub, owner>> \in rows /\ ~(DeleteRows(n) /\ calls[n].owner = owner)
    BY <1>1, <2>2
  <2>3. ASSUME NEW m \in DOMAIN calls, BeingDropped(m, owner)
        PROVE  \E k \in DOMAIN calls : calls'[k].at \in {"deleted", "undeleted"} /\ calls'[k].owner = owner
    <3>1. CASE m # n
      BY <2>3, <3>1 DEF BeingDropped
    <3>2. CASE m = n
      <4>1. calls[n].at \in {"deleted", "undeleted"} /\ calls[n].owner = owner
        BY <2>3, <3>2 DEF BeingDropped
      <4>2. Deleted(n)
        BY <4>1 DEF Step, AskPermission, ReadKey, CheckBrowser, EnableBrowser, ClearEndpoint, Replace, DisableBrowser,
             DeleteRows, LookUp, SaveRow, SubscribeAnswered
      <4>3. QED
        BY <4>1, <4>2
    <3>3. QED
      BY <3>1, <3>2
  <2>4. QED
    BY <1>0, <1>3, <2>1, <2>2, <2>3
<1>4. QED
  BY <1>1, <1>2, <1>3 DEF OnStays

AnsweredOn(n) ==
  /\ Answered(n, "on") /\ calls[n].at \in Answering /\ UNCHANGED <<sub, madeWith, rows>>
  /\ \/ calls[n].kind = "status" /\ followed' = followed
     \/ calls[n].kind = "enable" /\ calls[n].at = "accepted" /\ followed' = followed \cup {calls[n].owner}

\* Only an answer of the server's, or the want of one, turns the switch on.
LEMMA AnswerKinds ==
  ASSUME PushTyped, CallsSound, NEW n \in DOMAIN calls, Step(n) \/ AskPermission(n)
  PROVE  \/ UNCHANGED pageVars /\ ~Deleted(n)
         \/ (\E status \in Statuses \ {"on"} : Answered(n, status)) /\ ~Deleted(n)
         \/ AnsweredOn(n)
         \/ Deleted(n)
<1>0. calls[n] \in CallRow /\ CallSound(calls[n])
  BY CallIs DEF PushTyped, CallsSound
<1>1. CASE AskPermission(n)
  BY <1>1 DEF AskPermission, Deleted, Stays, Statuses, PushTyped
<1>2. CASE ReadKey(n)
  BY <1>2 DEF ReadKey, Deleted, Stays, Statuses
<1>3. CASE CheckBrowser(n)
  BY <1>3 DEF CheckBrowser, Deleted, Stays, Statuses
<1>4. CASE EnableBrowser(n)
  BY <1>4 DEF EnableBrowser, Subscribes, Deleted, Stays, Statuses
<1>5. CASE ClearEndpoint(n)
  BY <1>5 DEF ClearEndpoint, Deleted, Stays
<1>6. CASE Replace(n)
  BY <1>6 DEF Replace, Subscribes, Deleted, Stays, Statuses
<1>7. CASE DisableBrowser(n)
  BY <1>7 DEF DisableBrowser, Deleted, Stays, Statuses
<1>8. CASE DeleteRows(n) \/ LookUp(n) \/ SaveRow(n)
  BY <1>8 DEF DeleteRows, LookUp, SaveRow, Deleted, Stays
<1>9. CASE SubscribeAnswered(n)
  <2>1. calls[n].at \in Answering /\ UNCHANGED <<sub, madeWith, rows>> /\ ~Deleted(n) /\ calls[n].kind # "disable"
    BY <1>0, <1>9 DEF SubscribeAnswered, Answering, serverVars, Deleted, CallSound, Deleting
  <2>2. calls[n].kind # "status" => calls[n].kind = "enable"
    BY <1>0, <2>1 DEF CallRow
  <2>3. QED
    BY <1>9, <2>1, <2>2 DEF SubscribeAnswered, AnsweredOn, Statuses
<1>10. QED
  BY <1>1, <1>2, <1>3, <1>4, <1>5, <1>6, <1>7, <1>8, <1>9 DEF Step

LEMMA OnAnswered ==
  ASSUME RealInv, ~met, NEW n \in DOMAIN calls, AnsweredOn(n), key' = key,
         owner \notin crossed, owner' = owner, Lands(n, "on"), DOMAIN calls' = DOMAIN calls, Under(calls[n])
  PROVE  OnStays'
<1>1. owner = calls[n].owner
  <2>1. calls \in Seq(CallRow) /\ n # 0
    BY DEF RealInv, PushTyped
  <2>2. QED
    BY <2>1 DEF Lands, RealInv, Control, CheckSound
<1>2. CallReal(calls[n])
  BY DEF RealInv, CallsReal
<1>3. SubIsCurrent /\ calls[n].sub = sub /\ (calls[n].kind = "status" => owner \in followed)
      /\ (calls[n].at = "accepted" => <<sub, owner>> \in rows)
  BY <1>1, <1>2 DEF CallReal, AnsweredOn
<1>4. SubIsCurrent' /\ owner \in followed'
  BY <1>1, <1>3 DEF AnsweredOn, SubIsCurrent
<1>5. answers'.accepted => calls[n].at = "accepted"
  <2>1. answers' = [owner |-> calls[n].owner, since |-> calls[n].since, accepted |-> calls[n].at = "accepted"]
    BY DEF AnsweredOn, Answered
  <2>2. answers'.accepted = (calls[n].at = "accepted")
    BY <2>1, Zenon
  <2>3. QED
    BY <2>2
<1>6. answers'.accepted => <<sub', owner>> \in rows'
  BY <1>3, <1>5 DEF AnsweredOn
<1>7. QED
  BY <1>4, <1>6 DEF OnStays

\* An answer that does not land.
LEMMA AnswerPasses ==
  ASSUME PushTyped, NEW n \in DOMAIN calls, NEW status, Answered(n, status), ~Lands(n, status)
  PROVE  /\ switch' = switch /\ answers'.since = answers.since /\ owner' = owner /\ crossed' = crossed
         /\ answers'.accepted => answers.accepted /\ status # "failed"
<1>1. switch' = switch /\ answers' = [answers EXCEPT !.accepted = @ /\ status # "failed"]
      /\ owner' = owner /\ crossed' = crossed
  BY DEF Answered
<1>2. answers'.since = answers.since /\ answers'.accepted = (answers.accepted /\ status # "failed")
  BY <1>1 DEF PushTyped
<1>3. QED
  BY <1>1, <1>2, Zenon

LEMMA OnDropped ==
  ASSUME RealInv, OnStays, Claimed', NEW n \in DOMAIN calls, Deleted(n),
         Under(calls[n]), DOMAIN calls' = DOMAIN calls, \A m \in DOMAIN calls : m # n => calls'[m] = calls[m],
         Under(calls'[n]) => Same(calls[n], calls'[n]), crossed' = crossed
  PROVE  OnStays'
<1>0. Step(n) /\ UNCHANGED world
  BY StepsKeepKey DEF Step
<1>1. CASE Answered(n, "off")
  <2>1. ~Lands(n, "off")
    BY <1>1 DEF Answered, Claimed
  <2>2. Claimed /\ owner' = owner /\ (answers'.accepted => answers.accepted)
    BY <1>0, <1>1, <2>1, AnswerPasses DEF Claimed, world, RealInv
  <2>3. calls[n].kind = "disable"
    BY DEF Deleted, RealInv, CallsSound, CallSound, Deleting
  <2>4. calls[n].owner # owner
    BY <2>1, <2>3 DEF Lands
  <2>5. QED
    BY <1>0, <2>2, <2>4, OnKept
<1>2. CASE Answered(n, "failed") /\ UNCHANGED <<sub, followed>>
  <2>1. calls[n].kind = "disable"
    BY DEF Deleted, RealInv, CallsSound, CallSound, Deleting
  <2>2. ~Lands(n, "failed")
    BY <2>1 DEF Lands
  <2>3. Claimed /\ owner' = owner /\ ~answers'.accepted
    BY <1>0, <1>2, <2>2, AnswerPasses DEF Claimed, world, RealInv
  <2>4. SubIsCurrent /\ owner \in followed
    BY <2>3 DEF Claimed, OnStays
  <2>5. SubIsCurrent' /\ owner' \in followed'
    BY <1>2, <2>3, <2>4 DEF SubIsCurrent, Deleted, serverVars
  <2>6. QED
    BY <2>3, <2>5 DEF OnStays
<1>3. QED
  BY <1>1, <1>2 DEF Deleted

LEMMA OutcomeOn ==
  ASSUME RealInv, OnStays, NEW n \in DOMAIN calls, Step(n) \/ AskPermission(n)
  PROVE  OnStays'
<1>1. PICK to : Outcome(n, to)
  BY StepSound DEF RealInv
<1>2. /\ DOMAIN calls' = DOMAIN calls /\ \A m \in DOMAIN calls : m # n => calls'[m] = calls[m]
      /\ Under(calls[n]) /\ crossed' = crossed
      /\ Under(calls'[n]) => Same(calls[n], calls'[n])
  BY <1>1, OutcomeFacts DEF RealInv
<1>3. UNCHANGED world /\ key' = key /\ owner' = owner
  BY <1>1, StepsKeepKey DEF Outcome
<1>4. SUFFICES ASSUME Claimed' PROVE OnStays'
  BY DEF OnStays, Claimed
<1>5. CASE UNCHANGED pageVars /\ ~Deleted(n)
  <2>1. Claimed /\ answers' = answers
    BY <1>2, <1>3, <1>4, <1>5 DEF Claimed, pageVars, world
  <2>2. QED
    BY <1>2, <1>3, <1>5, <2>1, OnKept
<1>6. ASSUME NEW status \in Statuses, Answered(n, status), ~Lands(n, status), ~Deleted(n) PROVE OnStays'
  <2>1. Claimed /\ (answers'.accepted => answers.accepted)
    BY <1>2, <1>3, <1>4, <1>6, AnswerPasses DEF Claimed, RealInv, world
  <2>2. QED
    BY <1>2, <1>3, <1>6, <2>1, OnKept
<1>7. ASSUME NEW status \in Statuses \ {"on"}, Answered(n, status), ~Deleted(n) PROVE OnStays'
  <2>1. ~Lands(n, status)
    BY <1>4, <1>7 DEF Answered, Claimed
  <2>2. QED
    BY <1>6, <1>7, <2>1
<1>8. CASE AnsweredOn(n)
  <2>1. CASE Lands(n, "on")
    BY <1>2, <1>3, <1>4, <1>8, <2>1, OnAnswered DEF Claimed, world
  <2>2. CASE ~Lands(n, "on")
    <3>1. ~Deleted(n) /\ Answered(n, "on")
      BY <1>8 DEF AnsweredOn, Deleted, Answering
    <3>2. QED
      BY <1>6, <2>2, <3>1 DEF Statuses
  <2>3. QED
    BY <2>1, <2>2
<1>9. CASE Deleted(n)
  BY <1>2, <1>4, <1>9, OnDropped
<1>10. QED
  BY <1>5, <1>7, <1>8, <1>9, AnswerKinds DEF RealInv

LEMMA ClickOn ==
  ASSUME RealInv, OnStays, Click
  PROVE  OnStays'
<1>1. PICK to \in CallRow :
           /\ \/ to.kind = "enable" /\ to.at = "permission" /\ switch = "off"
              \/ to.kind = "disable" /\ to.at = "browser" /\ switch = "on"
           /\ to.owner = owner /\ to.owner \in Wallet /\ to.here
           /\ to.since = changes /\ to.key = 0 /\ Begins(to)
  BY ClickIs DEF RealInv
<1>2. /\ DOMAIN calls' = DOMAIN calls \cup {Len(calls) + 1}
      /\ \A m \in DOMAIN calls : calls'[m] = calls[m]
  BY <1>1, BegunCalls DEF RealInv, PushTyped, Begins
<1>3. crossed \subseteq crossed'
  BY <1>1, BeginsCrosses DEF RealInv
<1>4. UNCHANGED <<owner, switch, answers, sub, madeWith, followed, key, rows, changes, met>>
  BY DEF Click, browserVars, serverVars, world
<1>5. QED
  BY <1>2, <1>3, <1>4 DEF OnStays, SubIsCurrent

LEMMA OnStep ==
  ASSUME RealInv, OnStays, [PushNext]_pushVars
  PROVE  OnStays'
<1>1. CASE Connect \/ Reload
  BY <1>1 DEF Connect, Reload, OnStays
<1>2. CASE Disconnect
  BY <1>2 DEF Disconnect, OnStays
<1>3. CASE Operator \/ Person
  <2>1. answers' = answers /\ changes' = changes + 1
    BY <1>3 DEF Operator, Person, pageVars, Change
  <2>2. answers.since <= changes /\ answers.since \in Nat /\ changes \in Nat
    BY DEF RealInv, PushTyped
  <2>3. answers'.since # changes'
    BY <2>1, <2>2
  <2>4. QED
    BY <2>3 DEF OnStays
<1>4. CASE IndexerRemoves
  <2>1. UNCHANGED <<calls, owner, switch, answers, sub, madeWith, followed, key, crossed, changes, met>>
        /\ \A row \in rows : row[1] = sub => row \in rows'
    BY <1>4 DEF IndexerRemoves, pastVars, pageVars, browserVars, world, Live
  <2>2. QED
    BY <2>1 DEF OnStays, SubIsCurrent
<1>5. CASE UNCHANGED pushVars
  BY <1>5 DEF pushVars, pageVars, browserVars, serverVars, pastVars, world, OnStays, SubIsCurrent
<1>6. QED
  BY <1>1, <1>2, <1>3, <1>4, <1>5, ClickOn, OutcomeOn DEF PushNext

-----------------------------------------------------------------------------
LEMMA PushInitInv == PushInit => PushInv
<1> SUFFICES ASSUME PushInit PROVE PushInv
  OBVIOUS
<1>1. PushTyped /\ CallsSound
  BY PushInitHolds
<1>2. calls = <<>> /\ DOMAIN calls = {} /\ check = 0 /\ owner = None /\ turnedOff = {}
  BY DEF PushInit
<1>3. CheckSound /\ OneChange /\ Alone /\ SwitchIsOwners /\ DisableSound /\ OffSound /\ CallsReal /\ OnStays
  BY <1>2 DEF CheckSound, OneChange, Alone, SwitchIsOwners, DisableSound, OffSound, CallsReal, OnStays
<1>4. QED
  BY <1>1, <1>3 DEF PushInv

LEMMA PushStep ==
  ASSUME PushInv, [PushNext]_pushVars
  PROVE  PushInv'
<1>1. PushTyped /\ CallsSound /\ Control /\ OffInv /\ CallsReal /\ OnStays /\ RealInv
  BY DEF PushInv, Control, OffInv, RealInv
<1>2. PushTyped' /\ CallsSound'
  BY <1>1, PushTypedStep
<1>3. Control'
  BY <1>1, ControlStep
<1>4. OffInv'
  BY <1>1, OffStep
<1>5. CallsReal' /\ OnStays'
  BY <1>1, RealStep, OnStep
<1>6. QED
  BY <1>2, <1>3, <1>4, <1>5 DEF PushInv, Control, OffInv

LEMMA PushInvHolds == Spec => []PushInv
<1>1. Init => PushInv
  BY PushInitInv DEF Init
<1>2. PushInv /\ [Next]_vars => PushInv'
  <2> SUFFICES ASSUME PushInv, [Next]_vars PROVE PushInv'
    OBVIOUS
  <2>1. [PushNext]_pushVars
    BY DEF Next, vars
  <2>2. QED
    BY <2>1, PushStep
<1>3. QED
  BY <1>1, <1>2, PTL DEF Spec

(* The switch of notifications shows what was found out for the connected  *)
(* wallet; "on" means that this browser is subscribed, under the key the   *)
(* server signs with, and keeps the row the server said it has; and a      *)
(* wallet that was turned off here is pushed nothing (usePush.ts, push.ts, *)
(* routes/push.ts).                                                        *)
THEOREM SwitchIsTrue == Spec => []PushHolds
<1>1. PushInv => PushHolds
  <2> SUFFICES ASSUME PushInv PROVE PushTypeOK /\ SwitchIsOwners /\ OnIsReal /\ OffMeansNoPush
    BY DEF PushHolds
  <2>1. PushTypeOK /\ SwitchIsOwners
    BY DEF PushInv, PushTyped
  <2>2. OnIsReal
    <3>1. SUFFICES ASSUME owner # None, switch = "on", answers.since = changes, ~met, NobodyAt(owner), owner \notin crossed
                   PROVE  /\ sub # 0 /\ madeWith[sub] = key /\ owner \in followed
                          /\ answers.accepted => <<sub, owner>> \in rows
      BY DEF OnIsReal
    <3>2. \A n \in DOMAIN calls : ~(calls[n].at \in {"deleted", "undeleted"} /\ calls[n].owner = owner)
      BY <3>1 DEF NobodyAt, Under
    <3>3. QED
      BY <3>1, <3>2 DEF PushInv, OnStays, SubIsCurrent
  <2>3. OffMeansNoPush
    BY DEF PushInv, OffSound, OffTrue, OffMeansNoPush, Live, PushTyped, PushTypeOK, Row
  <2>4. QED
    BY <2>1, <2>2, <2>3
<1>2. QED
  BY <1>1, PushInvHolds, PTL
=============================================================================
