----------------------------- MODULE ShellCache -----------------------------
(***************************************************************************)
(* The service worker's cache of the app (apps/web/public/sw.js): a page   *)
(* and every file of its build, refreshed behind each visit while deploys  *)
(* take the files of older versions off the server; and the page's one     *)
(* reload when a lazy screen is gone (lib/staleBuild.ts).                  *)
(*                                                                         *)
(* A version is a number, and so is its list of files (shell.json): a list *)
(* that names a page's own script is of the same version.                  *)
(***************************************************************************)
EXTENDS Naturals, FiniteSets

CONSTANTS
  MaxVersion,     \* bound: deploys
  MaxHitches,     \* bound: failed requests, killed workers, dropped caches
  Refreshes       \* bound: refreshes of the shell at one time, 1 .. n

ASSUME ShellBounds == {MaxVersion, MaxHitches} \subseteq Nat

VARIABLES
  deployed,       \* the version on the server
  cachedPage,     \* the version of the page in the cache; 0: none
  cachedList,     \* the version of the list stored with it; 0: none
  cachedFiles,    \* the files in the cache
  refresh,        \* the refreshes under way
  tab,            \* what the tab that is followed draws and shows
  before,         \* history: the page the last switch replaced, if its list was known
  reloads,        \* history: how often each version reloaded the tab by itself, since
                  \* what a load would draw last changed
  raced,          \* history: two refreshes switched, or stored different versions, at once
  torn,           \* history: a worker was killed between the list and its page
  hitched,        \* history: something failed since the last deploy
  hitches         \* bound

cacheVars == <<cachedPage, cachedList, cachedFiles, before>>
shellVars == <<deployed, cacheVars, refresh, tab, reloads, raced, torn, hitched, hitches>>

Version == 1 .. MaxVersion

\* What a build makes: an entry script the page names, and a lazy screen that an odd
\* version shares with the one after it.
Script(v) == <<"entry", v>>
Screen(v) == <<"lazy", (v + 1) \div 2>>
Build(v)  == IF v = 0 THEN {} ELSE {Script(v), Screen(v)}

Served(file) == file \in Build(deployed)

\* `current`: the list of the version it replaces.
NoRefresh == [at |-> "idle", page |-> 0, list |-> 0, todo |-> {}, current |-> 0]

ShellInit ==
  /\ deployed = 1
  /\ cachedPage = 0 /\ cachedList = 0 /\ cachedFiles = {} /\ before = 0
  /\ refresh = [r \in Refreshes |-> NoRefresh]
  /\ tab = [draws |-> 0, screen |-> "list", reloadedFor |-> 0]
  /\ reloads = [v \in Version |-> 0]
  /\ raced = FALSE /\ torn = FALSE /\ hitched = FALSE /\ hitches = 0

Hitch == hitches < MaxHitches /\ hitches' = hitches + 1 /\ hitched' = TRUE
Fine  == UNCHANGED <<hitches, hitched>>

Idle(r)    == refresh[r].at = "idle"
Storing(r) == refresh[r].at \in {"adding", "listed", "paged"}
Becomes(r, to) == refresh' = [refresh EXCEPT ![r] = to]

-----------------------------------------------------------------------------
\* shellResponse: the cached page at once and a newer one behind it; without one the
\* server's, which the worker, or its installation, then stores.
Shell == IF cachedPage = 0 THEN deployed ELSE cachedPage

Uncounted == [v \in Version |-> 0]

Deploy ==
  /\ deployed < MaxVersion
  /\ deployed' = deployed + 1
  /\ hitched' = FALSE
  /\ reloads' = IF cachedPage = 0 THEN Uncounted ELSE reloads
  /\ UNCHANGED <<cacheVars, refresh, tab, raced, torn, hitches>>

Behind(r) ==
  /\ Idle(r) /\ \A s \in Refreshes : s < r => ~Idle(s)
  /\ \E page \in IF cachedPage = 0 THEN {0, deployed} ELSE {0} :
       Becomes(r, [NoRefresh EXCEPT !.at = "fetching", !.page = page])

\* A visit in the tab, or in another one that is not followed.
Visit(r) ==
  /\ Behind(r)
  /\ tab' \in {tab, [tab EXCEPT !.draws = Shell, !.screen = "list"]}
  /\ UNCHANGED <<deployed, cacheVars, reloads, raced, torn>> /\ Fine

\* assetResponse: from the cache, else from the server and into the cache.
Opens ==
  LET file == Screen(tab.draws) IN
    /\ tab.draws # 0 /\ tab.screen = "list"
    /\ file \in cachedFiles \/ Served(file)
    /\ tab' = [tab EXCEPT !.screen = "lazy"]
    /\ cachedFiles' = cachedFiles \cup {file}
    /\ UNCHANGED <<deployed, cachedPage, cachedList, before, refresh, reloads, raced, torn>> /\ Fine

Missing ==
  /\ tab.draws # 0 /\ tab.screen = "list"
  /\ Screen(tab.draws) \notin cachedFiles
  /\ \/ ~Served(Screen(tab.draws)) /\ Fine
     \/ Hitch

\* reloadIsDue: one reload for a version, remembered by the tab; after it the error stays.
ReloadDue == tab.reloadedFor # tab.draws

RememberedNothing == tab.reloadedFor

Remembered == tab.draws

Reloads(r) ==
  /\ Missing /\ ReloadDue /\ Behind(r)
  /\ tab' = [draws |-> Shell, screen |-> "list", reloadedFor |-> Remembered]
  /\ reloads' = [reloads EXCEPT ![tab.draws] = @ + 1]
  /\ UNCHANGED <<deployed, cacheVars, raced, torn>>

ShowsError ==
  /\ Missing /\ ~ReloadDue
  /\ tab' = [tab EXCEPT !.screen = "error"]
  /\ UNCHANGED <<deployed, cacheVars, refresh, reloads, raced, torn>>

-----------------------------------------------------------------------------
\* The page and the list are asked for at once and answered in either order; a list that
\* does not come is no list, a page that does not come ends the refresh.
FetchPage(r) ==
  /\ refresh[r].at \in {"fetching", "list"} /\ refresh[r].page = 0
  /\ \/ Becomes(r, [refresh[r] EXCEPT !.page = deployed]) /\ Fine
     \/ Becomes(r, NoRefresh) /\ Hitch
  /\ UNCHANGED <<deployed, cacheVars, tab, reloads, raced, torn>>

FetchList(r) ==
  /\ refresh[r].at = "fetching"
  /\ \/ Becomes(r, [refresh[r] EXCEPT !.at = "list", !.list = deployed]) /\ Fine
     \/ Becomes(r, [refresh[r] EXCEPT !.at = "list"]) /\ Hitch
  /\ UNCHANGED <<deployed, cacheVars, tab, reloads, raced, torn>>

BelongsUnread(page, list) == TRUE

BelongsToCached(page, list) == list \in {0, cachedPage}

\* A list that does not name the page's own files is of another deploy.
Belongs(page, list) == list \in {0, page}

FilesOf(page, list) == {Script(page)} \cup Build(list)

StartStore(r) ==
  /\ refresh[r].at = "list" /\ refresh[r].page # 0
  /\ Becomes(r, IF Belongs(refresh[r].page, refresh[r].list)
                THEN [refresh[r] EXCEPT !.at = "adding",
                        !.todo = FilesOf(refresh[r].page, refresh[r].list) \ cachedFiles]
                ELSE NoRefresh)
  /\ raced' = (raced \/ \E s \in Refreshes : Storing(s) /\ refresh[s].page # refresh[r].page)
  /\ UNCHANGED <<deployed, cacheVars, tab, reloads, torn>> /\ Fine

\* A file that a deploy has taken off the server ends the refresh.
AddFile(r) ==
  /\ refresh[r].at = "adding"
  /\ \E file \in refresh[r].todo :
       \/ /\ Served(file)
          /\ cachedFiles' = cachedFiles \cup {file}
          /\ Becomes(r, [refresh[r] EXCEPT !.todo = @ \ {file}]) /\ Fine
       \/ /\ ~Served(file)
          /\ Becomes(r, NoRefresh) /\ Fine /\ UNCHANGED cachedFiles
       \/ Becomes(r, NoRefresh) /\ Hitch /\ UNCHANGED cachedFiles
  /\ UNCHANGED <<deployed, cachedPage, cachedList, before, tab, reloads, raced, torn>>

\* The list goes first, and none takes the place of one that is not known.
WriteList(r) ==
  /\ refresh[r].at = "adding" /\ refresh[r].todo = {}
  /\ IF refresh[r].page = cachedPage
     THEN /\ cachedList' = IF refresh[r].list = 0 THEN cachedList ELSE refresh[r].list
          /\ Becomes(r, NoRefresh)
     ELSE /\ cachedList' = refresh[r].list
          /\ Becomes(r, [refresh[r] EXCEPT !.at = "listed",
                           !.current = IF cachedPage = 0 THEN 0 ELSE cachedList])
  /\ raced' = (raced \/ \E s \in Refreshes : refresh[s].at \in {"listed", "paged"})
  /\ UNCHANGED <<deployed, cachedPage, cachedFiles, before, tab, reloads, torn>> /\ Fine

\* What may be dropped is known only with both lists, or without a version to keep.
Drops(r) == refresh[r].list # 0 /\ (refresh[r].current # 0 \/ cachedPage = 0)

WritePage(r) ==
  /\ refresh[r].at = "listed"
  /\ cachedPage' = refresh[r].page
  /\ before' = IF refresh[r].current # 0 THEN cachedPage ELSE 0
  /\ Becomes(r, IF Drops(r) THEN [refresh[r] EXCEPT !.at = "paged"] ELSE NoRefresh)
  /\ reloads' = Uncounted
  /\ UNCHANGED <<deployed, cachedList, cachedFiles, tab, raced, torn>> /\ Fine

KeptNew(r) == FilesOf(refresh[r].page, refresh[r].list)

\* Only the files of the versions before the one just replaced.
Kept(r) == FilesOf(refresh[r].page, refresh[r].list) \cup Build(refresh[r].current)

Prune(r) ==
  /\ refresh[r].at = "paged"
  /\ cachedFiles' = cachedFiles \cap Kept(r)
  /\ Becomes(r, NoRefresh)
  /\ UNCHANGED <<deployed, cachedPage, cachedList, before, tab, reloads, raced, torn>> /\ Fine

-----------------------------------------------------------------------------
\* The browser ends a worker whenever it likes, ...
Killed(r) ==
  /\ ~Idle(r) /\ Hitch
  /\ Becomes(r, NoRefresh)
  /\ torn' = (torn \/ refresh[r].at = "listed")
  /\ UNCHANGED <<deployed, cacheVars, tab, reloads, raced>>

\* ... and drops the cache of a site that it needs the space of.
Evicted ==
  /\ Hitch
  /\ cachedPage # 0 /\ \A r \in Refreshes : ~Storing(r)
  /\ cachedPage' = 0 /\ cachedList' = 0 /\ cachedFiles' = {} /\ before' = 0
  /\ reloads' = Uncounted
  /\ UNCHANGED <<deployed, refresh, tab, raced, torn>>

Refreshing(r) ==
  FetchPage(r) \/ FetchList(r) \/ StartStore(r) \/ AddFile(r) \/ WriteList(r) \/ WritePage(r) \/ Prune(r)

\* Nothing is promised, and nothing followed, from a race of two refreshes on.
ShellNext ==
  /\ ~raced
  /\ \/ Deploy \/ Evicted \/ Opens \/ ShowsError
     \/ \E r \in Refreshes : Refreshing(r) \/ Killed(r) \/ Visit(r) \/ Reloads(r)

-----------------------------------------------------------------------------
\* A cached page is never a blank screen, nor does its first click break: its script is
\* cached with it, and its lazy screens too when it came with its list.
PageWhole ==
  cachedPage # 0 /\ ~raced =>
    /\ Script(cachedPage) \in cachedFiles
    /\ cachedList = cachedPage => Build(cachedPage) \subseteq cachedFiles

\* A tab that draws the version the last switch replaced can still open its screens.
TabKeepsScreens ==
  tab.draws = before /\ before # 0 /\ ~raced /\ ~torn => Build(before) \subseteq cachedFiles

\* No page that reloads itself forever: while a load draws the same version, every version
\* reloads the tab at most once, whatever fails and however often the person comes back. The
\* tab remembers one version only, so a switch of the cache begins anew.
ReloadsOnce == ~raced => \A v \in Version : reloads[v] <= 1

\* The refresh behind a visit brings the last version, if nothing fails it.
NewestComes ==
  (/\ deployed = MaxVersion /\ ~hitched
   /\ \E r \in Refreshes : refresh[r] = [NoRefresh EXCEPT !.at = "fetching"]) ~>
    (cachedPage = MaxVersion \/ hitched \/ raced)

-----------------------------------------------------------------------------
(***************************************************************************)
(* Why the cache holds.                                                    *)
(***************************************************************************)

ShellTypeOK ==
  /\ deployed \in Nat \ {0} /\ {cachedPage, cachedList, before} \subseteq Nat
  /\ refresh \in [Refreshes -> [at : {"idle", "fetching", "list", "adding", "listed", "paged"},
                                page : Nat, list : Nat, todo : SUBSET ({"entry", "lazy"} \X Nat), current : Nat]]
  /\ tab \in [draws : Nat, screen : {"list", "lazy", "error"}, reloadedFor : Nat]
  /\ reloads \in [Version -> Nat] /\ raced \in BOOLEAN /\ torn \in BOOLEAN

Files(r)     == FilesOf(refresh[r].page, refresh[r].list)
Switching(r) == refresh[r].at \in {"listed", "paged"}

\* All that is stored at one time is of one version, and one refresh at a time switches to it.
OneStored ==
  /\ \A r, s \in Refreshes : Storing(r) /\ Storing(s) => refresh[r].page = refresh[s].page
  /\ \A r, s \in Refreshes : Switching(r) /\ Switching(s) => r = s

\* What a refresh has stored stays until it is done.
HeldBy(r) ==
  /\ Storing(r) => refresh[r].page # 0 /\ refresh[r].list \in {0, refresh[r].page}
  /\ refresh[r].at = "adding" => Files(r) \subseteq cachedFiles \cup refresh[r].todo
  /\ Switching(r) => Files(r) \subseteq cachedFiles /\ cachedList = refresh[r].list
  /\ refresh[r].at = "paged" =>
       cachedPage = refresh[r].page /\ refresh[r].list # 0 /\ (~torn => before = refresh[r].current)
  /\ refresh[r].at = "listed" =>
       /\ cachedPage # refresh[r].page
       /\ refresh[r].current # 0 /\ ~torn =>
            refresh[r].current = cachedPage /\ Build(cachedPage) \subseteq cachedFiles

StoredStays == \A r \in Refreshes : HeldBy(r)

\* Between two switches the stored list, if there is one, is the stored page's.
ListIsPages ==
  ~torn /\ (\A r \in Refreshes : refresh[r].at # "listed") => cachedList \in {0, cachedPage}

\* The version before the current one is still whole.
BeforeWhole == ~torn /\ before # 0 => Build(before) \subseteq cachedFiles

\* After a reload the tab draws what a load draws, and remembers if that reloaded it, too.
ReloadsEnd ==
  \A v \in Version :
    /\ reloads[v] <= 1
    /\ reloads[v] # 0 => tab.draws = Shell /\ (v = Shell => tab.reloadedFor = v)

ShellInv ==
  /\ ShellTypeOK
  /\ ~raced => OneStored /\ StoredStays /\ ListIsPages /\ BeforeWhole /\ ReloadsEnd /\ PageWhole
=============================================================================
