------------------------------ MODULE History ------------------------------
(***************************************************************************)
(* What the page tells of a wallet: the list of its permissions            *)
(* (WalletList), and the history of one of them, from what the indexer     *)
(* makes of a transaction (Decoder) to the pages of the events it stored,  *)
(* cut and pruned (Feed). None of the three depends on what another says,  *)
(* so a behaviour follows one of them.                                     *)
(***************************************************************************)
EXTENDS Decoder, Feed, WalletList

VARIABLE part       \* which of them is followed

historyVars == <<decodeVars, feedVars, listVars, part>>

HistoryInit ==
  /\ DecodeInit /\ FeedInit /\ ListInit
  /\ part \in {"decode", "pages", "cuts", "list"}
  /\ part \notin {"pages", "cuts"} => start = 1   \* one start of the others is enough
  /\ part # "decode" => chain.kind = "subscription"
  /\ part # "list" => net["a"].has

\* Passes of two workers overlap where nobody reads: to a reader they are one that takes
\* more batches, and one that finds nothing to delete is none.
OneAtATime == \A v, w \in Worker : pass[v] # Idle /\ pass[w] # Idle => v = w
Cuts == \A w \in Worker : pass[w] = Idle /\ pass'[w] # Idle => \E i \in stored : Event(i).at < day - Days

HistoryNext ==
  /\ \/ part = "decode" /\ DecodeNext /\ UNCHANGED <<feedVars, listVars>>
     \/ part = "pages" /\ FeedNext /\ OneAtATime' /\ Cuts /\ UNCHANGED <<decodeVars, listVars>>
     \/ part = "cuts" /\ FeedNext /\ UNCHANGED <<pageVars, decodeVars, listVars>>
     \/ part = "list" /\ ListNext /\ UNCHANGED <<decodeVars, feedVars>>
  /\ UNCHANGED part

HistorySpec == HistoryInit /\ [][HistoryNext]_historyVars

Symmetry == Permutations(Worker)
-----------------------------------------------------------------------------
\* Nothing in the events of a transaction is wrong, and nothing of it is left out unsaid.
EventsTrue == part = "decode" =>
  /\ FeedTellsChain /\ ChargesAsTaken
  /\ ReasonTrue /\ RefusalKept /\ RevocationNamed

\* The pages one reader is given, and what the worker leaves to be read.
PagesTrue == part \in {"pages", "cuts"} =>
  /\ NoneTwice /\ NothingSkipped /\ OnlyCurrent /\ EndNamed /\ NothingOlderKept

\* What the page says of the list of a wallet.
ScreenTrue == part = "list" => ListHolds
=============================================================================
