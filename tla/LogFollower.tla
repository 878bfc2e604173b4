---------------------------- MODULE LogFollower ----------------------------
(***************************************************************************)
(* What an indexer of the program's history promises, whatever it reads it *)
(* through: after its anchor it takes every transaction in order, each     *)
(* into the feed or into a report of what was not indexed. Nothing is      *)
(* passed over in silence, and nothing indexed is ever taken back.         *)
(***************************************************************************)
EXTENDS Naturals

CONSTANTS MaxTx, InitialTx

VARIABLES
  landed,    \* the newest transaction of the history
  base,      \* the anchor: what lies before it is not asked for
  indexed,   \* transactions in the feed
  reported   \* transactions reported as not indexed

logVars == <<landed, base, indexed, reported>>

Tx == 1 .. MaxTx

Init ==
  /\ landed = InitialTx /\ base = InitialTx
  /\ indexed = {} /\ reported = {}

\* All of the history after the anchor and before t has been taken.
ReachedUpTo(t) ==
  \A u \in Tx : base < u /\ u < t => u \in indexed \cup reported

Grow ==
  /\ landed < MaxTx
  /\ landed' = landed + 1
  /\ UNCHANGED <<base, indexed, reported>>

\* With an empty feed the follower may anchor at the newest transaction (again).
AnchorAgain ==
  /\ indexed = {}
  /\ base' = landed
  /\ UNCHANGED <<landed, indexed, reported>>

\* The next transaction enters the feed, or one reported earlier does after all.
Index(t) ==
  /\ base < t /\ t <= landed
  /\ ReachedUpTo(t)
  /\ indexed' = indexed \cup {t}
  /\ reported' = reported \ {t}
  /\ UNCHANGED <<landed, base>>

\* The next stretch of the history, first .. final, is reported as not indexed.
Report(first, final) ==
  /\ base < first /\ final <= landed
  /\ ReachedUpTo(first)
  /\ reported' = reported \cup ((first .. final) \ indexed)
  /\ UNCHANGED <<landed, base, indexed>>

Next ==
  \/ Grow
  \/ AnchorAgain
  \/ \E t \in Tx : Index(t)
  \/ \E first, final \in Tx : Report(first, final)

Spec == Init /\ [][Next]_logVars
=============================================================================
