------------------------------ MODULE Browser ------------------------------
(***************************************************************************)
(* What a browser keeps of this site between two visits, and keeps true    *)
(* while the site changes: its push subscription (PushSettings) and its    *)
(* copy of the app (ShellCache). They share no state, so a behaviour       *)
(* follows one of them.                                                    *)
(***************************************************************************)
EXTENDS PushSettings, ShellCache

VARIABLE scene      \* which of them is followed

vars == <<pushVars, shellVars, scene>>

Init ==
  /\ PushInit /\ ShellInit
  /\ scene \in {"push", "shell"}
  /\ scene = "shell" => rows = {}      \* one start is enough for the cache

Next ==
  /\ \/ scene = "push" /\ PushNext /\ UNCHANGED shellVars
     \/ scene = "shell" /\ ShellNext /\ UNCHANGED pushVars
  /\ UNCHANGED scene

\* The page, the server and the worker take a step that waits for no person.
Fairness ==
  /\ WF_pushVars(\E n \in DOMAIN calls : Step(n))
  /\ WF_shellVars(\E r \in Refreshes : Refreshing(r))

Spec == Init /\ [][Next]_vars /\ Fairness

-----------------------------------------------------------------------------
\* What the push switch shows is true of the wallet it is shown to.
PushHolds == PushTypeOK /\ SwitchIsOwners /\ OnIsReal /\ OffMeansNoPush

\* What the worker keeps can be opened, and does not make a page reload for ever.
ShellHolds == PageWhole /\ TabKeepsScreens /\ ReloadsOnce

\* Every switch is answered and the newest build arrives.
BrowserSettles == SwitchAnswered /\ NewestComes
=============================================================================
