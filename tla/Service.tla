------------------------------ MODULE Service ------------------------------
(***************************************************************************)
(* The API as a service: its processes from start to exit (ApiProcess),    *)
(* and what one of them asks of a request before a route sees it (Gate).   *)
(* The windows and the nonces live in one process's memory and neither     *)
(* looks at the other, so a behaviour follows one part.                    *)
(***************************************************************************)
EXTENDS ApiProcess, Gate

VARIABLE scene      \* which part is followed

vars == <<processVars, gateVars, scene>>

Init == ProcessInit /\ GateInit /\ scene \in {"process", "limit", "merchant"}

Next ==
  /\ \/ scene = "process" /\ ProcessNext /\ UNCHANGED gateVars
     \/ scene = "limit" /\ LimitNext /\ UNCHANGED processVars
     \/ scene = "merchant" /\ SignInNext /\ UNCHANGED processVars
  /\ UNCHANGED scene

\* A process works on; its clients, its host and its indexer's luck are their own.
Fairness == \A p \in Starts : WF_processVars(Works(p))

Spec == Init /\ [][Next]_vars /\ Fairness

-----------------------------------------------------------------------------
\* Starts that overlap leave one schema, and nothing runs on an older one.
SchemaHolds == AppliedOnce /\ NeverOnOlder

\* The limit and the sign-in let in who they should, once.
GateHolds == NeverOverLimit /\ RetryKept /\ OneTokenEach /\ NamedByOwner

\* Starts end, and so do stops.
ProcessesEnd == EveryStartEnds /\ StopsEnd
=============================================================================
