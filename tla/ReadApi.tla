------------------------------ MODULE ReadApi ------------------------------
(***************************************************************************)
(* How a permission is read and shown: packages/chain decode.ts and        *)
(* read.ts, the API's reconciliation with its cached row, and what the     *)
(* card of apps/web says of the answer. Every part is a pure operator; the *)
(* modules that read choose which versions the node answers with.          *)
(***************************************************************************)
EXTENDS Program

Forms == {"current", "unknown", "badFields"}       \* kind, length or version; a field's value
Rows  == {"none", "active", "paused", "revoked"}   \* the status of the cached row

NotFound   == [known |-> "notFound"]
Failed(e)  == [known |-> "unreadable", reason |-> e]

-----------------------------------------------------------------------------
\* decode.ts, read.ts: one account, the plan read after it, the authority after that.
\* An upgrade of the program may give the account a form this build does not know.
DecodeDelegation(a, form) == IF form = "unknown" THEN "unknown" ELSE a.kind

\* A subscription's mint is its plan's: found at the address it names, or nowhere.
HasPlanRef(p) == p.terms # 0

UnreadableReason(a, p, form) ==
  LET kind == DecodeDelegation(a, form)
  IN CASE kind = "unknown" -> "unknown"
       [] kind = "subscription" /\ ~HasPlanRef(p) -> "plan"
       [] kind # "unknown" /\ (kind = "subscription" => HasPlanRef(p)) ->
            IF form = "badFields" THEN "fields" ELSE "none"

AuthorityState(a, g) == IF g = 0 THEN "closed" ELSE IF g = a.gen THEN "live" ELSE "rotated"

DeriveStatusEnding(a, at) ==
  IF a.until # None \/ (a.kind = "fixed" /\ a.cap = 0) THEN "exhausted" ELSE "active"

DeriveStatus(a, at) ==
  IF (a.until # None /\ a.until <= at) \/ (a.kind = "fixed" /\ a.cap = 0)
  THEN "exhausted" ELSE "active"

ToAllowance(a, at) ==
  [known   |-> "read",
   kind    |-> a.kind,
   status  |-> DeriveStatus(a, at),
   cap     |-> a.cap,
   used    |-> IF a.kind = "fixed" THEN 0 ELSE a.spent,
   started |-> IF a.kind = "fixed" THEN None ELSE a.start,
   ends    |-> IF a.kind = "subscription" THEN a.until ELSE None,
   at      |-> at]

Convert(a, p, g, form, at) ==
  IF UnreadableReason(a, p, form) # "none" THEN Failed(UnreadableReason(a, p, form))
  ELSE IF AuthorityState(a, g) = "live" THEN ToAllowance(a, at)
  ELSE [ToAllowance(a, at) EXCEPT !.status = "revoked"]

ReadAllowance(a, p, g, form, at) ==
  IF a.kind = "absent" THEN NotFound ELSE Convert(a, p, g, form, at)

\* The API: the network wins, the row adds `paused` and the memory of what is gone.
Reconcile(row, chain) ==
  CASE chain.known = "notFound" ->
         IF row = "none" THEN NotFound ELSE [known |-> "absent", status |-> "revoked"]
    [] chain.known = "unreadable" -> chain
    [] chain.known = "read" ->
         IF row = "paused" /\ chain.kind = "subscription" /\ chain.status = "active"
         THEN [chain EXCEPT !.status = "paused"] ELSE chain

\* Everything one request may answer: the requests to the node are separate.
Answers == {Reconcile(row, ReadAllowance(a, p, g, form, now)) :
             row \in Rows, a \in recent.acct, p \in recent.plan, g \in recent.auth, form \in Forms}

-----------------------------------------------------------------------------
\* The browser. revoke.ts: what cancelling means, by the browser's clock.
RevokeAction(allowance, clock) ==
  CASE allowance.kind # "subscription" -> "close"
    [] allowance.kind = "subscription" /\ allowance.ends = None -> "cancel"
    [] allowance.kind = "subscription" /\ allowance.ends # None ->
         IF allowance.ends <= clock THEN "close" ELSE "wait"

\* `told`: the charges that had landed when it was told.
NoWindow == [ends |-> 0, from |-> 0, charged |-> 0, left |-> 0, told |-> 0]

CancelWindowOldFigures(allowance, clock) ==
  LET from == allowance.started + ((clock - allowance.started) \div Period) * Period
      left == allowance.cap - allowance.used
  IN [ends |-> from + Period, from |-> from, charged |-> allowance.used,
      left |-> IF left > 0 THEN left ELSE 0, told |-> Len(pulls)]

CancelWindow(allowance, clock) ==
  LET elapsed == (IF clock > allowance.started THEN clock - allowance.started ELSE 0) \div Period
      from    == allowance.started + elapsed * Period
      charged == IF elapsed = 0 THEN allowance.used ELSE 0
      left    == allowance.cap - charged
  IN [ends |-> from + Period, from |-> from, charged |-> charged,
      left |-> IF left > 0 THEN left ELSE 0, told |-> Len(pulls)]

\* view.ts, what the card says of the next charge. The chain holds no such date.
NextChargeAt(allowance) ==
  IF allowance.status # "active" \/ allowance.ends # None \/ allowance.started = None
  THEN None ELSE allowance.started + Period

NextCharge(allowance) ==
  CASE allowance.status \in {"revoked", "exhausted"} -> "never"
    [] allowance.status = "paused" -> "nothing scheduled"
    [] allowance.status = "active" ->
         IF allowance.ends # None THEN "none, it ends"
         ELSE IF allowance.started = None THEN "any time"
         ELSE IF NextChargeAt(allowance) <= allowance.at THEN "any time now" ELSE "dated"

\* The figures of the confirmation and of a cancelled subscription that still runs.
Window(allowance) ==
  IF allowance.kind = "subscription" /\ allowance.status = "active"
  THEN CancelWindow(allowance, allowance.at) ELSE NoWindow

\* AllowanceCard: what is gone or stopped already has nothing to sign.
Offered(allowance) ==
  IF allowance.status = "revoked" THEN "none" ELSE RevokeAction(allowance, allowance.at)

NoCard == [next |-> "nothing", action |-> "none", ends |-> None, window |-> NoWindow, pulls |-> 0]

\* What is on the screen, with the number of charges that had landed by then.
Card(answer) ==
  CASE answer.known \in {"notFound", "unreadable"} -> [NoCard EXCEPT !.pulls = Len(pulls)]
    [] answer.known = "absent" -> [NoCard EXCEPT !.next = "never", !.pulls = Len(pulls)]
    [] answer.known = "read" ->
         [next |-> NextCharge(answer),
          action |-> Offered(answer),
          ends |-> answer.ends, window |-> Window(answer), pulls |-> Len(pulls)]
=============================================================================
