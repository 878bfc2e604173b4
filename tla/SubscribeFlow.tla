--------------------------- MODULE SubscribeFlow ---------------------------
(***************************************************************************)
(* Subscribing to a plan, apps/web lib/subscribeReview.ts and              *)
(* chain/subscribe.tsx over packages/chain plan.ts and subscribe.ts: the   *)
(* offer is read and shown with the transaction it stands for, read again  *)
(* at the click, signed only if it is still the same, and confirmed by the *)
(* account's existence. The merchant and the subscriber's other wallets    *)
(* act in between.                                                         *)
(***************************************************************************)
EXTENDS ReadApi

CONSTANTS
  ConfirmAttempts,   \* CONFIRM_ATTEMPTS, above zero
  CachedRows         \* of Rows: what the store may hold of the subscription's address

VARIABLES
  review,     \* what is on the screen
  flow,       \* the one subscription that may run
  checked     \* ghost: the chain as the last check found it

vars == <<chainVars, review, flow, checked>>

Clocks == now - 1 .. now + 1
Working == {"checking", "preparing", "signing", "confirming"}

NoReview == [terms |-> 0, ends |-> None, lists |-> 0, gen |-> 0, blocked |-> "missing"]
NoCheck == [plan |-> NoPlan, acct |-> Absent, auth |-> 0, at |-> 0]
Idle == [step |-> "idle", shown |-> NoReview, tx |-> 0, attempt |-> 0]

-----------------------------------------------------------------------------
\* plans.ts and what it reads: the plan, and the subscriber's side of it.
SubscriberState(a, g) ==
  [initId |-> g, tokenAccount |-> purse # NoAccount, subscribed |-> a.kind # "absent"]
PlanView(p, a, g) == [plan |-> p, subscriber |-> SubscriberState(a, g)]
PlanViews == {PlanView(p, a, g) : p \in recent.plan, a \in recent.acct, g \in recent.auth}

\* reviewSubscription: why there is nothing to sign, or what the instructions to sign say.
BlockForUnended(view, clock) ==
  LET p == view.plan  s == view.subscriber
  IN IF p.sunset THEN "sunset" ELSE IF s.subscribed THEN "subscribed"
     ELSE IF s.initId = 0 /\ ~s.tokenAccount THEN "no-token-account" ELSE "none"

BlockFor(view, clock) ==
  LET p == view.plan  s == view.subscriber
  IN CASE p.sunset -> "sunset"
       [] ~p.sunset /\ p.ends # None /\ p.ends <= clock -> "ended"
       [] ~p.sunset /\ (p.ends = None \/ p.ends > clock) ->
            IF s.subscribed THEN "subscribed"
            ELSE IF s.initId = 0 /\ ~s.tokenAccount THEN "no-token-account" ELSE "none"

\* An authority that the transaction creates has no initId to name yet.
SubscribeInstruction(p, gen) == [name |-> "subscribe", terms |-> p.terms, gen |-> gen]
Instructions(view) ==
  LET initId == view.subscriber.initId
  IN IF initId = 0 THEN <<[name |-> "initAuthority"], SubscribeInstruction(view.plan, 0)>>
     ELSE <<SubscribeInstruction(view.plan, initId)>>
ReadBounds(instructions) ==
  [terms |-> instructions[Len(instructions)].terms, gen |-> instructions[Len(instructions)].gen]

Review(view, clock) ==
  LET bounds == ReadBounds(Instructions(view))
  IN IF view.plan.terms = 0 THEN NoReview
     ELSE [terms |-> bounds.terms, gen |-> bounds.gen, ends |-> view.plan.ends,
           lists |-> view.plan.lists, blocked |-> BlockFor(view, clock)]

SameTerms(before, fresh) == before.terms = fresh.terms /\ before.gen = fresh.gen

\* recheckOffer: the same bounds, and the same of what the signature does not bind.
Same(before, fresh) == before = fresh

Outcome(step) ==
  [Idle EXCEPT !.step = step, !.tx = flow.tx, !.shown = IF flow.tx = 0 THEN NoReview ELSE flow.shown]

Recheck(before, fresh) ==
  CASE fresh.blocked # "none" -> Outcome("stopped")
    [] fresh.blocked = "none" /\ ~Same(before, fresh) -> Outcome("stopped")
    [] fresh.blocked = "none" /\ Same(before, fresh) -> [flow EXCEPT !.step = "preparing"]

-----------------------------------------------------------------------------
Init ==
  /\ now = 1
  /\ acct = Absent
  /\ plan = Offer(1, None, FALSE, 0)
  /\ auth \in {0, 1}
  /\ purse \in {NoAccount, 1}
  /\ payee = TRUE
  /\ recent = [acct |-> {acct}, plan |-> {plan}, auth |-> {auth}]
  /\ txs = <<>>
  /\ pulls = <<>>
  /\ review = NoReview
  /\ flow = Idle
  /\ checked = NoCheck

\* useSubscribeReview: read with the page and after every refresh().
Show ==
  /\ flow.step \notin Working
  /\ \E view \in PlanViews, clock \in Clocks : review' = Review(view, clock)
  /\ UNCHANGED <<chainVars, flow, checked>>

Click ==
  /\ flow.step \notin Working
  /\ review.blocked = "none"
  /\ flow' = [Idle EXCEPT !.step = "checking", !.shown = review]
  /\ review' = NoReview       \* the flow's progress takes its place
  /\ UNCHANGED <<chainVars, checked>>

Check ==
  /\ flow.step = "checking"
  /\ \/ \E p \in recent.plan, a \in recent.acct, g \in recent.auth, clock \in Clocks :
          /\ flow' = Recheck(flow.shown, Review(PlanView(p, a, g), clock))
          /\ checked' = IF flow'.step = "preparing"
                        THEN [plan |-> p, acct |-> a, auth |-> g, at |-> now] ELSE NoCheck
     \/ flow' = Outcome("failed") /\ UNCHANGED checked        \* the API does not answer
  /\ UNCHANGED <<chainVars, review>>

\* The transaction is the one that was shown; its lifetime is asked for now.
Prepare ==
  /\ flow.step = "preparing"
  /\ \/ flow' = [flow EXCEPT !.step = "signing"] /\ UNCHANGED checked
     \/ flow' = Outcome("failed") /\ checked' = NoCheck
  /\ UNCHANGED <<chainVars, review>>

Signed == Transaction("subscribe", 0, flow.shown.terms, flow.shown.gen)

\* The wallet signs and sends; it may then answer with the signature or with an error.
Sign ==
  /\ flow.step = "signing"
  /\ Len(txs) < MaxTxs
  /\ txs' = Append(txs, Signed)
  /\ \E step \in {"confirming", "failed"} :
       flow' = [flow EXCEPT !.step = step, !.tx = Len(txs) + 1]
  /\ checked' = NoCheck
  /\ UNCHANGED <<now, acct, plan, auth, purse, payee, recent, pulls, review>>

Decline ==
  /\ flow.step = "signing"
  /\ flow' = Outcome("failed")
  /\ checked' = NoCheck
  /\ UNCHANGED <<chainVars, review>>

AppearedBySignature(answer) == TRUE

\* readNow(...) !== null, and that answers with the row of what is gone as well.
Appeared(answer) == answer.known # "notFound"



Again ==
  IF flow.attempt + 1 = ConfirmAttempts THEN Outcome("unconfirmed")
  ELSE [flow EXCEPT !.attempt = @ + 1]

Confirm ==
  /\ flow.step = "confirming"
  /\ \/ \E a \in recent.acct, p \in recent.plan, g \in recent.auth, row \in CachedRows :
          LET answer == Reconcile(row, ReadAllowance(a, p, g, "current", now))
          IN flow' = CASE answer.known = "unreadable" -> Outcome("failed")
                       [] answer.known \in {"read", "absent", "notFound"} ->
                            IF Appeared(answer) THEN Outcome("done") ELSE Again
     \/ flow' = Outcome("failed")
  /\ UNCHANGED <<chainVars, review, checked>>

Subscriber == Show \/ Click \/ Check \/ Prepare \/ Sign \/ Decline \/ Confirm

\* The merchant, the clock, and the subscriber's other tools.
Chain ==
  /\ Land \/ Tick \/ PlanCloses \/ PlanUpdates \/ PlanOpens \/ AuthorityCloses
  /\ UNCHANGED <<review, flow, checked>>

Next == Subscriber \/ Chain

Spec == Init /\ [][Next]_vars

-----------------------------------------------------------------------------
TypeOK ==
  /\ now \in 1 .. MaxNow /\ Len(txs) <= MaxTxs
  /\ review.terms \in 0 .. MaxTerms
  /\ flow.step \in Working \cup {"idle", "stopped", "done", "unconfirmed", "failed"}
  /\ flow.attempt \in 0 .. ConfirmAttempts - 1 /\ flow.tx \in 0 .. Len(txs)

\* What the subscriber ends up with is what the screen showed at their click: the
\* terms, under the authority it named or one created for it, and an offer that the
\* check found unchanged in what the signature does not bind (subscribeReview.ts 205-216).
AgreedTerms ==
  /\ Exists => \E n \in DOMAIN txs : txs[n].op = "subscribe" /\ txs[n].state = "ok"
                                     /\ acct.terms = txs[n].terms
  /\ flow.tx # 0 => txs[flow.tx].terms = flow.shown.terms /\ txs[flow.tx].gen = flow.shown.gen
  /\ flow.step = "signing" =>
       /\ checked.plan.terms = flow.shown.terms /\ checked.plan.ends = flow.shown.ends
       /\ checked.plan.lists = flow.shown.lists

\* A subscription that is offered and found unchanged is one the program takes, while
\* nothing changes: every refusal the reader could foresee is a block on the screen.
ReadyMeansAccepted ==
  flow.step = "signing" /\ checked = [plan |-> plan, acct |-> acct, auth |-> auth, at |-> now]
    => SubscribeRefusals(flow.shown.terms, flow.shown.gen) = {}

\* "The fact is the subscription account existing, and that is what is asked for"
\* (subscribe.tsx 35-37).
DoneMeansSubscribed == flow.step = "done" => Exists

\* All three, with every variable in its range: what the page shows, offers and says.
ReviewHolds == TypeOK /\ AgreedTerms /\ ReadyMeansAccepted /\ DoneMeansSubscribed
=============================================================================
