----------------------------- MODULE Lifecycle -----------------------------
(***************************************************************************)
(* One permission from its first charge to its end: its subscriber reads   *)
(* and cancels it (CancelFlow), its merchant charges it and closes or      *)
(* re-creates the plan (MerchantSim), over a chain whose clock runs and    *)
(* whose nodes may answer from a little earlier (Program).  Before it, a   *)
(* newcomer subscribes over the same chain (SubscribeFlow); beside it, and *)
(* sharing nothing with it, the tool that prepares the show runs (Demo).   *)
(***************************************************************************)
EXTENDS CancelFlow, MerchantSim, Demo

CONSTANTS
  Kinds,        \* kinds of permission to start with
  Purse,        \* what the wallet holds
  OfferTime     \* bound: the time a newcomer has

ASSUME LifecycleBounds ==
  Kinds \subseteq {"subscription", "fixed", "recurring"} /\ Purse \in Nat /\ OfferTime \in Nat \ {0}

VARIABLES
  review, order, checked,     \* the newcomer's, see SubscribeFlow
  scene                       \* what is followed: subscriber, merchant, newcomer or demo

Newcomer == INSTANCE SubscribeFlow
              WITH flow <- order, CachedRows <- {"none"}, MaxNow <- OfferTime

newVars == <<review, order, checked>>
vars == <<chainVars, cancelVars, sim, newVars, demoVars, scene>>

\* A delegation may have been given with an expiry.
Permissions ==
  {[Account(kind, 1, 1, Cap(1), 1) EXCEPT !.until = until] : kind \in Kinds, until \in {None, 1 + Period}}

Running ==
  /\ now = 1
  /\ acct \in {a \in Permissions : a.kind = "subscription" => a.until = None}
  /\ plan \in {Offer(1, ends, FALSE, 0) : ends \in {None, 1}}
  /\ plan.ends # None => acct.kind = "subscription"
  /\ auth = 1
  /\ purse = Purse
  /\ scene \in {"subscriber", "merchant", "demo"}
  /\ payee \in {TRUE, scene = "subscriber" \/ acct.kind # "fixed"}
  /\ scene = "merchant" => acct.kind # "recurring"
  /\ scene = "demo" => acct = Account("fixed", 1, 1, Cap(1), 1) /\ payee
  /\ recent = [acct |-> {acct}, plan |-> {plan}, auth |-> {auth}]
  /\ txs = <<>>
  /\ pulls = <<>>
  /\ review = Newcomer!NoReview /\ order = Newcomer!Idle /\ checked = Newcomer!NoCheck

Init ==
  /\ Running \/ (scene = "newcomer" /\ Newcomer!Init)
  /\ CancelInit
  /\ SimInit
  /\ DemoInit

\* At most one of the two other parties' steps in a behaviour.
Chain ==
  /\ scene \in {"subscriber", "merchant"}
  /\ \/ Land \/ Tick
     \/ plan.terms # 0 /\ auth # 0 /\ (PlanCloses \/ AuthorityCloses)
  /\ UNCHANGED <<cancelVars, sim, newVars, demoVars, scene>>

Subscriber ==
  /\ scene = "subscriber"
  /\ \/ (Show \/ Click \/ CancelStep) /\ UNCHANGED sim
     \/ Charges /\ UNCHANGED cancelVars
  /\ UNCHANGED <<newVars, demoVars, scene>>

Merchant ==
  /\ scene = "merchant"
  /\ StartCharge \/ StartPlan \/ Send \/ Poll
  /\ UNCHANGED <<cancelVars, newVars, demoVars, scene>>

Subscribes == scene = "newcomer" /\ Newcomer!Next /\ UNCHANGED <<cancelVars, sim, demoVars, scene>>

Rehearsal == scene = "demo" /\ DemoNext /\ UNCHANGED <<chainVars, cancelVars, sim, newVars, scene>>

Next == Chain \/ Subscriber \/ Merchant \/ Subscribes \/ Rehearsal

Spec == Init /\ [][Next]_vars

-----------------------------------------------------------------------------
Total(amounts) ==
  LET sum[n \in 0 .. Len(amounts)] == IF n = 0 THEN 0 ELSE sum[n - 1] + amounts[n]
  IN sum[Len(amounts)]

\* What the charges after the first `told` ones took from `from` to before `until`.
Within(n, from, until, told) == n > told /\ pulls[n].at >= from /\ pulls[n].at < until
Pulled(from, until, told) ==
  Total([n \in DOMAIN pulls |-> IF Within(n, from, until, told) THEN pulls[n].amount ELSE 0])

\* No charge that landed after the first `told` ones is from `at` on.
NoPullsFrom(at, told) == \A n \in DOMAIN pulls : n > told => pulls[n].at < at

Days == 0 .. MaxNow + 2 * Period
Windows == [ends : Days, from : Days, charged : 0 .. Purse, left : 0 .. Cap(MaxTerms), told : 0 .. MaxTxs]
Steps == Working \cup {"idle", "gone", "done", "scheduled", "unconfirmed", "failed"}

TypeOK ==
  /\ now \in 1 .. MaxNow /\ purse \in 0 .. Purse
  /\ acct.until \in Days /\ acct.start \in Days /\ acct.spent \in 0 .. Purse
  /\ Len(txs) <= MaxTxs
  /\ card.window \in Windows /\ card.ends \in Days
  /\ flow.step \in Steps /\ flow.window \in Windows /\ flow.tx \in 0 .. Len(txs)
  /\ flow.attempt \in 0 .. ConfirmAttempts /\ sim.polls \in 0 .. PollAttempts

\* A permission said to be gone is gone, whatever the row, the node's lag, an account
\* that cannot be read or a plan that was closed answered (revoke.tsx, readOnChain).
GoneIsGone == flow.step \in {"gone", "done"} => ~Exists

\* A date charges stop on, once told, is the chain's own and no charge lands from it on.
ScheduledHolds ==
  flow.step = "scheduled" =>
    /\ flow.ends # None /\ NoPullsFrom(flow.ends, flow.told)
    /\ Exists => acct.until = flow.ends

\* What the cancel page says is the chain's, with every variable in its range.
CancelHolds == scene \in {"subscriber", "merchant"} => TypeOK /\ GoneIsGone /\ ScheduledHolds

\* What the card says of later charges is true of all that land later: "never" of a
\* cancelled, spent or expired permission, and no renewal after its end.
CardHolds ==
  /\ card.next = "never" => Len(pulls) = card.pulls
  /\ card.ends # None => NoPullsFrom(card.ends, card.pulls)

\* The figures of the confirmation: once the cancellation lands before the date shown,
\* charges stop by that date and took no more than was still said to be chargeable.
Agreed(window) ==
  /\ Pulled(window.from, window.ends, window.told) <= window.left
  /\ Pulled(window.from, window.ends, 0) >= window.charged

WindowHolds ==
  /\ card.window # NoWindow => Agreed(card.window)
  /\ \A n \in DOMAIN txs :
       (/\ flow.tx = n /\ flow.window # NoWindow
        /\ txs[n].op = "cancel" /\ txs[n].state = "ok" /\ txs[n].at < flow.window.ends) =>
         /\ Exists => acct.until <= flow.window.ends
         /\ Agreed(flow.window)
         /\ NoPullsFrom(flow.window.ends, 0)

\* Both: no figure or date on the screen is less than what the merchant may still take.
FiguresHold == CardHolds /\ WindowHolds

\* A verdict names what became of the transaction, and a rejection its reason.
VerdictTrue ==
  /\ sim.step \in {"charged", "created"} => txs[sim.tx].state = "ok"
  /\ sim.step = "rejected" => txs[sim.tx].state = "failed" /\ txs[sim.tx].code = sim.code
  /\ sim.step = "unknown" => ~sim.refused

\* The page says of the offer, and of what came of it, what is so.
SubscribeHolds == scene = "newcomer" => Newcomer!ReviewHolds

\* The show that is prepared is the one that is there.
ShowHolds == scene = "demo" => DemoHolds
-----------------------------------------------------------------------------
(***************************************************************************)
(* Why they hold.                                                          *)
(***************************************************************************)
Accounts == [kind : {"subscription", "fixed", "recurring", "absent"},
             terms : Nat, gen : Nat, cap : Nat, start : Nat, spent : Nat, until : Nat]
Offers   == [terms : Nat, ends : Nat, sunset : BOOLEAN, lists : Nat]
Nodes    == [acct : SUBSET Accounts, plan : SUBSET Offers, auth : SUBSET Nat]
Codes    == {"none", "InvalidAccountOwner", "103", "136", "508", "128", "501", "terms", "300", "400",
             "110", "token:1", "510", "cancelled", "exists", "sunset", "address"}
Sendings == [op : {"charge", "misnamed", "close", "cancel", "subscribe", "plan"},
             amount : Nat, terms : Nat, gen : Nat, state : {"flight", "lost", "ok", "failed"},
             code : Codes, at : Nat]
Pulls    == [at : Nat, amount : Nat]

ChainTyped ==
  /\ now \in Nat \ {0} /\ acct \in Accounts /\ plan \in Offers /\ auth \in Nat
  /\ purse \in Nat \cup {NoAccount}
  /\ recent \in Nodes /\ acct \in recent.acct /\ plan \in recent.plan /\ auth \in recent.auth
  /\ \A a \in recent.acct : a.start <= now
  /\ txs \in Seq(Sendings) /\ pulls \in Seq(Pulls)

\* A permission never comes back, ends once, and keeps its kind and its authority.
RecentTrue ==
  /\ \A a \in recent.acct :
       IF a.kind = "absent" THEN ~Exists
       ELSE /\ a.gen = 1
            /\ Exists => /\ a.kind = acct.kind
                         /\ a.until # None => a.until = acct.until
                         /\ a.kind = "fixed" => acct.cap <= a.cap
  /\ \A g \in recent.auth : g = 1 \/ (g = 0 /\ auth = 0)

\* What was sent in the life of a permission, and what it took.
SentInLife ==
  /\ Len(txs) <= MaxTxs
  /\ \A n \in DOMAIN txs : txs[n].op # "subscribe" /\ (txs[n].op = "charge" => txs[n].amount > 0)
  /\ Len(pulls) <= Cardinality({n \in DOMAIN txs : txs[n].state = "ok"})
  /\ purse \in 0 .. Purse /\ acct.spent + purse <= Purse

InRange(a) ==
  a.start <= MaxNow /\ a.spent <= Purse /\ a.cap <= Cap(MaxTerms) /\ a.until <= MaxNow + Period

\* A date that was told is the permission's own.
DateTold(ends, told) ==
  /\ ends # None /\ NoPullsFrom(ends, told)
  /\ Exists => acct.kind = "subscription" /\ acct.until = ends

\* Nothing can be taken any more.
OutOfReach ==
  Exists => \/ auth = 0
            \/ acct.until # None /\ acct.until <= now
            \/ acct.kind = "fixed" /\ acct.cap = 0

CardTold ==
  /\ card.next = "never" => OutOfReach /\ Len(pulls) = card.pulls
  /\ card.ends # None => DateTold(card.ends, card.pulls)

FlowTold ==
  /\ flow.step \in {"gone", "done"} => ~Exists
  /\ flow.step = "scheduled" => DateTold(flow.ends, flow.told)

Cards == [next : {"nothing", "never", "nothing scheduled", "none, it ends", "any time", "any time now",
                  "dated"},
          action : {"none", "close", "cancel", "wait"}, ends : Days, window : Windows, pulls : Nat]
Flows == [step : Steps, action : {"none", "close", "cancel"},
          kind : {"none", "subscription", "fixed", "recurring"}, ends : Days, tx : Nat,
          attempt : 0 .. ConfirmAttempts - 1, window : Windows, told : Nat]

CancelTyped ==
  /\ card \in Cards
  /\ flow \in Flows /\ flow.tx <= Len(txs)
  /\ flow.step \in {"signing", "confirming"} => flow.action # "none"

Sims == [step : {"idle", "noAttempt", "built", "polling", "charged", "created", "rejected", "unknown"},
         op : {"none", "charge", "misnamed", "plan"}, amount : Nat, preflight : BOOLEAN,
         tx : Nat, refused : BOOLEAN, polls : 0 .. PollAttempts, code : Codes]

SimTyped ==
  /\ sim \in Sims /\ sim.tx <= Len(txs)
  /\ sim.step = "built" => sim.op # "none" /\ sim.amount > 0
  /\ sim.step \in {"built", "polling"} => sim.polls < PollAttempts
  /\ sim.step \in {"polling", "charged", "created", "rejected"} => sim.tx # 0

LifeInv ==
  scene \in {"subscriber", "merchant"} =>
    /\ ChainTyped /\ now <= MaxNow
    /\ RecentTrue /\ SentInLife /\ (\A a \in recent.acct : InRange(a))
    /\ CancelTyped /\ CardTold /\ FlowTold
    /\ SimTyped /\ VerdictTrue

\* The first instant of a period of the subscription, which began at 1.
OnGrid(t) == \E k \in 0 .. t : t = 1 + k * Period

\* Of the period the clock is in, as a version of the permission that a node may still answer
\* tells it: no more is said to be charged than was, and no more was than the cap.
PeriodTrue(a) ==
  LET elapsed == (now - a.start) \div Period
      from    == a.start + elapsed * Period
  IN /\ OnGrid(a.start) /\ a.cap = Cap(1)
     /\ (IF elapsed = 0 THEN a.spent ELSE 0) <= Pulled(from, from + Period, 0)
     /\ Pulled(from, from + Period, 0) <= Cap(1)

\* The permission itself counts what its last period took, and nothing was taken after it.
SpentTrue ==
  Exists /\ acct.kind = "subscription" =>
    /\ Pulled(acct.start, acct.start + Period, 0) = acct.spent /\ acct.spent <= acct.cap
    /\ \A n \in DOMAIN pulls : pulls[n].at < acct.start + Period

\* Of the period of a window that was shown, as much as it named was charged before it was shown.
WindowTrue(w) ==
  w # NoWindow =>
    /\ Exists => acct.kind = "subscription"
    /\ OnGrid(w.from) /\ w.ends = w.from + Period /\ w.told <= Len(pulls)
    /\ Cap(1) <= w.left + w.charged
    /\ w.charged + Pulled(w.from, w.ends, w.told) <= Pulled(w.from, w.ends, 0)
    /\ Pulled(w.from, w.ends, 0) <= Cap(1)

\* From the landing of the cancellation that was agreed to, the date shown bounds the charges.
StopKept ==
  \A n \in DOMAIN txs :
    (/\ flow.tx = n /\ flow.window # NoWindow
     /\ txs[n].op = "cancel" /\ txs[n].state = "ok" /\ txs[n].at < flow.window.ends) =>
      /\ Exists => acct.until # None /\ acct.until <= flow.window.ends
      /\ NoPullsFrom(flow.window.ends, 0)

FigureInv ==
  IF scene \in {"subscriber", "merchant"}
  THEN /\ \A n \in DOMAIN pulls : pulls[n].at <= now
       /\ \A a \in recent.acct : a.kind = "subscription" => PeriodTrue(a)
       /\ SpentTrue /\ WindowTrue(card.window) /\ WindowTrue(flow.window) /\ StopKept
  ELSE card = NoCard /\ flow = Idle

\* Where no merchant charges, there is no verdict.
NoVerdict == scene \notin {"subscriber", "merchant"} => sim = Rest

-----------------------------------------------------------------------------
Reviews == [terms : 0 .. MaxTerms, ends : Nat, lists : Nat, gen : Nat,
            blocked : {"none", "missing", "sunset", "ended", "subscribed", "no-token-account"}]
Checks  == [plan : Offers, acct : Accounts, auth : Nat, at : Nat]
Orders  == [step : Newcomer!Working \cup {"idle", "stopped", "done", "unconfirmed", "failed"},
            shown : Reviews, tx : Nat, attempt : 0 .. ConfirmAttempts - 1]

\* In what was checked and found as shown, nothing stands against subscribing.
CheckedTrue ==
  order.step \in {"preparing", "signing"} =>
    /\ checked.plan.terms = order.shown.terms /\ checked.plan.ends = order.shown.ends
    /\ checked.plan.lists = order.shown.lists /\ checked.auth = order.shown.gen
    /\ ~checked.plan.sunset /\ checked.acct.kind = "absent"
    /\ checked.plan.ends # None => checked.plan.ends >= checked.at
    /\ checked.auth = 0 => purse # NoAccount

OfferInv ==
  scene = "newcomer" =>
    /\ ChainTyped /\ now <= OfferTime /\ Len(txs) <= MaxTxs
    /\ \A p \in recent.plan : p.terms <= MaxTerms
    /\ review \in Reviews /\ order \in Orders /\ order.tx <= Len(txs) /\ checked \in Checks
    /\ \A a \in recent.acct : a.kind # "absent" => Exists
    /\ \A n \in DOMAIN txs : txs[n].op = "subscribe"
    /\ Newcomer!AgreedTerms /\ CheckedTrue /\ Newcomer!DoneMeansSubscribed
=============================================================================
