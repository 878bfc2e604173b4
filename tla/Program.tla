------------------------------ MODULE Program ------------------------------
(***************************************************************************)
(* The chain as the code in src/ uses it: one permission account of the    *)
(* subscriptions program, its merchant plan, the subscriber's authority    *)
(* and token accounts, transactions in flight, and nodes that may answer   *)
(* from a little earlier. Nothing of it is in the repository; the rules    *)
(* are those that packages/chain and packages/shared build on (revoke.ts:  *)
(* when an account may be closed and how the stop date is computed;        *)
(* subscribe.ts: which terms a signature binds; reasons.ts: which refusals *)
(* a charge meets). Time is counted in units of the chain clock.           *)
(***************************************************************************)
EXTENDS Integers, Sequences, FiniteSets

CONSTANTS
  Period,     \* length of a period
  MaxNow,     \* the clock stops here
  MaxTerms,   \* versions of a plan's terms, the cap grows with the version
  MaxTxs      \* transactions sent altogether

ASSUME ProgramBounds == {Period, MaxNow, MaxTerms, MaxTxs} \subseteq Nat \ {0}

VARIABLES
  now,        \* the chain clock
  acct,       \* the permission account, see Absent and Account
  plan,       \* see Offer and NoPlan; terms 0: no account at the plan's address
  auth,       \* initId of the subscription authority, 0: closed
  purse,      \* what the subscriber's token account holds, NoAccount: closed
  payee,      \* whether the merchant has a token account
  recent,     \* the versions of acct, plan and auth a node may still answer
  txs,        \* everything that was signed, and what became of it
  pulls       \* ghost: the charges that landed, in order

chainVars == <<now, acct, plan, auth, purse, payee, recent, txs, pulls>>

None      == 0                     \* NO_TIMESTAMP of the program
NoAccount == -1
Cap(terms) == 1 + terms

Account(kind, terms, gen, cap, start) ==
  [kind |-> kind, terms |-> terms, gen |-> gen, cap |-> cap, start |-> start,
   spent |-> 0, until |-> None]
Absent == Account("absent", 0, 0, 0, 0)
Exists == acct.kind # "absent"

\* What a plan offers: its terms and its creation, which a signature binds, and what
\* its merchant may still change: an end, the winding down, who pulls and to where.
Offer(terms, ends, sunset, lists) == [terms |-> terms, ends |-> ends, sunset |-> sunset, lists |-> lists]
NoPlan == Offer(0, None, FALSE, 0)

\* A node answers any state since the last unit of time, of each account on its own.
Fresh == [acct |-> {acct'}, plan |-> {plan'}, auth |-> {auth'}]
Seen  == [acct |-> recent.acct \cup {acct'}, plan |-> recent.plan \cup {plan'},
          auth |-> recent.auth \cup {auth'}]

-----------------------------------------------------------------------------
\* The period the clock is in; the account's own changes only with a charge.
Elapsed == (now - acct.start) \div Period
Start   == acct.start + Elapsed * Period
Spent   == IF Elapsed = 0 THEN acct.spent ELSE 0
Left    == IF acct.kind = "fixed" THEN acct.cap ELSE acct.cap - Spent

OneOf(condition, code) == IF condition THEN {code} ELSE {}

\* Why a charge is refused. The order of the program's checks is its own: one of
\* these is what it answers, and a charge lands when there is none.
ChargeRefusals(amount) ==
  IF ~Exists THEN {"InvalidAccountOwner"}
  ELSE OneOf(auth = 0, "103") \cup OneOf(auth \notin {0, acct.gen}, "136")
       \cup OneOf(acct.kind = "subscription" /\ acct.until # None /\ now >= acct.until, "508")
       \cup OneOf(acct.kind # "subscription" /\ acct.until # None /\ now >= acct.until, "128")
       \cup OneOf(acct.kind = "subscription" /\ plan.ends # None /\ now > plan.ends, "501")
       \cup OneOf(acct.kind = "subscription" /\ plan.terms # acct.terms, "terms")
       \cup OneOf(acct.kind = "fixed" /\ amount > Left, "300")
       \cup OneOf(acct.kind # "fixed" /\ amount > Left, "400")
       \cup OneOf(purse = NoAccount \/ ~payee, "110")
       \cup OneOf(purse # NoAccount /\ purse < amount, "token:1")

CloseRefusals ==
  IF ~Exists THEN {"InvalidAccountOwner"}
  ELSE OneOf(acct.kind = "subscription" /\ (acct.until = None \/ now < acct.until), "510")

CancelRefusals ==
  IF ~Exists THEN {"InvalidAccountOwner"} ELSE OneOf(acct.until # None, "cancelled")

\* gen 0: the authority is created by the same transaction.
SubscribeRefusals(terms, gen) ==
  OneOf(Exists, "exists") \cup OneOf(plan.terms # terms, "terms")
    \cup OneOf(plan.terms # 0 /\ plan.sunset, "sunset")
    \cup OneOf(plan.ends # None /\ now > plan.ends, "501")
    \cup OneOf(gen = 0 /\ auth # 0, "exists") \cup OneOf(gen = 0 /\ purse = NoAccount, "110")
    \cup OneOf(gen # 0 /\ auth # gen, "136")

Least(a, b) == IF a < b THEN a ELSE b

\* The end of the period the clock is in, cut to just past the plan's end, and to
\* now when the plan is gone or has other terms.
StopDate ==
  IF plan.terms # acct.terms THEN now
  ELSE IF plan.ends = None THEN Start + Period ELSE Least(Start + Period, plan.ends + 1)

Refusals(tx) ==
  CASE tx.op = "charge"    -> ChargeRefusals(tx.amount)
    [] tx.op = "misnamed"  -> {"address"}        \* accounts that do not belong together
    [] tx.op = "close"     -> CloseRefusals
    [] tx.op = "cancel"    -> CancelRefusals
    [] tx.op = "subscribe" -> SubscribeRefusals(tx.terms, tx.gen)
    [] tx.op = "plan"      -> OneOf(plan.terms # 0, "exists")

Charged(amount) ==
  IF acct.kind = "fixed" THEN [acct EXCEPT !.cap = @ - amount]
  ELSE [acct EXCEPT !.start = Start, !.spent = Spent + amount]

Effect(n) ==
  LET tx == txs[n]
      gen == IF tx.gen = 0 THEN n + 1 ELSE tx.gen       \* of an authority: one no other had
  IN /\ acct' = CASE tx.op = "charge"    -> Charged(tx.amount)
                  [] tx.op = "close"     -> Absent
                  [] tx.op = "cancel"    -> [acct EXCEPT !.until = StopDate]
                  [] tx.op = "subscribe" -> Account("subscription", tx.terms, gen, Cap(tx.terms), now)
                  [] tx.op = "plan"      -> acct
     /\ auth' = IF tx.op = "subscribe" THEN gen ELSE auth
     /\ plan' = IF tx.op = "plan" THEN Offer(tx.terms, None, FALSE, 0) ELSE plan
     /\ purse' = IF tx.op = "charge" THEN purse - tx.amount ELSE purse
     /\ pulls' = IF tx.op = "charge" THEN Append(pulls, [at |-> now, amount |-> tx.amount]) ELSE pulls

-----------------------------------------------------------------------------
\* A signed transaction leaves its sender. One that never lands is one that was lost.
Transaction(op, amount, terms, gen) ==
  [op |-> op, amount |-> amount, terms |-> terms, gen |-> gen, state |-> "flight",
   code |-> "none", at |-> now]

Land ==
  \E n \in DOMAIN txs :
    /\ txs[n].state = "flight"
    /\ \/ /\ Refusals(txs[n]) = {}
          /\ Effect(n)
          /\ txs' = [txs EXCEPT ![n].state = "ok", ![n].at = now]
       \/ \E code \in Refusals(txs[n]) :
            /\ txs' = [txs EXCEPT ![n].state = "failed", ![n].code = code]
            /\ UNCHANGED <<acct, plan, auth, purse, pulls>>
    /\ recent' = Seen
    /\ UNCHANGED <<now, payee>>

Tick ==
  /\ now < MaxNow
  /\ now' = now + 1
  /\ UNCHANGED <<acct, plan, auth, purse, payee, txs, pulls>>
  /\ recent' = Fresh

\* The merchant closes the plan, changes what a signature does not bind, or opens one
\* with other terms at the same address; one such step in a unit of time.
PlanCloses ==
  /\ plan.terms # 0 /\ recent.plan = {plan}
  /\ plan' = NoPlan
  /\ UNCHANGED <<now, acct, auth, purse, payee, txs, pulls>>
  /\ recent' = Seen

PlanUpdates ==
  /\ plan.terms # 0 /\ recent.plan = {plan}
  /\ plan = Offer(plan.terms, None, FALSE, 0)       \* one update of a plan
  /\ plan' \in {Offer(plan.terms, now, FALSE, 0), Offer(plan.terms, None, TRUE, 0),
                 Offer(plan.terms, None, FALSE, 1)}
  /\ UNCHANGED <<now, acct, auth, purse, payee, txs, pulls>>
  /\ recent' = Seen

PlanOpens ==
  /\ plan.terms = 0 /\ recent.plan = {plan}
  /\ \E terms \in 1 .. MaxTerms : plan' = Offer(terms, None, FALSE, 0)
  /\ UNCHANGED <<now, acct, auth, purse, payee, txs, pulls>>
  /\ recent' = Seen

\* The subscriber revokes everything under the mint.
AuthorityCloses ==
  /\ auth # 0
  /\ auth' = 0
  /\ UNCHANGED <<now, acct, plan, purse, payee, txs, pulls>>
  /\ recent' = Seen

\* A signature's status, as a node that may not have seen it reports it.
Statuses(n) == {"null"} \cup {s \in {"ok", "failed"} : txs[n].state = s}
=============================================================================
