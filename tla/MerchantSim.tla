---------------------------- MODULE MerchantSim ----------------------------
(***************************************************************************)
(* The merchant's command line (tools/merchant-sim charge.ts, plan.ts and  *)
(* cli.ts): one attempt to charge a permission or to create a plan, built, *)
(* signed and sent, and the verdict taken from what the network says of    *)
(* the signature, not from what the sending said.                          *)
(***************************************************************************)
EXTENDS ReadApi

CONSTANTS
  PollAttempts,      \* DEFAULT_POLL_ATTEMPTS
  Amounts            \* amounts a charge may be attempted for, 0 is refused

ASSUME SimBounds == PollAttempts \in Nat \ {0} /\ Amounts \subseteq Nat

VARIABLE sim         \* the attempt, and its verdict

Rest == [step |-> "idle", op |-> "none", amount |-> 0, preflight |-> FALSE, tx |-> 0,
         refused |-> FALSE, polls |-> 0, code |-> "none"]

SimInit == sim = Rest

NoAttempt == [Rest EXCEPT !.step = "noAttempt"]
Built(op, amount, preflight) ==
  [Rest EXCEPT !.step = "built", !.op = op, !.amount = amount, !.preflight = preflight]

\* chargeTarget: the chain names the target and the flags must agree with it; where there
\* is nothing to read the flags name it, and nothing checks them.
Flags == {"none", "right", "wrong"}
FieldsAgree(flags) == flags # "wrong"
FieldsName(flags)  == flags # "none"
HasTarget(known, flags) == IF known = "read" THEN FieldsAgree(flags) ELSE FieldsName(flags)

\* buildChargeInstruction looks at the amount and the names, never at the chain.
BuildCharge(flags, amount, preflight) ==
  IF amount = 0 THEN NoAttempt
  ELSE IF flags = "wrong" THEN Built("misnamed", 1, preflight) ELSE Built("charge", amount, preflight)

\* `charge`: the target is read from the chain itself; without flags that serve, or without
\* a lifetime for the transaction, nothing is sent.
StartCharge ==
  /\ sim.step \notin {"built", "polling"}
  /\ LET known == {ReadAllowance(a, p, g, form, now).known :
                      a \in recent.acct, p \in recent.plan, g \in recent.auth, form \in Forms}
         named == {flags \in Flags : \E k \in known : HasTarget(k, flags)}
     IN sim' \in {NoAttempt} \cup {BuildCharge(flags, amount, preflight) :
                                     flags \in named, amount \in Amounts, preflight \in BOOLEAN}
  /\ UNCHANGED chainVars

\* assertPlanTerms: an amount, a period, an end ahead, lists that name somebody.
PlanTermsHold(amount, ends, listed) == amount > 0 /\ (ends = None \/ ends > now) /\ listed

\* `plan`: its terms are checked, or nothing is sent.
StartPlan ==
  /\ sim.step \notin {"built", "polling"}
  /\ sim' \in {IF PlanTermsHold(Cap(MaxTerms), ends, listed) THEN Built("plan", MaxTerms, preflight)
                ELSE NoAttempt : ends \in {None, now, now + 1}, listed, preflight \in BOOLEAN}
  /\ UNCHANGED chainVars

\* A node that simulates first keeps a doomed transaction to itself.
Doomed(tx) == sim.preflight /\ Refusals(tx) # {}

\* Sent, refused by the node, or cut off after the node had passed it on.
Send ==
  /\ sim.step = "built"
  /\ Len(txs) < MaxTxs
  /\ \E refused \in BOOLEAN, passed \in BOOLEAN :
       LET tx == Transaction(sim.op, IF sim.op = "plan" THEN 0 ELSE sim.amount,
                             IF sim.op = "plan" THEN sim.amount ELSE 0, 0)
       IN /\ refused \/ passed
          /\ Doomed(tx) => refused /\ ~passed
          /\ txs' = Append(txs, IF passed THEN tx ELSE [tx EXCEPT !.state = "lost"])
          /\ sim' = [sim EXCEPT !.tx = Len(txs) + 1, !.refused = refused,
                       !.step = IF refused /\ sim.preflight /\ sim.op = "plan"
                                THEN "noAttempt" ELSE "polling"]
  /\ UNCHANGED <<now, acct, plan, auth, purse, payee, recent, pulls>>

VerdictSeen(status) == [sim EXCEPT !.step = IF sim.op = "plan" THEN "created" ELSE "charged"]

\* The verdict of a signature the network knows.
Verdict(status) ==
  IF status = "ok" THEN [sim EXCEPT !.step = IF sim.op = "plan" THEN "created" ELSE "charged"]
  ELSE [sim EXCEPT !.step = "rejected", !.code = txs[sim.tx].code]


\* Silence up to the last attempt: nobody knows, or nothing went out as far as one can see.
Silence ==
  [sim EXCEPT !.polls = @ + 1,
     !.step = CASE sim.polls + 1 < PollAttempts -> "polling"
                [] sim.polls + 1 >= PollAttempts /\ sim.refused -> "noAttempt"
                [] sim.polls + 1 >= PollAttempts /\ ~sim.refused -> "unknown"]

Poll ==
  /\ sim.step = "polling"
  /\ \E status \in Statuses(sim.tx) :
       sim' = IF status = "null" THEN Silence ELSE Verdict(status)
  /\ UNCHANGED chainVars

\* The same attempts where nobody waits for a verdict.
Charges ==
  /\ Len(txs) < MaxTxs
  /\ \E amount \in Amounts \ {0} : txs' = Append(txs, Transaction("charge", amount, 0, 0))
  /\ UNCHANGED <<now, acct, plan, auth, purse, payee, recent, pulls, sim>>
=============================================================================
