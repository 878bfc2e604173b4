----------------------------- MODULE CancelFlow -----------------------------
(***************************************************************************)
(* The card a person reads and the cancellation they click, apps/web       *)
(* chain/revoke.tsx over packages/chain revoke.ts: check the chain, build  *)
(* one transaction, let the wallet sign and send it, then read the chain   *)
(* until it shows what was done. The browser's clock may be off.           *)
(***************************************************************************)
EXTENDS ReadApi

CONSTANT ConfirmAttempts      \* CONFIRM_ATTEMPTS

ASSUME CancelBounds == ConfirmAttempts \in Nat \ {0}

VARIABLES
  card,       \* what is on the screen
  flow        \* the state of the one cancellation that may run

cancelVars == <<card, flow>>

\* The browser's clock may be off, and be set right at any time.
Clocks == now - 1 .. now + 1

Idle == [step |-> "idle", action |-> "none", kind |-> "none", ends |-> None, tx |-> 0,
         attempt |-> 0, window |-> NoWindow, told |-> 0]

\* How it ended; what was agreed to matters once something was sent.
Outcome(step) ==
  [Idle EXCEPT !.step = step, !.tx = flow.tx, !.window = IF flow.tx = 0 THEN NoWindow ELSE flow.window]

ScheduledAsPromised(ends) ==
  [Outcome("scheduled") EXCEPT !.ends = flow.window.ends, !.told = Len(pulls)]

\* The date is told, after so many charges.
Scheduled(ends) == [Outcome("scheduled") EXCEPT !.ends = ends, !.told = Len(pulls)]

Working == {"checking", "preparing", "signing", "confirming"}

CancelInit ==
  /\ card = NoCard
  /\ flow = Idle

GoneFromUnreadable(answer) == answer.known # "read"

\* readOnChain: a row of what is gone is as good as no answer at all.
GoneFrom(answer) == answer.known \in {"notFound", "absent"}

-----------------------------------------------------------------------------
\* The card is read with the page, and again after every refresh() of the flow.
Show ==
  /\ flow.step \notin Working
  /\ \E answer \in Answers : card' = Card(answer)
  /\ UNCHANGED <<chainVars, flow>>

\* The person confirms what the card offers; the figures on it are what they agreed to,
\* and the flow's progress takes the card's place.
Click ==
  /\ flow.step \notin Working
  /\ card.action \in {"close", "cancel"}
  /\ flow' = [Idle EXCEPT !.step = "checking", !.window = card.window]
  /\ card' = NoCard
  /\ UNCHANGED chainVars

\* Decided on the state just read, not on the card.
Check ==
  /\ flow.step = "checking"
  /\ \/ \E answer \in Answers, clock \in Clocks :
          flow' =
            CASE GoneFrom(answer) -> Outcome("gone")
              [] answer.known = "unreadable" -> Outcome("failed")
              [] answer.known = "read" ->
                   IF RevokeAction(answer, clock) = "wait"
                   THEN Scheduled(answer.ends)
                   ELSE [flow EXCEPT !.step = "preparing", !.kind = answer.kind,
                           !.ends = answer.ends, !.action = RevokeAction(answer, clock)]
     \/ flow' = Outcome("failed")       \* the API does not answer
  /\ UNCHANGED <<chainVars, card>>

\* The builders refuse a foreign wallet, a close before the end, a second cancellation.
Refuses(mine, clock) ==
  \/ ~mine
  \/ RevokeAction([kind |-> flow.kind, ends |-> flow.ends], clock) # flow.action

Prepare ==
  /\ flow.step = "preparing"
  /\ \E mine \in BOOLEAN, lifetime \in BOOLEAN, clock \in Clocks :
       flow' = IF Refuses(mine, clock) \/ ~lifetime THEN Outcome("failed")
               ELSE [flow EXCEPT !.step = "signing", !.ends = None]
  /\ UNCHANGED <<chainVars, card>>

\* The wallet signs and sends; it may then answer with the signature or with an error.
Sign ==
  /\ flow.step = "signing"
  /\ Len(txs) < MaxTxs
  /\ txs' = Append(txs, Transaction(flow.action, 0, 0, 0))
  /\ \E step \in {"confirming", "failed"} :
       flow' = [flow EXCEPT !.step = step, !.tx = Len(txs) + 1]
  /\ UNCHANGED <<now, acct, plan, auth, purse, payee, recent, pulls, card>>

Decline ==
  /\ flow.step = "signing"
  /\ flow' = Outcome("failed")
  /\ UNCHANGED <<chainVars, card>>



Again ==
  IF flow.attempt + 1 = ConfirmAttempts THEN Outcome("unconfirmed")
  ELSE [flow EXCEPT !.attempt = @ + 1]

\* The wallet gives a signature; the fact is what the chain shows.
Confirm ==
  /\ flow.step = "confirming"
  /\ \/ \E answer \in Answers :
          flow' =
            CASE GoneFrom(answer) -> Outcome("done")
              [] answer.known = "unreadable" -> Outcome("failed")
              [] answer.known = "read" ->
                   IF flow.action = "cancel" /\ answer.ends # None
                   THEN Scheduled(answer.ends) ELSE Again
     \/ flow' = Outcome("failed")
  /\ UNCHANGED <<chainVars, card>>

CancelStep == Check \/ Prepare \/ Sign \/ Decline \/ Confirm
=============================================================================
