------------------------------ MODULE Decoder ------------------------------
(***************************************************************************)
(* What the indexer makes of a transaction: apps/indexer/src/decode.ts     *)
(* with packages/chain/src/events.ts, and the reason a refusal is shown    *)
(* under, packages/shared/src/reasons.ts. A transaction is a sequence of   *)
(* calls, direct or by another program; the runtime executes it and a node *)
(* reports it, perhaps without balances and with its log cut short; the    *)
(* decoder sees that report and nothing else. One permission; a charge     *)
(* takes one unit.                                                         *)
(***************************************************************************)
EXTENDS Integers, Sequences, FiniteSets, FiniteSetsExt, SequencesExt

CONSTANTS
  Kinds,      \* kinds of permission: subscription, recurring, fixed
  MaxLeft     \* bound: what a permission allows, and what the purse holds

ASSUME DecoderAssumption == Kinds \subseteq {"subscription", "recurring", "fixed"} /\ MaxLeft \in Nat

VARIABLES
  chain,      \* the permission and what a charge of it needs
  told,       \* what the stored events say of the permission and its authority
  complete,   \* whether no problem was reported since the permission was created
  last        \* what became of the last transaction, and what was decoded of it

decodeVars == <<chain, told, complete, last>>

-----------------------------------------------------------------------------
(***************************************************************************)
(* The program, the runtime and the node (external).                       *)
(***************************************************************************)
\* What a charge names wrongly; "early" comes before its period or before the permission starts.
Faults   == {"none", "authority", "mint", "signer", "early"}
Owners   == {"create", "cancel", "resume", "revoke", "abandon", "closeAuthority", "openAuthority"}
Ix(op, fault) == [op |-> op, fault |-> fault]
Calls    == {Ix("charge", f) : f \in Faults} \cup {Ix(op, "none") : op \in Owners \cup {"updatePlan"}}
Foreign  == {Ix("openPayee", "none"), Ix("refuse", "none")}   \* of other programs

Custom(by, code) == [by |-> by, type |-> "custom", code |-> code]
Runtime(by)      == [by |-> by, type |-> "runtime", code |-> 0]    \* InvalidAccountOwner
AnyOf(condition, causes) == IF condition THEN causes ELSE {}
OneOf(condition, cause)  == AnyOf(condition, {cause})

NoAccount == {107, 110}     \* a token account that is not one

\* Why a call is refused; the program's order among them is its own.
Causes(s, ix) ==
  CASE ix.op = "charge" /\ s.perm = "absent" -> {Runtime("ours")}
    [] ix.op = "charge" /\ s.perm # "absent" ->
         OneOf(ix.fault = "authority" \/ s.auth = "closed", Custom("ours", 103))
         \cup OneOf(ix.fault # "authority" /\ s.auth = "rotated", Custom("ours", 136))
         \cup AnyOf(ix.fault = "mint", {Custom("ours", 125), Custom("token", 3)})
         \cup AnyOf(ix.fault = "early", {Custom("ours", 401), Custom("ours", 407)})
         \cup OneOf(ix.fault = "signer", Custom("ours", 1))
         \cup OneOf(s.perm = "ended", Custom("ours", IF s.kind = "subscription" THEN 508 ELSE 128))
         \cup OneOf(s.kind = "subscription" /\ s.plan = "ended", Custom("ours", 501))
         \cup OneOf(s.left = 0, Custom("ours", IF s.kind = "fixed" THEN 300 ELSE 400))
         \cup AnyOf(s.purse = -1 \/ ~s.payee, {Custom("ours", code) : code \in NoAccount})
         \cup OneOf(s.purse = 0, Custom("token", 1))
    [] ix.op = "create" -> OneOf(s.perm # "absent" \/ s.auth = "closed", Custom("ours", 2))
    [] ix.op = "cancel" -> OneOf(s.perm # "live" \/ s.kind # "subscription", Custom("ours", 2))
    [] ix.op = "resume" -> OneOf(s.perm # "cancelled", Custom("ours", 2))
    [] ix.op = "revoke" ->
         OneOf(s.perm = "absent" \/ (s.kind = "subscription" /\ s.perm # "ended"), Custom("ours", 2))
    [] ix.op = "abandon" -> OneOf(s.perm = "absent" \/ s.auth = "live", Custom("ours", 2))
    [] ix.op = "closeAuthority" -> OneOf(s.auth = "closed", Custom("ours", 2))
    [] ix.op = "openAuthority" -> OneOf(s.auth # "closed", Custom("ours", 2))
    [] ix.op \in {"updatePlan", "openPayee"} -> {}
    [] ix.op = "refuse" -> {Custom("other", 300)}

After(s, ix) ==
  CASE ix.op = "charge" -> [s EXCEPT !.left = @ - 1, !.purse = @ - 1]
    [] ix.op = "create" -> [s EXCEPT !.perm = "live", !.auth = "live", !.left = MaxLeft]
    [] ix.op = "cancel" -> [s EXCEPT !.perm = "cancelled"]
    [] ix.op = "resume" -> [s EXCEPT !.perm = "live"]
    [] ix.op \in {"revoke", "abandon"} -> [s EXCEPT !.perm = "absent"]
    [] ix.op = "closeAuthority" -> [s EXCEPT !.auth = "closed"]
    [] ix.op = "openAuthority" -> [s EXCEPT !.auth = IF s.perm = "absent" THEN "live" ELSE "rotated"]
    [] ix.op = "updatePlan" -> [s EXCEPT !.plan = IF s.kind = "subscription" THEN "ended" ELSE @]
    [] ix.op = "openPayee" -> [s EXCEPT !.payee = TRUE]

\* A transaction: each call with its top-level instruction, and whether it is one. One call,
\* or two calls that name what they should: side by side, or by one call of another program.
Call(outer, direct, ix) == [outer |-> outer, direct |-> direct, ix |-> ix]
Plain == {ix \in Calls : ix.fault = "none"} \cup Foreign
Single == {<<Call(1, d, ix)>> : d \in BOOLEAN, ix \in Calls}
Pairs ==
  {<<Call(1, TRUE, ix), Call(2, TRUE, iy)>> : ix \in Plain, iy \in Plain \ Foreign}
  \cup {<<Call(1, FALSE, ix), Call(1, FALSE, iy)>> : ix \in Plain \ Foreign, iy \in Plain}

\* What one call leaves in the report: itself, and the event the program emits by calling
\* itself. A `newer` program writes both in a shape of its own.
Emits(s, ix) == ix.op \in {"charge", "cancel", "resume", "updatePlan"} \/ (ix.op = "create" /\ s.kind = "subscription")
Program(ix)  == IF ix \in Foreign THEN "other" ELSE "ours"
Line(call, what, newer) ==
  [outer |-> call.outer, inner |-> ~call.direct \/ what = "event", what |-> what, kind |-> chain.kind,
   program |-> Program(call.ix), ix |-> call.ix, newer |-> newer]

Trace(s, call, newer) ==
  <<Line(call, "instruction", newer)>>
  \o (IF Emits(s, call.ix) THEN <<Line(call, "event", newer)>> ELSE <<>>)

\* A run of the calls: the state, the number of the refused one, the charges taken.
Started == [state |-> chain, refused |-> 0, n |-> 0, trace |-> <<>>, taken |-> 0]
Step(r, call, newer) ==
  IF r.refused # 0 THEN r
  ELSE IF Causes(r.state, call.ix) # {} THEN [r EXCEPT !.refused = r.n + 1]
  ELSE [state |-> After(r.state, call.ix), refused |-> 0, n |-> r.n + 1,
        trace |-> r.trace \o Trace(r.state, call, newer),
        taken |-> r.taken + (IF call.ix.op = "charge" THEN 1 ELSE 0)]

\* The runtime logs a failure from the inside out; a log that grew too long is cut.
FailedLines(call, cause) ==
  (IF cause.by = "token" THEN <<"token">> ELSE <<>>)
  \o (IF cause.by = "other" THEN <<>> ELSE <<"ours">>)
  \o (IF call.direct /\ cause.by # "other" THEN <<>> ELSE <<"other">>)

NoError == [index |-> 0, cause |-> Runtime("ours")]

\* What the node reports: before is the state the balances were taken in.
Report(failed, error, trace, logs, before, balances) ==
  [failed |-> failed, error |-> error, trace |-> trace, logs |-> logs,
   before |-> before, balances |-> balances]

Ran(tx, newer) ==
  LET first == Step(Started, tx[1], newer)
  IN IF Len(tx) = 1 THEN first ELSE Step(first, tx[2], newer)

\* The refused call has no event; what the message calls directly is listed though never reached.
Reached(tx, r, newer) ==
  r.trace \o <<Line(tx[r.refused], "instruction", newer)>>
  \o [i \in 1 .. Len(tx) - r.refused |-> Line(tx[r.refused + i], "instruction", newer)]

-----------------------------------------------------------------------------
(***************************************************************************)
(* events.ts and decode.ts: the report read.                               *)
(***************************************************************************)

\* Calls by other programs are beside the message, in groups; all are put in order. An event
\* keeps the place of the line it was read from.
AllInstructions(report) == report.trace

Ours(report) == {i \in DOMAIN AllInstructions(report) : report.trace[i].program = "ours"}

ReadProgramEvent(line) ==
  IF line.what # "event" THEN "notAnEvent" ELSE IF line.newer THEN "unreadable" ELSE "event"

Parses(line) == line.what = "instruction" /\ ~line.newer

FromEvent(line) ==
  CASE line.ix.op = "create" -> "created"
    [] line.ix.op = "cancel" -> "cancelled"
    [] line.ix.op = "resume" -> "resumed"
    [] line.ix.op = "charge" -> "charged"
    [] line.ix.op = "updatePlan" -> "plan-updated"

FromInstructionForgets(line) ==
  CASE line.ix.op = "create" /\ line.kind # "subscription" -> "created"
    [] line.ix.op = "revoke" -> "revoked"
    [] line.ix.op = "closeAuthority" -> "authority-closed"
    [] OTHER -> "none"

FromInstruction(line) ==
  CASE line.ix.op = "create" /\ line.kind # "subscription" -> "created"
    [] line.ix.op \in {"revoke", "abandon"} -> "revoked"
    [] line.ix.op = "closeAuthority" -> "authority-closed"
    [] OTHER -> "none"

\* The innermost failure the log still names.
FailingProgramOutermost(logs) == IF logs = <<>> THEN "unknown" ELSE logs[Len(logs)]
FailingProgram(logs) == IF logs = <<>> THEN "unknown" ELSE logs[1]

\* What the balances before the transaction tell of the accounts a charge named.
Existing(report) ==
  IF ~report.balances THEN "unknown"
  ELSE CASE report.before.purse # -1 /\ report.before.payee  -> "both"
         [] report.before.purse # -1 /\ ~report.before.payee -> "source"
         [] report.before.purse = -1 /\ report.before.payee  -> "destination"
         [] report.before.purse = -1 /\ ~report.before.payee -> "neither"

AuthorityFacts(report, ix) ==
  IF ~report.balances \/ report.before.purse = -1 THEN "unknown"
  ELSE IF ix.fault = "authority" THEN "not the subscriber's"
  ELSE IF report.before.auth = "closed" THEN "gone" ELSE "existed"

Rejected(report, ix) ==
  [kind |-> "rejected", failure |-> [type |-> report.error.cause.type, code |-> report.error.cause.code],
   raisedBy |-> FailingProgram(report.logs), existing |-> Existing(report),
   authority |-> AuthorityFacts(report, ix)]

Decoded(events, problems) == [events |-> events, problems |-> problems]
NoEvents == [i \in {} |-> [kind |-> "none"]]

\* The charges of the failed instruction, whose error is ours when it is a direct call
\* or when our program logged it.
InFailed(report) == {i \in Ours(report) : report.trace[i].outer = report.error.index}
Attempts(report) == {i \in InFailed(report) : Parses(report.trace[i]) /\ report.trace[i].ix.op = "charge"}
RefusedByUs(report) ==
  (\E i \in InFailed(report) : ~report.trace[i].inner) \/ "ours" \in ToSet(report.logs)
RejectedIn(report) == [i \in Attempts(report) |-> Rejected(report, report.trace[i].ix)]

DecodeFailedQuietly(report) ==
  IF report.error = NoError \/ ~RefusedByUs(report) THEN Decoded(NoEvents, {})
  ELSE Decoded(RejectedIn(report), {})

DecodeFailed(report) ==
  IF report.error = NoError \/ Attempts(report) = {} THEN Decoded(NoEvents, {})
  ELSE IF ~RefusedByUs(report) THEN Decoded(NoEvents, {"unattributed-failure"})
  ELSE Decoded(RejectedIn(report), {})

Said(line) ==
  IF ReadProgramEvent(line) = "event" THEN FromEvent(line)
  ELSE IF Parses(line) THEN FromInstruction(line) ELSE "none"
Problems(report) ==
  {IF line.what = "event" THEN "unreadable-event" ELSE "unparsable-instruction" :
     line \in {report.trace[i] : i \in {j \in Ours(report) :
                ReadProgramEvent(report.trace[j]) # "event" /\ ~Parses(report.trace[j])}}}
Speaking(report) == {i \in Ours(report) : Said(report.trace[i]) # "none"}

\* Two events of one kind from one top-level instruction taken for one.
DecodeSucceededOnce(report) ==
  LET same(i, j) == /\ Said(report.trace[i]) = Said(report.trace[j])
                    /\ report.trace[i].outer = report.trace[j].outer
      firsts == {i \in Speaking(report) : \A j \in Speaking(report) : j < i => ~same(i, j)}
  IN Decoded([i \in firsts |-> [kind |-> Said(report.trace[i])]], Problems(report))

DecodeSucceeded(report) ==
  Decoded([i \in Speaking(report) |-> [kind |-> Said(report.trace[i])]], Problems(report))

DecodeTransaction(report) ==
  IF report.failed THEN DecodeFailed(report) ELSE DecodeSucceeded(report)

-----------------------------------------------------------------------------
(***************************************************************************)
(* reasons.ts: a code means nothing without its program.                   *)
(***************************************************************************)
Ceiling == {300, 400}
NotDue  == {401, 407}

ByCodeAlone(raisedBy, code) ==
  CASE code = 125 -> "wrong_mint"       [] code = 128 -> "expired"
    [] code = 136 -> "revoked"          [] code \in Ceiling -> "cap_exceeded"
    [] code = 501 -> "expired"          [] code = 1 -> "insufficient_funds"
    [] code = 3 -> "wrong_mint"         [] code \in NotDue -> "not_due_yet"
    [] OTHER -> "unmapped"

ByProgramAndCode(raisedBy, code) ==
  CASE raisedBy = "ours" /\ code = 125 -> "wrong_mint"
    [] raisedBy = "ours" /\ code \in {128, 501} -> "expired"
    [] raisedBy = "ours" /\ code = 136 -> "revoked"
    [] raisedBy = "ours" /\ code \in Ceiling -> "cap_exceeded"
    [] raisedBy = "ours" /\ code \in NotDue -> "not_due_yet"
    [] raisedBy = "token" /\ code = 1 -> "insufficient_funds"
    [] raisedBy = "token" /\ code = 3 -> "wrong_mint"
    [] OTHER -> "unmapped"

\* The same code answers a missing account of either side.
MissingAccount(existing) ==
  CASE existing = "source" -> "merchant_account_missing"
    [] existing = "destination" -> "insufficient_funds"
    [] OTHER -> "unmapped"

\* paused: the row carries our label. No code sets it.
ClassifyRejection(event, paused) ==
  LET ours == event.raisedBy = "ours"  code == event.failure.code
  IN CASE event.raisedBy = "unknown" -> "unmapped"
       [] event.raisedBy # "unknown" /\ event.failure.type = "runtime" ->
            IF ours THEN "revoked" ELSE "unmapped"
       [] event.raisedBy # "unknown" /\ event.failure.type = "custom" ->
            IF ours /\ code = 508 THEN IF paused THEN "paused" ELSE "revoked"
            ELSE IF ours /\ code \in NoAccount THEN MissingAccount(event.existing)
            ELSE IF ours /\ code = 103
                 THEN IF event.authority = "gone" THEN "revoked" ELSE "unmapped"
            ELSE ByProgramAndCode(event.raisedBy, code)

Reason(event) == ClassifyRejection(event, FALSE)

-----------------------------------------------------------------------------
NoCall == Ix("none", "none")
NoOutcome == [outcome |-> "none", ix |-> NoCall, cause |-> Runtime("ours"), at |-> chain, clear |-> FALSE,
            newer |-> FALSE, taken |-> 0, decoded |-> Decoded(NoEvents, {})]

\* What the stored events say: of the permission and of the authority, the latest.
PermTold == [k \in {"created", "cancelled", "resumed", "revoked"} |->
               IF k = "revoked" THEN "absent" ELSE IF k = "cancelled" THEN "cancelled" ELSE "live"]
AuthTold == [k \in {"created", "authority-closed"} |-> IF k = "created" THEN "live" ELSE "closed"]
Telling(events, said) == {i \in DOMAIN events : events[i].kind \in DOMAIN said}
Latest(events, said, otherwise) ==
  IF Telling(events, said) = {} THEN otherwise ELSE said[events[Max(Telling(events, said))].kind]
Apply(t, events) == [perm |-> Latest(events, PermTold, t.perm), auth |-> Latest(events, AuthTold, t.auth)]

Untold == [perm |-> "absent", auth |-> "live"]

\* After a problem nothing is claimed until the permission is created anew.
Store(decoded) ==
  /\ complete' = /\ decoded.problems = {}
                 /\ complete \/ "created" \in {decoded.events[i].kind : i \in DOMAIN decoded.events}
  /\ told' = IF complete' THEN Apply(told, decoded.events) ELSE Untold

DecodeInit ==
  /\ chain \in [kind : Kinds, perm : {"absent"}, auth : {"live"}, left : {0}, purse : {MaxLeft},
                payee : {TRUE}, plan : {"open"}]
  /\ told = Untold
  /\ complete = TRUE
  /\ last = NoOutcome

\* Time, the subscriber's and the merchant's accounts, and the plan.
Elsewhere ==
  /\ last.outcome = "none"
  /\ \E left \in 0 .. MaxLeft, purse \in -1 .. MaxLeft, payee \in BOOLEAN, plan \in {"open", "ended"}, perm \in {chain.perm, "ended"} :
       /\ plan # chain.plan => chain.kind = "subscription"
       /\ perm # chain.perm =>
            chain.perm = "cancelled" \/ (chain.perm = "live" /\ chain.kind # "subscription")
       /\ chain' = [chain EXCEPT !.left = left, !.purse = purse, !.payee = payee, !.plan = plan, !.perm = perm]
  /\ UNCHANGED <<told, complete>>
  /\ last' = [NoOutcome EXCEPT !.at = chain']

\* Between two transactions.
Settle ==
  /\ last.outcome # "none"
  /\ last' = NoOutcome
  /\ UNCHANGED <<chain, told, complete>>

\* Every call went through.
Succeeds(tx, newer, r) ==
  LET d == DecodeTransaction(Report(FALSE, NoError, r.trace, <<>>, chain, TRUE))
  IN /\ r.refused = 0
     /\ chain' = r.state
     /\ Store(d)
     /\ last' = [NoOutcome EXCEPT !.outcome = "ok", !.taken = r.taken, !.decoded = d, !.at = chain']

\* Every call went through, and the runtime refuses the transaction as a whole.
FailsWhole(tx, newer, r) ==
  LET d == DecodeTransaction(Report(TRUE, NoError, r.trace, <<>>, chain, TRUE))
  IN /\ r.refused = 0 /\ ~newer
     /\ Store(d)
     /\ last' = [NoOutcome EXCEPT !.outcome = "undone", !.decoded = d]
     /\ UNCHANGED chain

\* What a node leaves out is missed where the decoder looks for it, at a charge.
Charges(tx) == \E k \in DOMAIN tx : tx[k].ix.op = "charge"
Given(tx, all, less) == IF Charges(tx) THEN less \cup {all} ELSE {all}

\* A call is refused: nothing of the transaction stays.
Fails(tx, newer, r) ==
  /\ r.refused # 0
  /\ \E cause \in Causes(r.state, tx[r.refused].ix), balances \in Given(tx, TRUE, {FALSE}) :
       LET lines == Len(FailedLines(tx[r.refused], cause)) IN
       \E n \in Given(tx, lines, 0 .. lines) :
         LET logs == SubSeq(FailedLines(tx[r.refused], cause), 1, n)
             d == DecodeTransaction(Report(TRUE, [index |-> tx[r.refused].outer, cause |-> cause],
                                            Reached(tx, r, newer), logs, chain, balances))
         IN /\ Store(d)
            /\ last' = [NoOutcome EXCEPT !.outcome = "refused", !.ix = tx[r.refused].ix, !.cause = cause,
                          !.at = r.state, !.newer = newer, !.decoded = d,
                          !.clear = n > 0 /\ balances /\ chain.purse # -1 /\ chain.auth = r.state.auth]
  /\ UNCHANGED chain

Transact(tx, newer) ==
  LET r == Ran(tx, newer)
  IN Succeeds(tx, newer, r) \/ FailsWhole(tx, newer, r) \/ Fails(tx, newer, r)

DecodeNext ==
  \/ Elsewhere \/ Settle
  \/ /\ last.outcome = "none"
     /\ \/ \E tx \in Single, newer \in BOOLEAN : Transact(tx, newer)
        \/ \E tx \in Pairs : Transact(tx, FALSE)

-----------------------------------------------------------------------------
Events(kind) == {i \in DOMAIN last.decoded.events : last.decoded.events[i].kind = kind}

\* What the stored events say of the permission is how it stands on the chain, unless the
\* indexer reported that it could not read something: events, instructions without an
\* event and calls by other programs together (decode.ts:26-33, "nothing vanishes").
FeedTellsChain ==
  complete =>
    /\ told.perm = "absent" <=> chain.perm = "absent"
    /\ chain.kind = "subscription" => (told.perm = "cancelled" <=> chain.perm \in {"cancelled", "ended"})
    /\ chain.perm # "absent" => (told.auth = "closed" <=> chain.auth # "live")

\* As many charges are recorded as were taken: each one of a transaction that took several,
\* none of a transaction that was undone; or the indexer reported a problem.
ChargesAsTaken ==
  last.decoded.problems = {} => Cardinality(Events("charged")) = last.taken

\* Why a reason may be shown: what stood in the way when the charge was refused.
Holds(reason) ==
  CASE reason = "revoked" -> \/ last.at.perm = "absent" \/ last.at.auth # "live"
                             \/ last.at.perm = "ended" /\ last.at.kind = "subscription"
    [] reason = "cap_exceeded" -> last.at.left = 0
    [] reason = "expired" -> last.at.perm = "ended" \/ last.at.plan = "ended"
    [] reason = "insufficient_funds" -> last.at.purse < 1
    [] reason = "merchant_account_missing" -> ~last.at.payee
    [] reason = "wrong_mint" -> last.ix.fault = "mint"
    [] reason = "not_due_yet" -> last.ix.fault = "early"
    [] reason = "unmapped" -> TRUE

\* A reason shown to a person is true: what it names did stand in the way of the charge
\* that was refused, whichever of several refusals the program gave, and whatever the
\* node left out of its report (reasons.ts:106-111: never a guess).
ReasonTrue == \A i \in Events("rejected") : Holds(Reason(last.decoded.events[i]))

\* A refused charge leaves a trace: a rejected event, or a problem in the log.
RefusalKept ==
  last.outcome = "refused" /\ last.ix.op = "charge" /\ ~last.newer =>
    Events("rejected") # {} \/ last.decoded.problems # {}

\* The refusals that mean the subscriber took the permission away are named so whenever the
\* log and the balances show it, through another program too (reasons.ts:142: the most
\* important category).
RevocationNamed ==
  last.clear /\ ~last.newer /\ last.ix = Ix("charge", "none") /\ last.cause.by = "ours"
  /\ (last.cause.type = "runtime" \/ last.cause.code \in {103, 136, 508}) =>
    \E i \in Events("rejected") : Reason(last.decoded.events[i]) = "revoked"
-----------------------------------------------------------------------------
(* What is true at every moment of the permission and of what is said of it. *)
Chains ==
  [kind : Kinds, perm : {"absent", "live", "cancelled", "ended"}, auth : {"live", "closed", "rotated"},
   left : 0 .. MaxLeft, purse : -1 .. MaxLeft, payee : BOOLEAN, plan : {"open", "ended"}]

DecodeTypeOK ==
  /\ chain \in Chains /\ complete \in BOOLEAN
  /\ told \in [perm : {"absent", "live", "cancelled"}, auth : {"live", "closed"}]

DecodeInv ==
  DecodeTypeOK /\ FeedTellsChain /\ ChargesAsTaken /\ ReasonTrue /\ RefusalKept /\ RevocationNamed
=============================================================================
