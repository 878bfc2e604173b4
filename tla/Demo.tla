-------------------------------- MODULE Demo --------------------------------
(***************************************************************************)
(* `demo prepare` and `demo charge` of the merchant simulator: a command   *)
(* line that builds the show's world, may be cut short anywhere, and is    *)
(* run again.  Its sends are confirmed by asking, its reads may be of a    *)
(* node that is behind, and the owner cancels and subscribes meanwhile.    *)
(* Addresses are numbers taken from the lastId, which never gives one twice.*)
(***************************************************************************)
EXTENDS Naturals

CONSTANTS MaxRuns, MaxChanges    \* bounds: runs of demo prepare, steps of the owner

VARIABLES
  world,      \* what the chain holds of this owner, see Empty
  final,      \* an earlier world: what a node that is behind answers
  sent,       \* transactions a node has that have not landed
  fates,      \* the fate of those that have: [tx, ok]
  file,       \* the state file: a state, or NoFile when there is none that can be used
  catalog,    \* the plans that have a name in the API
  tool,       \* the process: its step, its copy of the state, its list, its transaction
  lastId,      \* the last address given out
  runs, changes,
  asked,      \* the permissions a charge was asked of, one in a behaviour
  hasty,      \* ghost: a run read the list before an earlier one's grant could be read
  acted,      \* ghost: the owner has changed something since this run read the list
  early       \* ghost: the charges asked for before the grant they are of was final

demoVars == <<world, final, sent, fates, file, catalog, tool, lastId, runs, changes, asked, hasty, acted, early>>

Nobody == 0
MerchantKey == 1       \* the address of merchant-sim

Empty == [funded |-> FALSE, ata |-> FALSE, auth |-> FALSE, live |-> {}, plans |-> {}, subs |-> {}]
NoTx   == [op |-> "none", to |-> Nobody, init |-> FALSE, id |-> Nobody]
NoFile == [second |-> Nobody, a |-> Nobody, b |-> Nobody, plan |-> Nobody, named |-> FALSE]
Stopped == [step |-> "idle", state |-> NoFile, list |-> Empty, tx |-> NoTx]

DemoInit ==
  /\ world = Empty /\ final = Empty
  /\ sent = {} /\ fates = {} /\ catalog = {}
  /\ file = NoFile /\ tool = Stopped
  /\ lastId = MerchantKey /\ runs = 0 /\ changes = 0 /\ asked = {}
  /\ hasty = FALSE /\ acted = FALSE /\ early = {}

-----------------------------------------------------------------------------
(* The chain and the owner.                                                *)
Accepts(tx) ==
  /\ tx.op = "grant" => world.funded /\ tx.init # world.auth
  /\ tx.op = "charge" => \E p \in world.live : p.id = tx.id

With(tx) ==
  CASE tx.op = "fund"   -> [world EXCEPT !.funded = TRUE]
    [] tx.op = "ata"    -> [world EXCEPT !.ata = TRUE]
    [] tx.op = "grant"  -> [world EXCEPT !.auth = TRUE, !.live = @ \cup {[to |-> tx.to, id |-> tx.id]}]
    [] tx.op = "plan"   -> [world EXCEPT !.plans = @ \cup {tx.id}]
    [] tx.op = "charge" -> world

Lands == \E tx \in sent :
  /\ sent' = sent \ {tx}
  /\ fates' = fates \cup {[tx |-> tx, ok |-> Accepts(tx)]}
  /\ world' = IF Accepts(tx) THEN With(tx) ELSE world
  /\ UNCHANGED <<final, file, catalog, tool, lastId, runs, changes, asked, hasty, acted, early>>

\* A blockhash expires: what was never put into a block is gone.
Expires == \E tx \in sent :
  /\ sent' = sent \ {tx}
  /\ UNCHANGED <<world, final, fates, file, catalog, tool, lastId, runs, changes, asked, hasty, acted, early>>

Finalizes ==
  /\ final # world /\ final' = world
  /\ UNCHANGED <<world, sent, fates, file, catalog, tool, lastId, runs, changes, asked, hasty, acted, early>>

\* The owner cancels a permission or takes the plan, in the browser.
OwnerActs ==
  /\ changes < MaxChanges /\ changes' = changes + 1 /\ acted' = TRUE
  /\ \/ \E p \in world.live : world' = [world EXCEPT !.live = @ \ {p}]
     \/ \E id \in world.plans \ world.subs : world' = [world EXCEPT !.subs = @ \cup {id}]
  /\ UNCHANGED <<final, sent, fates, file, catalog, tool, lastId, runs, asked, hasty, early>>

\* The file is damaged, lost, or written for another owner's key.
LosesFile ==
  /\ file # NoFile /\ changes < MaxChanges /\ changes' = changes + 1
  /\ file' = NoFile
  /\ UNCHANGED <<world, final, sent, fates, catalog, tool, lastId, runs, asked, hasty, acted, early>>

-----------------------------------------------------------------------------
(* Sending with the devnet keys.                                           *)
Fails ==
  /\ tool' = Stopped
  /\ UNCHANGED <<world, final, fates, file, catalog, runs, changes, asked, hasty, acted, early>>

\* The build or the node refuses, or the node's answer is lost after it took the transaction.
SendAndConfirm(tx) ==
  /\ lastId' = lastId + 1
  /\ \/ sent' \in {sent, sent \cup {tx}} /\ Fails
     \/ /\ sent' = sent \cup {tx} /\ tool' = [tool EXCEPT !.tx = tx]
        /\ UNCHANGED <<world, final, fates, file, catalog, runs, changes, asked, hasty, acted, early>>

Fate == {f.ok : f \in {g \in fates : g.tx = tool.tx}}

\* A deadline may pass before the transaction lands, and it may land after.
GivesUp == tool.tx # NoTx /\ TRUE \notin Fate /\ UNCHANGED <<sent, lastId>> /\ Fails

-----------------------------------------------------------------------------
(* A run of `demo prepare`.                                                *)
Fund   == [op |-> "fund", to |-> Nobody, init |-> FALSE, id |-> lastId + 1]
Ata    == [Fund EXCEPT !.op = "ata"]
Create == [Fund EXCEPT !.op = "plan"]

\* Mutant of Grant: every permission to one recipient has the same nonce.
GrantNonceZero(to, seen) == [op |-> "grant", to |-> to, init |-> ~seen.auth, id |-> to]

\* authorityInitId, and the init in the same transaction when there is no authority yet.
Grant(to, seen) == [op |-> "grant", to |-> to, init |-> ~seen.auth, id |-> lastId + 1]

\* A node answers from the chain, or from a little earlier.
NodeAnswers == {world, final}

Goes(step) == tool' = [tool EXCEPT !.step = step, !.tx = NoTx]
Quiet == UNCHANGED <<world, final, sent, fates, catalog, runs, changes, asked, early>>

\* A file for another owner and a damaged one start over, with a new second recipient.
Opened(second) ==
  IF file # NoFile THEN file ELSE [NoFile EXCEPT !.second = second]

Begin ==
  /\ tool.step = "idle" /\ runs < MaxRuns /\ runs' = runs + 1
  /\ tool' = [Stopped EXCEPT !.step = "fund", !.state = Opened(lastId + 1)]
  /\ lastId' = IF file = NoFile THEN lastId + 1 ELSE lastId
  /\ UNCHANGED <<world, final, sent, fates, file, catalog, changes, asked, hasty, acted, early>>

\* fundOwner, and the token account the subscribe screen asks for.
Equip ==
  /\ tool.tx = NoTx
  /\ \E seen \in NodeAnswers :
       \/ tool.step = "fund" /\ ~seen.funded /\ SendAndConfirm(Fund)
       \/ tool.step = "ata" /\ ~seen.ata /\ SendAndConfirm(Ata)
       \/ /\ (tool.step = "fund" /\ seen.funded) \/ (tool.step = "ata" /\ seen.ata)
          /\ Goes(IF tool.step = "fund" THEN "ata" ELSE "list")
          /\ Quiet /\ UNCHANGED <<file, lastId, hasty, acted>>

Equipped ==
  /\ tool.step \in {"fund", "ata"} /\ tool.tx # NoTx /\ TRUE \in Fate
  /\ Goes(IF tool.step = "fund" THEN "ata" ELSE "list")
  /\ Quiet /\ UNCHANGED <<file, lastId, hasty, acted>>

\* held, and again before the plan.
ReadList ==
  /\ tool.step \in {"list", "list again"}
  /\ \E seen \in NodeAnswers :
       /\ tool' = [tool EXCEPT !.list = seen, !.step = IF @ = "list" THEN "a" ELSE "plan"]
       /\ hasty' = (hasty \/ seen # world \/ (tool.step = "list" /\ sent # {}))
  /\ acted' = (acted /\ tool.step # "list")
  /\ Quiet /\ UNCHANGED <<file, lastId>>

\* Mutant of LiveRecurring: only the one on record is kept.
LiveRecurringRecorded(list, to, recorded) == {p.id : p \in {q \in list.live : q.id = recorded}}

\* Those of the recipient; the one on record is preferred.
LiveRecurring(list, to, recorded) ==
  LET live == {p.id : p \in {q \in list.live : q.to = to}}
  IN IF recorded \in live THEN {recorded} ELSE live

Recipient == IF tool.step = "a" THEN MerchantKey ELSE tool.state.second
Recorded == IF tool.step = "a" THEN tool.state.a ELSE tool.state.b

\* save: after every step.
Saves(state, step) ==
  /\ tool' = [tool EXCEPT !.state = state, !.step = step, !.tx = NoTx]
  /\ file' = state

Has(id) ==
  IF tool.step = "a" THEN Saves([tool.state EXCEPT !.a = id], "b")
  ELSE Saves([tool.state EXCEPT !.b = id], "list again")

Keep ==
  /\ tool.step \in {"a", "b"} /\ tool.tx = NoTx
  /\ \E id \in LiveRecurring(tool.list, Recipient, Recorded) : Has(id)
  /\ Quiet /\ UNCHANGED <<lastId, hasty, acted>>

Give ==
  /\ tool.step \in {"a", "b"} /\ tool.tx = NoTx
  /\ LiveRecurring(tool.list, Recipient, Recorded) = {}
  /\ \E seen \in NodeAnswers : SendAndConfirm(Grant(Recipient, seen))

Given ==
  /\ tool.step \in {"a", "b"} /\ tool.tx # NoTx /\ TRUE \in Fate
  /\ Has(tool.tx.id)
  /\ Quiet /\ UNCHANGED <<lastId, hasty, acted>>

PlanIsSpent == tool.state.plan = Nobody \/ tool.state.plan \in tool.list.subs

MakePlan ==
  /\ tool.step = "plan" /\ tool.tx = NoTx
  /\ \/ PlanIsSpent /\ SendAndConfirm(Create)
     \/ ~PlanIsSpent /\ Goes("name") /\ Quiet /\ UNCHANGED <<file, lastId, hasty, acted>>

\* Mutant of WithPlan: the new plan takes over the old one's name.
WithPlanNamed(id) == [tool.state EXCEPT !.plan = id]

WithPlan(id) == [tool.state EXCEPT !.plan = id, !.named = FALSE]

PlanMade ==
  /\ tool.step = "plan" /\ tool.tx # NoTx /\ TRUE \in Fate
  /\ Saves(WithPlan(tool.tx.id), "name")
  /\ Quiet /\ UNCHANGED <<lastId, hasty, acted>>

\* wakeApi, merchantSignIn, namePlan: any may fail, and the last after it was done.
NamePlan ==
  /\ tool.step = "name"
  /\ \/ tool.state.named /\ Goes("done") /\ UNCHANGED <<file, catalog>>
     \/ /\ ~tool.state.named /\ catalog' = catalog \cup {tool.state.plan}
        /\ Saves([tool.state EXCEPT !.named = TRUE], "done")
     \/ /\ ~tool.state.named /\ catalog' \in {catalog, catalog \cup {tool.state.plan}}
        /\ tool' = Stopped /\ UNCHANGED file
  /\ UNCHANGED <<world, final, sent, fates, lastId, runs, changes, asked, hasty, acted, early>>

Ends == tool.step = "done" /\ UNCHANGED <<sent, lastId>> /\ Fails

\* A run is cut short anywhere.
Cut == tool.step \notin {"idle", "done"} /\ UNCHANGED <<sent, lastId>> /\ Fails

\* Mutant of MayCharge: it is sent whatever the account is.
MayChargeAnyway(seen) == TRUE

\* While A is still on chain nothing is sent.
MayCharge(seen) == \A p \in seen.live : p.id # file.a

\* `demo charge`, another run of the tool between two of the others.
ChargeA ==
  /\ tool.step = "idle" /\ file.a # Nobody /\ asked = {} /\ asked' = {file.a}
  /\ \E seen \in NodeAnswers :
       /\ MayCharge(seen)
       /\ early' = IF \E p \in world.live \ final.live : p.id = file.a THEN early \cup {file.a} ELSE early
  /\ sent' = sent \cup {[Fund EXCEPT !.op = "charge", !.id = file.a]}
  /\ UNCHANGED <<world, final, fates, file, catalog, tool, lastId, runs, changes, hasty, acted>>

PrepareDemo ==
  \/ Begin \/ Equip \/ Equipped \/ ReadList \/ Keep \/ Give \/ Given
  \/ MakePlan \/ PlanMade \/ NamePlan \/ GivesUp \/ Cut \/ Ends

DemoNext == Lands \/ Expires \/ Finalizes \/ OwnerActs \/ LosesFile \/ PrepareDemo \/ ChargeA

-----------------------------------------------------------------------------
LiveTo(to) == {p \in world.live : p.to = to}

\* What is already there is kept, and a run cut short keeps what landed (demo.ts:47, 385):
\* never two permissions to one recipient, once an earlier run's sends could be read.
KeepsWhatLanded ==
  ~hasty => \A p \in world.live : LiveTo(p.to) = {p}

\* The file names only what landed, whatever was cut short or never confirmed.
FileNamesLanded ==
  file # NoFile =>
    \A id \in {file.a, file.b, file.plan} \ {Nobody} : \E f \in fates : f.ok /\ f.tx.id = id

\* At the end of a run the whole show is there: both permissions, and a plan that is
\* named and not yet taken, whatever earlier runs left undone.
PreparedWorld ==
  tool.step = "done" /\ ~hasty /\ ~acted =>
    /\ world.funded /\ world.ata
    /\ \E p \in LiveTo(MerchantKey) : p.id = tool.state.a
    /\ \E p \in LiveTo(tool.state.second) : p.id = tool.state.b
    /\ tool.state.plan \in (world.plans \cap catalog) \ world.subs

\* The charge that is shown meets a permission that is gone, and takes nothing.
ChargeTakesNothing ==
  \A f \in fates : f.tx.op = "charge" /\ f.ok => f.tx.id \in early

DemoHolds == KeepsWhatLanded /\ FileNamesLanded /\ PreparedWorld /\ ChargeTakesNothing
-----------------------------------------------------------------------------
(***************************************************************************)
(* Why the show is there.                                                  *)
(***************************************************************************)
Perms == [to : Nat, id : Nat]
Worlds == [funded : BOOLEAN, ata : BOOLEAN, auth : BOOLEAN,
           live : SUBSET Perms, plans : SUBSET Nat, subs : SUBSET Nat]
Txs    == [op : {"fund", "ata", "grant", "plan", "charge"}, to : Nat, init : BOOLEAN, id : Nat]
States == [second : Nat, a : Nat, b : Nat, plan : Nat, named : BOOLEAN]
ToolSteps == {"idle", "fund", "ata", "list", "a", "b", "list again", "plan", "name", "done"}
Tools  == [step : ToolSteps, state : States, list : Worlds, tx : Txs \cup {NoTx}]

DemoTypeOK ==
  /\ world \in Worlds /\ final \in Worlds
  /\ sent \in SUBSET Txs /\ fates \in SUBSET [tx : Txs, ok : BOOLEAN]
  /\ file \in States /\ catalog \in SUBSET Nat
  /\ tool \in Tools
  /\ lastId \in Nat /\ lastId >= MerchantKey
  /\ asked \in SUBSET Nat /\ early \in SUBSET Nat /\ hasty \in BOOLEAN /\ acted \in BOOLEAN

Grants == {tx \in sent : tx.op = "grant"}
Landed(op, id) == \E f \in fates : f.ok /\ f.tx.op = op /\ f.tx.id = id

\* An address is given once: what was sent under it lands once, or never.
IdsAreOwn ==
  /\ tool.tx.id <= lastId
  /\ \A f \in fates : f.tx.id <= lastId
  /\ \A t \in sent :
       /\ t.id <= lastId
       /\ t.op # "charge" =>
            /\ \A u \in sent : u.op # "charge" /\ u.id = t.id => u = t
            /\ \A f \in fates : f.tx.op # "charge" => f.tx.id # t.id

\* What landed is there, and what is there landed; a node that is behind is of an earlier time.
WorldIsSent ==
  /\ \A f \in fates : f.ok =>
       /\ f.tx.op = "fund" => world.funded
       /\ f.tx.op = "ata" => world.ata
       /\ f.tx.op = "plan" => f.tx.id \in world.plans
  /\ \A p \in world.live \cup final.live \cup tool.list.live : Landed("grant", p.id)
  /\ final.funded => world.funded
  /\ final.ata => world.ata
  /\ world.subs \subseteq world.plans
  /\ \A id \in world.plans : id <= lastId

\* What the state says was done was done.
StateTrue(state) ==
  /\ state.a # Nobody => Landed("grant", state.a)
  /\ state.b # Nobody => Landed("grant", state.b)
  /\ state.plan # Nobody => Landed("plan", state.plan)
  /\ state.named => state.plan \in catalog

StatesTrue ==
  /\ StateTrue(file) /\ StateTrue(tool.state)
  /\ file # NoFile => file.second > MerchantKey
  /\ tool.step # "idle" => tool.state.second > MerchantKey

\* The transaction a step waits for is its own.
TxIsSteps ==
  tool.tx # NoTx =>
    \/ tool.step = "fund" /\ tool.tx.op = "fund"
    \/ tool.step = "ata" /\ tool.tx.op = "ata"
    \/ tool.step \in {"a", "b"} /\ tool.tx.op = "grant" /\ tool.tx.to = Recipient
    \/ tool.step = "plan" /\ tool.tx.op = "plan" /\ tool.tx.id # Nobody

\* A recipient has one permission, or one on its way.
OneEach ==
  ~hasty =>
    /\ \A p, q \in world.live : p.to = q.to => p = q
    /\ \A g, h \in Grants : g.to = h.to => g = h
    /\ \A g \in Grants, p \in world.live : g.to # p.to

\* Since the list was read, permissions were given by this run only, each in its step.
GivenInTurn ==
  ~hasty /\ (tool.step = "a" \/ (tool.step = "b" /\ tool.tx = NoTx)) =>
    /\ \A g \in Grants : g.to = MerchantKey
    /\ \A p \in world.live : p.to = MerchantKey \/ p \in tool.list.live
    /\ tool.step = "a" /\ tool.tx = NoTx => Grants = {} /\ world.live \subseteq tool.list.live

\* How far the run has come.
Equipment ==
  /\ tool.step \notin {"idle", "fund"} => world.funded
  /\ tool.step \notin {"idle", "fund", "ata"} => world.ata

Kept ==
  ~hasty /\ ~acted =>
    /\ tool.step \in {"a", "b"} => tool.list.live \subseteq world.live
    /\ tool.step \in {"a", "b"} /\ tool.tx # NoTx /\ TRUE \in Fate =>
         [to |-> tool.tx.to, id |-> tool.tx.id] \in world.live
    /\ tool.step \in {"b", "list again", "plan", "name", "done"} =>
         [to |-> MerchantKey, id |-> tool.state.a] \in world.live
    /\ tool.step \in {"list again", "plan", "name", "done"} =>
         [to |-> tool.state.second, id |-> tool.state.b] \in world.live

Planned ==
  /\ ~hasty /\ ~acted =>
       /\ tool.step = "plan" => world.subs \subseteq tool.list.subs
       /\ tool.step = "plan" /\ tool.tx # NoTx => tool.tx.id \notin world.subs
       /\ tool.step \in {"name", "done"} => tool.state.plan \notin world.subs
  /\ tool.step \in {"name", "done"} => tool.state.plan # Nobody
  /\ tool.step = "done" => tool.state.plan \in catalog

\* A permission that a charge is shown with is gone for good.
ChargesLate ==
  /\ \A t \in sent : t.op = "charge" =>
       t.id \in early \/ ((\A p \in world.live : p.id # t.id) /\ (\A g \in Grants : g.id # t.id))
  /\ ChargeTakesNothing

DemoInv ==
  /\ DemoTypeOK /\ IdsAreOwn /\ WorldIsSent /\ StatesTrue /\ TxIsSteps
  /\ OneEach /\ GivenInTurn /\ Equipment /\ Kept /\ Planned /\ ChargesLate
=============================================================================
