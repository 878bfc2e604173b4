-------------------------- MODULE Lifecycle_proofs --------------------------
(***************************************************************************)
(* Proofs about Lifecycle: the verdicts of the merchant's tool, the show   *)
(* it prepares, what the subscribe page agrees and what the cancel page    *)
(* says, for every value of the constants.                                 *)
(***************************************************************************)
EXTENDS Lifecycle, FiniteSetTheorems, WellFoundedInduction, TLAPS

-----------------------------------------------------------------------------
(***************************************************************************)
(* The show.                                                               *)
(***************************************************************************)
LEMMA WorldsLanded == ASSUME DemoTypeOK, NEW tx \in Txs PROVE With(tx) \in Worlds
<1>1. world \in Worlds /\ tx.id \in Nat /\ tx.to \in Nat /\ tx.op \in {"fund", "ata", "grant", "plan", "charge"}
  BY DEF DemoTypeOK, Txs
<1>2. CASE tx.op = "fund"
  BY <1>1, <1>2 DEF With, Worlds
<1>3. CASE tx.op = "ata"
  BY <1>1, <1>3 DEF With, Worlds
<1>4. CASE tx.op = "grant"
  <2>1. With(tx) = [world EXCEPT !.auth = TRUE, !.live = @ \cup {[to |-> tx.to, id |-> tx.id]}]
    BY <1>4 DEF With
  <2>2. world.live \cup {[to |-> tx.to, id |-> tx.id]} \in SUBSET Perms
    BY <1>1 DEF Worlds, Perms
  <2> QED BY <2>1, <2>2, <1>1 DEF Worlds
<1>5. CASE tx.op = "plan"
  BY <1>1, <1>5 DEF With, Worlds
<1>6. CASE tx.op = "charge"
  BY <1>1, <1>6 DEF With
<1> QED BY <1>1, <1>2, <1>3, <1>4, <1>5, <1>6

LEMMA ToolMoves ==
  ASSUME tool \in Tools, NEW step \in ToolSteps, NEW state \in States, NEW list \in Worlds,
         NEW tx \in Txs \cup {NoTx}
  PROVE  /\ Stopped \in Tools
         /\ [tool EXCEPT !.tx = tx] \in Tools
         /\ [tool EXCEPT !.list = list, !.step = step] \in Tools
         /\ [tool EXCEPT !.step = step, !.tx = NoTx] \in Tools
         /\ [tool EXCEPT !.state = state, !.step = step, !.tx = NoTx] \in Tools
         /\ [Stopped EXCEPT !.step = step, !.state = state] \in Tools
<1>1. NoFile \in States
  BY DEF NoFile, States, Nobody
<1>2. Empty \in Worlds
  BY DEF Empty, Worlds
<1>3. Stopped \in Tools
  BY <1>1, <1>2 DEF Stopped, Tools, ToolSteps
<1> QED BY <1>3 DEF Tools

LEMMA Equipping ==
  DemoTypeOK => /\ Fund \in Txs /\ Ata \in Txs /\ Create \in Txs
                /\ Fund.op = "fund" /\ Ata.op = "ata" /\ Create.op = "plan"
                /\ Fund.id = lastId + 1 /\ Ata.id = lastId + 1 /\ Create.id = lastId + 1
<1> SUFFICES ASSUME DemoTypeOK
             PROVE  /\ Fund \in Txs /\ Ata \in Txs /\ Create \in Txs
                    /\ Fund.op = "fund" /\ Ata.op = "ata" /\ Create.op = "plan"
                    /\ Fund.id = lastId + 1 /\ Ata.id = lastId + 1 /\ Create.id = lastId + 1
  OBVIOUS
<1>1. lastId + 1 \in Nat
  BY DEF DemoTypeOK
<1>2. Fund \in Txs /\ Fund.op = "fund" /\ Fund.id = lastId + 1
  BY <1>1 DEF Fund, Txs, Nobody
<1>3. Ata \in Txs /\ Ata.op = "ata" /\ Ata.id = lastId + 1
  BY <1>2 DEF Ata, Txs
<1>4. Create \in Txs /\ Create.op = "plan" /\ Create.id = lastId + 1
  BY <1>2 DEF Create, Txs
<1> QED BY <1>2, <1>3, <1>4

LEMMA SentTyped ==
  ASSUME DemoTypeOK, NEW tx \in Txs, SendAndConfirm(tx)
  PROVE  DemoTypeOK'
<1>1. lastId' \in Nat /\ lastId' >= MerchantKey
  BY DEF DemoTypeOK, SendAndConfirm, MerchantKey
<1>2. sent' \in SUBSET Txs
  BY DEF DemoTypeOK, SendAndConfirm
<1>4. tool' \in Tools
  <2>1. tool' \in {Stopped, [tool EXCEPT !.tx = tx]}
    BY DEF SendAndConfirm, Fails
  <2>2. tool.step \in ToolSteps /\ tool.state \in States /\ tool.list \in Worlds /\ tool \in Tools
    BY DEF DemoTypeOK, Tools
  <2> QED BY <2>1, <2>2, ToolMoves
<1>5. UNCHANGED <<world, final, fates, file, catalog, runs, changes, asked, hasty, acted, early>>
  BY DEF SendAndConfirm, Fails
<1> QED BY <1>1, <1>2, <1>4, <1>5 DEF DemoTypeOK

LEMMA DemoTyped == DemoTypeOK /\ [DemoNext]_demoVars => DemoTypeOK'
<1> SUFFICES ASSUME DemoTypeOK, [DemoNext]_demoVars PROVE DemoTypeOK'
  OBVIOUS
<1>0. NoFile \in States
  BY DEF NoFile, States, Nobody
<1>t. tool \in Tools /\ tool.step \in ToolSteps /\ tool.state \in States /\ tool.list \in Worlds /\ tool.tx \in Txs \cup {NoTx}
  BY DEF DemoTypeOK, Tools
<1>n. /\ NoTx \in Txs \cup {NoTx}
      /\ \A step \in {"fund", "ata", "list", "a", "b", "list again", "plan", "name", "done"} : step \in ToolSteps
  BY DEF ToolSteps
<1>1. CASE Lands
  <2>1. PICK tx \in sent : /\ sent' = sent \ {tx}
                           /\ fates' = fates \cup {[tx |-> tx, ok |-> Accepts(tx)]}
                           /\ world' = IF Accepts(tx) THEN With(tx) ELSE world
                           /\ UNCHANGED <<final, file, catalog, tool, lastId, runs, changes, asked, hasty, acted, early>>
    BY <1>1 DEF Lands
  <2>2. tx \in Txs /\ sent' \in SUBSET Txs
    BY <2>1 DEF DemoTypeOK
  <2>3. Accepts(tx) \in BOOLEAN
    BY DEF Accepts
  <2>4. fates' \in SUBSET [tx : Txs, ok : BOOLEAN]
    BY <2>1, <2>2, <2>3 DEF DemoTypeOK
  <2>5. world' \in Worlds
    BY <2>1, <2>2, WorldsLanded DEF DemoTypeOK
  <2> QED BY <2>1, <2>2, <2>4, <2>5 DEF DemoTypeOK
<1>2. CASE OwnerActs
  <2>1. world' \in Worlds
    <3>1. world \in Worlds
      BY DEF DemoTypeOK
    <3>2. ASSUME NEW live \in SUBSET Perms PROVE [world EXCEPT !.live = live] \in Worlds
      BY <3>1, <3>2 DEF Worlds
    <3>3. ASSUME NEW subs \in SUBSET Nat PROVE [world EXCEPT !.subs = subs] \in Worlds
      BY <3>1, <3>3 DEF Worlds
    <3>4. world.live \in SUBSET Perms /\ world.plans \in SUBSET Nat /\ world.subs \in SUBSET Nat
      BY <3>1 DEF Worlds
    <3>5. CASE \E p \in world.live : world' = [world EXCEPT !.live = @ \ {p}]
      BY <3>5, <3>2, <3>4
    <3>6. CASE \E id \in world.plans \ world.subs : world' = [world EXCEPT !.subs = @ \cup {id}]
      <4>1. PICK id \in world.plans \ world.subs : world' = [world EXCEPT !.subs = @ \cup {id}]
        BY <3>6
      <4>2. world.subs \cup {id} \in SUBSET Nat
        BY <3>4
      <4> QED BY <4>1, <4>2, <3>3
    <3> QED BY <1>2, <3>5, <3>6 DEF OwnerActs
  <2> QED BY <1>2, <2>1 DEF OwnerActs, DemoTypeOK
<1>3. CASE Expires \/ Finalizes \/ LosesFile
  BY <1>3, <1>0 DEF Expires, Finalizes, LosesFile, DemoTypeOK
<1>4. CASE Begin
  <2>1. Opened(lastId + 1) \in States
    BY <1>0 DEF Opened, DemoTypeOK, States
  <2>2. tool' \in Tools
    BY <1>4, <1>t, <1>n, <2>1, ToolMoves DEF Begin
  <2> QED BY <1>4, <2>2 DEF Begin, DemoTypeOK, MerchantKey
<1>5. Fund \in Txs /\ Ata \in Txs /\ Create \in Txs
  BY Equipping
<1>6. ASSUME NEW step \in ToolSteps, Goes(step), Quiet, UNCHANGED <<file, lastId, hasty, acted>> PROVE DemoTypeOK'
  <2>1. tool' \in Tools
    BY <1>6, <1>t, ToolMoves DEF Goes
  <2> QED BY <1>6, <2>1 DEF Quiet, DemoTypeOK
<1>7. CASE Equip
  BY <1>7, <1>5, <1>6, <1>n, SentTyped DEF Equip
<1>8. CASE Equipped
  BY <1>8, <1>6, <1>n DEF Equipped
<1>9. CASE ReadList
  <2>1. PICK seen \in NodeAnswers :
          /\ tool' = [tool EXCEPT !.list = seen, !.step = IF @ = "list" THEN "a" ELSE "plan"]
          /\ hasty' = (hasty \/ seen # world \/ (tool.step = "list" /\ sent # {}))
    BY <1>9 DEF ReadList
  <2>2. seen \in Worlds
    BY DEF NodeAnswers, DemoTypeOK
  <2>3. tool' \in Tools
    BY <2>1, <2>2, <1>t, <1>n, ToolMoves
  <2>4. hasty' \in BOOLEAN
    BY <2>1
  <2>5. acted' \in BOOLEAN
    BY <1>9 DEF ReadList
  <2> QED BY <1>9, <2>3, <2>4, <2>5 DEF ReadList, Quiet, DemoTypeOK
<1>10. ASSUME NEW state \in States, NEW step \in ToolSteps, Saves(state, step) PROVE tool' \in Tools /\ file' \in States
  BY <1>10, <1>t, ToolMoves DEF Saves
<1>11. ASSUME NEW id \in Nat, Has(id), Quiet, UNCHANGED <<lastId, hasty, acted>> PROVE DemoTypeOK'
  <2>1. [tool.state EXCEPT !.a = id] \in States /\ [tool.state EXCEPT !.b = id] \in States
    BY <1>t DEF States
  <2>2. tool' \in Tools /\ file' \in States
    BY <1>10, <1>11, <1>n, <2>1 DEF Has
  <2> QED BY <1>11, <2>2 DEF Quiet, DemoTypeOK
<1>12. CASE Keep
  <2>1. PICK id \in LiveRecurring(tool.list, Recipient, Recorded) : Has(id)
    BY <1>12 DEF Keep
  <2>2. \A p \in tool.list.live : p.id \in Nat
    BY <1>t DEF Worlds, Perms
  <2>3. id \in Nat
    BY <2>1, <2>2 DEF LiveRecurring
  <2> QED BY <1>12, <2>1, <2>3, <1>11 DEF Keep
<1>13. CASE Given
  <2>1. tool.tx.id \in Nat
    BY <1>13, <1>t DEF Given, Txs
  <2> QED BY <1>13, <2>1, <1>11 DEF Given
<1>14. CASE Give
  <2>1. PICK seen \in NodeAnswers : SendAndConfirm(Grant(Recipient, seen))
    BY <1>14 DEF Give
  <2>2. (~seen.auth) \in BOOLEAN /\ lastId + 1 \in Nat
    BY DEF DemoTypeOK
  <2>3. Recipient \in Nat
    BY <1>t DEF Recipient, States, MerchantKey
  <2>4. Grant(Recipient, seen) \in Txs
    BY <2>2, <2>3 DEF Grant, Txs
  <2> QED BY <2>1, <2>4, SentTyped
<1>15. CASE MakePlan
  BY <1>15, <1>5, <1>6, <1>n, SentTyped DEF MakePlan
<1>16. CASE PlanMade
  <2>1. WithPlan(tool.tx.id) \in States
    BY <1>16, <1>t DEF PlanMade, WithPlan, States, Txs
  <2>2. tool' \in Tools /\ file' \in States
    BY <2>1, <1>16, <1>10, <1>n DEF PlanMade
  <2> QED BY <1>16, <2>2 DEF PlanMade, Quiet, DemoTypeOK
<1>17. CASE NamePlan
  <2>1. catalog' \in SUBSET Nat
    BY <1>17, <1>t DEF NamePlan, DemoTypeOK, States
  <2>2. [tool.state EXCEPT !.named = TRUE] \in States
    BY <1>t DEF States
  <2>3. tool' \in Tools /\ file' \in States
    <3>1. CASE Goes("done") /\ UNCHANGED file
      BY <3>1, <1>t, <1>n, ToolMoves DEF Goes, DemoTypeOK
    <3>2. CASE Saves([tool.state EXCEPT !.named = TRUE], "done")
      BY <3>2, <2>2, <1>10, <1>n
    <3>3. CASE tool' = Stopped /\ UNCHANGED file
      BY <3>3, <1>t, ToolMoves DEF DemoTypeOK
    <3> QED BY <1>17, <3>1, <3>2, <3>3 DEF NamePlan
  <2> QED BY <1>17, <2>1, <2>3 DEF NamePlan, DemoTypeOK
<1>18. CASE GivesUp \/ Cut \/ Ends
  <2>1. tool' = Stopped /\ UNCHANGED <<sent, lastId, world, final, fates, file, catalog, asked, hasty, acted, early>>
    BY <1>18 DEF GivesUp, Cut, Ends, Fails
  <2>2. tool' \in Tools
    BY <2>1, <1>t, ToolMoves
  <2> QED BY <2>1, <2>2 DEF DemoTypeOK
<1>19. CASE ChargeA
  <2>1. file.a \in Nat
    BY DEF DemoTypeOK, States
  <2>2. [Fund EXCEPT !.op = "charge", !.id = file.a] \in Txs
    BY <1>5, <2>1 DEF Txs
  <2> QED BY <1>19, <2>1, <2>2 DEF ChargeA, DemoTypeOK
<1>20. CASE UNCHANGED demoVars
  BY <1>20 DEF demoVars, DemoTypeOK
<1> QED BY <1>1, <1>2, <1>3, <1>4, <1>7, <1>8, <1>9, <1>12, <1>13, <1>14, <1>15, <1>16, <1>17, <1>18, <1>19, <1>20
        DEF DemoNext, PrepareDemo

-----------------------------------------------------------------------------
\* What a step may do to the transactions: send one under the next address, land one,
\* lose one, send the charge, or nothing.
Sends(tx) ==
  /\ tx \in Txs /\ tx.op # "charge" /\ tx.id = lastId + 1 /\ lastId' = lastId + 1
  /\ sent' \in {sent, sent \cup {tx}}
  /\ UNCHANGED fates
  /\ tool'.tx \in {NoTx, tx} /\ (tool'.tx = tx => sent' = sent \cup {tx} /\ tool.tx = NoTx)

LandsOne(tx) ==
  /\ tx \in sent /\ sent' = sent \ {tx}
  /\ fates' = fates \cup {[tx |-> tx, ok |-> Accepts(tx)]}
  /\ UNCHANGED <<lastId, tool>>

AsksCharge ==
  /\ file.a # Nobody
  /\ sent' = sent \cup {[Fund EXCEPT !.op = "charge", !.id = file.a]}
  /\ UNCHANGED <<fates, lastId, tool>>

Rests ==
  /\ sent' \in SUBSET sent
  /\ UNCHANGED fates
  /\ lastId' \in {lastId, lastId + 1}
  /\ tool'.tx \in {tool.tx, NoTx}

LEMMA SendsOne ==
  ASSUME DemoTypeOK, NEW tx \in Txs, tx.op # "charge", tx.id = lastId + 1, SendAndConfirm(tx), tool.tx = NoTx
  PROVE  Sends(tx)
<1>1. tool' \in {Stopped, [tool EXCEPT !.tx = tx]}
  BY DEF SendAndConfirm, Fails
<1>2. tool'.tx \in {NoTx, tx}
  BY <1>1 DEF Stopped, DemoTypeOK, Tools
<1>3. Stopped.tx = NoTx /\ tx # NoTx
  BY DEF Stopped, NoTx, Txs
<1>4. tool'.tx = tx => sent' = sent \cup {tx}
  BY <1>1, <1>3 DEF SendAndConfirm, Fails
<1>5. lastId' = lastId + 1 /\ sent' \in {sent, sent \cup {tx}} /\ UNCHANGED fates
  BY DEF SendAndConfirm, Fails
<1> QED BY <1>2, <1>4, <1>5 DEF Sends

LEMMA Granting ==
  ASSUME DemoTypeOK, NEW seen \in NodeAnswers
  PROVE  /\ Grant(Recipient, seen) \in Txs
         /\ Grant(Recipient, seen).op = "grant" /\ Grant(Recipient, seen).id = lastId + 1
         /\ Grant(Recipient, seen).to = Recipient
<1>1. (~seen.auth) \in BOOLEAN /\ lastId + 1 \in Nat
  BY DEF DemoTypeOK
<1>2. Recipient \in Nat
  BY DEF Recipient, States, MerchantKey, DemoTypeOK, Tools
<1> QED BY <1>1, <1>2 DEF Grant, Txs

LEMMA TxSteps ==
  ASSUME DemoTypeOK, [DemoNext]_demoVars
  PROVE  (\E tx \in Txs : Sends(tx) \/ LandsOne(tx)) \/ AsksCharge \/ Rests
<1>t. tool \in Tools
  BY DEF DemoTypeOK
<1>e. /\ Fund \in Txs /\ Ata \in Txs /\ Create \in Txs
      /\ Fund.op = "fund" /\ Ata.op = "ata" /\ Create.op = "plan"
      /\ Fund.id = lastId + 1 /\ Ata.id = lastId + 1 /\ Create.id = lastId + 1
  BY Equipping
<1>1. CASE Lands
  BY <1>1 DEF Lands, LandsOne, DemoTypeOK
<1>2. CASE Expires \/ Finalizes \/ OwnerActs \/ LosesFile
  BY <1>2 DEF Expires, Finalizes, OwnerActs, LosesFile, Rests
<1>3. CASE Begin
  <2>1. tool'.tx = NoTx
    BY <1>3 DEF Begin, Stopped
  <2> QED BY <1>3, <2>1 DEF Begin, Rests
<1>4. ASSUME NEW step, Goes(step), Quiet, UNCHANGED lastId PROVE Rests
  <2>1. tool'.tx = NoTx
    BY <1>4, <1>t DEF Goes, Tools
  <2> QED BY <1>4, <2>1 DEF Rests, Quiet
<1>5. CASE Equip
  BY <1>5, <1>e, <1>4, SendsOne DEF Equip
<1>6. CASE Equipped
  BY <1>6, <1>4 DEF Equipped
<1>7. CASE ReadList
  <2>1. tool'.tx = tool.tx
    BY <1>7, <1>t DEF ReadList, Tools
  <2> QED BY <1>7, <2>1 DEF ReadList, Rests, Quiet
<1>8. ASSUME NEW state, NEW step, Saves(state, step) PROVE tool'.tx = NoTx
  BY <1>8, <1>t DEF Saves, Tools
<1>9. CASE Keep \/ Given \/ PlanMade
  <2>1. tool'.tx = NoTx
    BY <1>9, <1>8 DEF Keep, Given, PlanMade, Has
  <2> QED BY <1>9, <2>1 DEF Keep, Given, PlanMade, Rests, Quiet
<1>10. CASE Give
  BY <1>10, Granting, SendsOne DEF Give
<1>11. CASE MakePlan
  BY <1>11, <1>e, <1>4, SendsOne DEF MakePlan
<1>12. CASE NamePlan
  <2>0. Stopped.tx = NoTx /\ \A step : [tool EXCEPT !.step = step, !.tx = NoTx].tx = NoTx
    BY <1>t DEF Stopped, Tools
  <2>1. tool'.tx = NoTx
    BY <1>12, <1>8, <2>0 DEF NamePlan, Goes
  <2> QED BY <1>12, <2>1 DEF NamePlan, Rests
<1>13. CASE GivesUp \/ Cut \/ Ends
  <2>0. tool' = Stopped
    BY <1>13 DEF GivesUp, Cut, Ends, Fails
  <2>1. tool'.tx = NoTx
    BY <2>0 DEF Stopped
  <2> QED BY <1>13, <2>1 DEF GivesUp, Cut, Ends, Fails, Rests
<1>14. CASE ChargeA
  BY <1>14 DEF ChargeA, AsksCharge
<1>15. CASE UNCHANGED demoVars
  BY <1>15 DEF demoVars, Rests
<1> QED BY <1>1, <1>2, <1>3, <1>5, <1>6, <1>7, <1>9, <1>10, <1>11, <1>12, <1>13, <1>14, <1>15
        DEF DemoNext, PrepareDemo

LEMMA IdsStayOwn ==
  ASSUME DemoTypeOK, IdsAreOwn, StatesTrue, [DemoNext]_demoVars
  PROVE  IdsAreOwn'
<1>t. /\ lastId \in Nat /\ sent \in SUBSET Txs /\ \A f \in fates : f.tx \in Txs
      /\ \A t \in Txs : t.id \in Nat
      /\ tool.tx.id \in Nat /\ NoTx.id = 0
  BY DEF DemoTypeOK, Tools, Txs, NoTx, Nobody
<1>1. ASSUME NEW tx \in Txs, Sends(tx) PROVE IdsAreOwn'
  <2>1. lastId' = lastId + 1 /\ tx.id = lastId' /\ tx.op # "charge" /\ fates' = fates
    BY <1>1 DEF Sends
  <2>2. tool'.tx.id <= lastId'
    BY <1>1, <1>t, <2>1 DEF Sends
  <2>3. \A t \in sent' : t \in sent \/ t = tx
    BY <1>1 DEF Sends
  <2>4. \A t \in sent : t.id <= lastId /\ t.id # tx.id
    BY <1>t, <2>1 DEF IdsAreOwn
  <2>5. \A f \in fates : f.tx.id <= lastId /\ f.tx.id # tx.id
    BY <1>t, <2>1 DEF IdsAreOwn
  <2> QED BY <2>1, <2>2, <2>3, <2>4, <2>5, <1>t DEF IdsAreOwn
<1>2. ASSUME NEW tx \in Txs, LandsOne(tx) PROVE IdsAreOwn'
  <2>1. \A f \in fates' : f \in fates \/ f.tx = tx
    BY <1>2 DEF LandsOne
  <2>2. /\ tx \in sent /\ lastId' = lastId /\ tool' = tool
        /\ \A t \in sent' : t \in sent /\ t # tx
    BY <1>2 DEF LandsOne
  <2> QED BY <2>1, <2>2 DEF IdsAreOwn
<1>3. CASE AsksCharge
  <2>1. PICK f \in fates : f.tx.id = file.a
    BY <1>3 DEF AsksCharge, StatesTrue, StateTrue, Landed
  <2>2. file.a <= lastId
    BY <2>1 DEF IdsAreOwn
  <2>3. [Fund EXCEPT !.op = "charge", !.id = file.a].id = file.a /\ [Fund EXCEPT !.op = "charge", !.id = file.a].op = "charge"
    BY DEF Fund
  <2> QED BY <1>3, <2>2, <2>3 DEF AsksCharge, IdsAreOwn
<1>4. CASE Rests
  <2>1. lastId <= lastId' /\ \A n \in Nat : n <= lastId => n <= lastId'
    BY <1>4, <1>t DEF Rests
  <2>2. tool'.tx.id <= lastId'
    BY <1>4, <2>1, <1>t DEF Rests, IdsAreOwn
  <2>3. sent' \in SUBSET sent /\ fates' = fates
    BY <1>4 DEF Rests
  <2> QED BY <2>1, <2>2, <2>3, <1>t DEF IdsAreOwn
<1> QED BY <1>1, <1>2, <1>3, <1>4, TxSteps

-----------------------------------------------------------------------------
\* What a step may do to the world, and what the run may have read of it.
Looks ==
  /\ UNCHANGED <<world, final, fates>>
  /\ tool'.list \in {tool.list, world, final, Empty}

LEMMA WorldSteps ==
  ASSUME DemoTypeOK, [DemoNext]_demoVars
  PROVE  Lands \/ OwnerActs \/ Finalizes \/ Looks
<1>t. tool \in Tools
  BY DEF DemoTypeOK
<1>s. Stopped.list = Empty
  BY DEF Stopped
<1>1. CASE Expires \/ LosesFile \/ ChargeA
  BY <1>1 DEF Expires, LosesFile, ChargeA, Looks
<1>2. CASE Begin
  <2>1. tool'.list = Empty
    BY <1>2, <1>s DEF Begin, Stopped
  <2> QED BY <1>2, <2>1 DEF Begin, Looks
<1>3. ASSUME NEW step, Goes(step), Quiet PROVE Looks
  <2>1. tool'.list = tool.list
    BY <1>3, <1>t DEF Goes, Tools
  <2> QED BY <1>3, <2>1 DEF Looks, Quiet
<1>4. ASSUME NEW tx, SendAndConfirm(tx) PROVE Looks
  <2>1. tool'.list \in {tool.list, Empty}
    BY <1>4, <1>t, <1>s DEF SendAndConfirm, Fails, Tools
  <2> QED BY <1>4, <2>1 DEF Looks, SendAndConfirm, Fails
<1>5. CASE Equip
  BY <1>5, <1>3, <1>4 DEF Equip
<1>6. CASE Equipped
  BY <1>6, <1>3 DEF Equipped
<1>7. CASE ReadList
  <2>1. PICK seen \in NodeAnswers :
          tool' = [tool EXCEPT !.list = seen, !.step = IF @ = "list" THEN "a" ELSE "plan"]
    BY <1>7 DEF ReadList
  <2>2. tool'.list \in {world, final}
    BY <2>1, <1>t DEF Tools, NodeAnswers
  <2> QED BY <1>7, <2>2 DEF ReadList, Looks, Quiet
<1>8. ASSUME NEW state, NEW step, Saves(state, step) PROVE tool'.list = tool.list
  BY <1>8, <1>t DEF Saves, Tools
<1>9. CASE Keep \/ Given \/ PlanMade
  <2>1. tool'.list = tool.list
    BY <1>9, <1>8 DEF Keep, Given, PlanMade, Has
  <2> QED BY <1>9, <2>1 DEF Keep, Given, PlanMade, Looks, Quiet
<1>10. CASE Give
  BY <1>10, <1>4 DEF Give
<1>11. CASE MakePlan
  BY <1>11, <1>3, <1>4 DEF MakePlan
<1>12. CASE NamePlan
  <2>0. \A step : [tool EXCEPT !.step = step, !.tx = NoTx].list = tool.list
    BY <1>t DEF Tools
  <2>1. tool'.list \in {tool.list, Empty}
    BY <1>12, <1>8, <1>s, <2>0 DEF NamePlan, Goes
  <2> QED BY <1>12, <2>1 DEF NamePlan, Looks
<1>13. CASE GivesUp \/ Cut \/ Ends
  <2>0. tool' = Stopped
    BY <1>13 DEF GivesUp, Cut, Ends, Fails
  <2> QED BY <1>13, <2>0, <1>s DEF GivesUp, Cut, Ends, Fails, Looks
<1>14. CASE UNCHANGED demoVars
  BY <1>14 DEF demoVars, Looks
<1> QED BY <1>1, <1>2, <1>5, <1>6, <1>7, <1>9, <1>10, <1>11, <1>12, <1>13, <1>14
        DEF DemoNext, PrepareDemo

\* What a landing does to the world.
LEMMA WithOne ==
  ASSUME DemoTypeOK, NEW tx \in Txs
  PROVE  /\ With(tx).live = (IF tx.op = "grant" THEN world.live \cup {[to |-> tx.to, id |-> tx.id]} ELSE world.live)
         /\ With(tx).plans = (IF tx.op = "plan" THEN world.plans \cup {tx.id} ELSE world.plans)
         /\ With(tx).subs = world.subs
         /\ With(tx).funded <=> (world.funded \/ tx.op = "fund")
         /\ With(tx).ata <=> (world.ata \/ tx.op = "ata")
<1>1. world \in Worlds /\ tx.op \in {"fund", "ata", "grant", "plan", "charge"}
  BY DEF DemoTypeOK, Txs
<1>2. CASE tx.op = "fund"
  <2>1. With(tx) = [world EXCEPT !.funded = TRUE]
    BY <1>2 DEF With
  <2> QED BY <2>1, <1>1, <1>2 DEF Worlds
<1>3. CASE tx.op = "ata"
  <2>1. With(tx) = [world EXCEPT !.ata = TRUE]
    BY <1>3 DEF With
  <2> QED BY <2>1, <1>1, <1>3 DEF Worlds
<1>4. CASE tx.op = "grant"
  <2>1. With(tx) = [world EXCEPT !.auth = TRUE, !.live = @ \cup {[to |-> tx.to, id |-> tx.id]}]
    BY <1>4 DEF With
  <2> QED BY <2>1, <1>1, <1>4 DEF Worlds
<1>5. CASE tx.op = "plan"
  <2>1. With(tx) = [world EXCEPT !.plans = @ \cup {tx.id}]
    BY <1>5 DEF With
  <2> QED BY <2>1, <1>1, <1>5 DEF Worlds
<1>6. CASE tx.op = "charge"
  BY <1>1, <1>6 DEF With
<1> QED BY <1>1, <1>2, <1>3, <1>4, <1>5, <1>6

\* An owner takes a permission away, or a plan.
LEMMA OwnerChanges ==
  ASSUME DemoTypeOK, OwnerActs
  PROVE  /\ world'.live \in SUBSET world.live /\ world'.plans = world.plans
         /\ world'.funded = world.funded /\ world'.ata = world.ata
         /\ world.subs \subseteq world'.subs /\ world'.subs \subseteq world.subs \cup world.plans
         /\ acted' = TRUE
         /\ UNCHANGED <<final, sent, fates, file, catalog, tool, lastId, asked, hasty, early>>
<1>1. world \in Worlds
  BY DEF DemoTypeOK
<1>2. CASE \E p \in world.live : world' = [world EXCEPT !.live = @ \ {p}]
  BY <1>1, <1>2 DEF OwnerActs, Worlds
<1>3. CASE \E id \in world.plans \ world.subs : world' = [world EXCEPT !.subs = @ \cup {id}]
  BY <1>1, <1>3 DEF OwnerActs, Worlds
<1> QED BY <1>2, <1>3 DEF OwnerActs

LEMMA FatesKept == [DemoNext]_demoVars /\ DemoTypeOK => fates \subseteq fates'
BY WorldSteps DEF Lands, OwnerActs, Finalizes, Looks

LEMMA LandedStays ==
  ASSUME DemoTypeOK, [DemoNext]_demoVars, NEW op, NEW id, Landed(op, id)
  PROVE  Landed(op, id)'
BY FatesKept DEF Landed

LEMMA WorldStaysSent ==
  ASSUME DemoTypeOK, IdsAreOwn, WorldIsSent, [DemoNext]_demoVars
  PROVE  WorldIsSent'
<1>1. CASE Lands
  <2>1. PICK tx \in sent : /\ fates' = fates \cup {[tx |-> tx, ok |-> Accepts(tx)]}
                           /\ world' = IF Accepts(tx) THEN With(tx) ELSE world
                           /\ UNCHANGED <<final, tool, lastId>>
    BY <1>1 DEF Lands
  <2>2. tx \in Txs /\ tx.id <= lastId /\ tx.op \in {"fund", "ata", "grant", "plan", "charge"}
    BY <2>1 DEF DemoTypeOK, IdsAreOwn, Txs
  <2> DEFINE new == [tx |-> tx, ok |-> Accepts(tx)]
  <2>3. new \in fates' /\ new.tx = tx /\ (new.ok <=> Accepts(tx)) /\ \A f \in fates' : f \in fates \/ f = new
    BY <2>1 DEF Accepts
  <2> HIDE DEF new
  <2>4. /\ world.live \subseteq world'.live /\ world.plans \subseteq world'.plans /\ world'.subs = world.subs
        /\ world.funded => world'.funded
        /\ world.ata => world'.ata
    BY <2>1, <2>2, WithOne
  <2>5. \A f \in fates' : f.ok =>
          /\ f.tx.op = "fund" => world'.funded
          /\ f.tx.op = "ata" => world'.ata
          /\ f.tx.op = "plan" => f.tx.id \in world'.plans
    <3>1. CASE Accepts(tx)
      BY ZenonT(40), <3>1, <2>1, <2>2, <2>3, <2>4, WithOne DEF WorldIsSent
    <3>2. CASE ~Accepts(tx)
      BY <3>2, <2>3, <2>4 DEF WorldIsSent
    <3> QED BY <3>1, <3>2
  <2>6. \A p \in world'.live : Landed("grant", p.id)'
    <3>1. SUFFICES ASSUME NEW p \in world'.live, p \notin world.live PROVE Landed("grant", p.id)'
      BY LandedStays DEF WorldIsSent
    <3>2. Accepts(tx) /\ tx.op = "grant" /\ p = [to |-> tx.to, id |-> tx.id]
      BY <2>1, <2>2, <3>1, WithOne
    <3> QED BY <3>2, <2>3 DEF Landed
  <2>7. \A p \in final'.live \cup tool'.list.live : Landed("grant", p.id)'
    BY <2>1, LandedStays DEF WorldIsSent
  <2>8. \A id \in world'.plans : id <= lastId'
    BY <2>1, <2>2, WithOne DEF WorldIsSent
  <2>9. (final'.funded => world'.funded) /\ (final'.ata => world'.ata) /\ world'.subs \subseteq world'.plans
    BY <2>1, <2>4 DEF WorldIsSent
  <2> QED BY <2>5, <2>6, <2>7, <2>8, <2>9 DEF WorldIsSent
<1>2. CASE OwnerActs
  <2>1. /\ world'.live \in SUBSET world.live /\ world'.plans = world.plans
        /\ world'.funded = world.funded /\ world'.ata = world.ata
        /\ world'.subs \subseteq world.subs \cup world.plans
        /\ UNCHANGED <<final, fates, tool, lastId>>
    BY <1>2, OwnerChanges
  <2>2. \A op, id : Landed(op, id)' <=> Landed(op, id)
    BY <2>1 DEF Landed
  <2> QED BY <2>1, <2>2 DEF WorldIsSent
<1>3. CASE Finalizes
  <2>1. final' = world /\ UNCHANGED <<world, fates, tool, lastId>>
    BY <1>3 DEF Finalizes
  <2>2. \A op, id : Landed(op, id)' <=> Landed(op, id)
    BY <2>1 DEF Landed
  <2> QED BY <2>1, <2>2 DEF WorldIsSent
<1>4. CASE Looks
  <2>1. UNCHANGED <<world, final, fates>> /\ tool'.list \in {tool.list, world, final, Empty}
    BY <1>4 DEF Looks
  <2>2. \A op, id : Landed(op, id)' <=> Landed(op, id)
    BY <2>1 DEF Landed
  <2>3. tool'.list.live \subseteq tool.list.live \cup world.live \cup final.live
    BY <2>1 DEF Empty
  <2>4. lastId \in Nat /\ lastId' \in Nat /\ lastId <= lastId'
    BY TxSteps DEF Sends, LandsOne, AsksCharge, Rests, DemoTypeOK
  <2>5. world.plans \subseteq Nat
    BY DEF DemoTypeOK, Worlds
  <2>6. \A id \in world.plans : id <= lastId'
    BY <2>4, <2>5 DEF WorldIsSent
  <2> QED BY <2>1, <2>2, <2>3, <2>6 DEF WorldIsSent
<1> QED BY <1>1, <1>2, <1>3, <1>4, WorldSteps

\* Only `demo prepare` changes what is on record, and only to what was seen to be done.
LEMMA StateStays ==
  ASSUME DemoTypeOK, [DemoNext]_demoVars, NEW state, StateTrue(state), catalog \subseteq catalog'
  PROVE  StateTrue(state)'
BY LandedStays DEF StateTrue

LEMMA CatalogGrows == [DemoNext]_demoVars => catalog \subseteq catalog'
BY DEF DemoNext, PrepareDemo, demoVars, Lands, Expires, Finalizes, OwnerActs, LosesFile, Begin, Equip, Equipped, ReadList, Keep, Give, Given, MakePlan, PlanMade, NamePlan, GivesUp, Cut, Ends, ChargeA, Fails, SendAndConfirm, Quiet

LEMMA StatesStayTrue ==
  ASSUME DemoTypeOK, WorldIsSent, StatesTrue, TxIsSteps, [DemoNext]_demoVars
  PROVE  StatesTrue'
<1>t. tool \in Tools /\ file \in States /\ tool.state \in States
  BY DEF DemoTypeOK, Tools
<1>n. StateTrue(NoFile)' /\ Stopped.state = NoFile /\ Stopped.step = "idle"
  BY DEF StateTrue, NoFile, Nobody, Stopped
<1>z. NoFile \in States
  BY DEF NoFile, States, Nobody
<1>k. /\ catalog \subseteq catalog'
      /\ \A state : StateTrue(state) => StateTrue(state)'
  BY CatalogGrows, StateStays
<1>1. ASSUME tool'.state = tool.state, tool'.step # "idle" => tool.step # "idle", UNCHANGED file PROVE StatesTrue'
  BY <1>1, <1>k DEF StatesTrue
<1>2. ASSUME tool' = Stopped, UNCHANGED file PROVE StatesTrue'
  BY <1>2, <1>k, <1>n DEF StatesTrue
<1>3. ASSUME NEW state \in States, NEW step, Saves(state, step), tool.step # "idle",
             StateTrue(state)', state.second = tool.state.second
      PROVE  StatesTrue'
  <2>1. tool'.state = state /\ file' = state
    BY <1>3, <1>t DEF Saves, Tools
  <2> QED BY <2>1, <1>3 DEF StatesTrue
<1>4. CASE Lands \/ Expires \/ Finalizes \/ OwnerActs \/ ChargeA \/ UNCHANGED demoVars
  BY <1>4, <1>1 DEF Lands, Expires, Finalizes, OwnerActs, ChargeA, demoVars
<1>5. CASE LosesFile
  BY <1>5, <1>k, <1>n DEF LosesFile, StatesTrue
<1>6. CASE Begin
  <2>1. tool' = [Stopped EXCEPT !.step = "fund", !.state = Opened(lastId + 1)] /\ UNCHANGED file
    BY <1>6 DEF Begin
  <2>2. tool'.state = Opened(lastId + 1)
    BY <2>1 DEF Stopped
  <2>3. CASE file # NoFile
    BY <2>1, <2>2, <2>3, <1>k DEF StatesTrue, Opened
  <2>4. CASE file = NoFile
    <3>0. lastId + 1 \in Nat
      BY DEF DemoTypeOK
    <3>1. PICK state \in States : state = [NoFile EXCEPT !.second = lastId + 1]
      BY <3>0, <1>z DEF States
    <3>2. /\ state.a = Nobody /\ state.b = Nobody /\ state.plan = Nobody /\ ~state.named
          /\ state.second = lastId + 1
      BY <3>1 DEF NoFile
    <3>3. StateTrue(state)'
      BY <3>2 DEF StateTrue
    <3>4. tool'.state = state /\ state.second > MerchantKey
      BY <3>1, <3>2, <2>2, <2>4 DEF Opened, DemoTypeOK, MerchantKey
    <3> QED BY <3>3, <3>4, <2>1, <2>4, <1>k DEF StatesTrue
  <2> QED BY <2>3, <2>4
<1>7. ASSUME NEW step, Goes(step), tool.step # "idle", UNCHANGED file PROVE StatesTrue'
  <2>1. tool'.state = tool.state
    BY <1>7, <1>t DEF Goes, Tools
  <2> QED BY <2>1, <1>1, <1>7
<1>8. ASSUME NEW tx, SendAndConfirm(tx) PROVE StatesTrue'
  <2>1. tool' = Stopped \/ (tool'.state = tool.state /\ tool'.step = tool.step)
    BY <1>8, <1>t DEF SendAndConfirm, Fails, Tools
  <2>2. UNCHANGED file
    BY <1>8 DEF SendAndConfirm, Fails
  <2> QED BY <2>1, <2>2, <1>1, <1>2
<1>9. CASE Equip
  BY <1>9, <1>7, <1>8 DEF Equip
<1>10. CASE Equipped
  BY <1>10, <1>7 DEF Equipped
<1>11. CASE ReadList
  <2>1. tool'.state = tool.state /\ tool.step # "idle" /\ UNCHANGED file
    BY <1>11, <1>t DEF ReadList, Tools
  <2> QED BY <2>1, <1>1
<1>12. ASSUME NEW id \in Nat, Has(id), Landed("grant", id)', tool.step \in {"a", "b"} PROVE StatesTrue'
  <2>1. PICK old \in States : old = tool.state
    BY <1>t
  <2>2. StateTrue(old)'
    BY <2>1, <1>k DEF StatesTrue
  <2>3. PICK state \in States : state = IF tool.step = "a" THEN [old EXCEPT !.a = id] ELSE [old EXCEPT !.b = id]
    BY DEF States
  <2>4. /\ state.second = old.second /\ state.plan = old.plan /\ state.named = old.named
        /\ state.a \in {id, old.a} /\ state.b \in {id, old.b}
    BY <2>3 DEF States
  <2>5. StateTrue(state)'
    BY <2>2, <2>4, <1>12 DEF StateTrue
  <2>6. \E step : Saves(state, step)
    BY <1>12, <2>1, <2>3 DEF Has
  <2> QED BY <2>1, <2>4, <2>5, <2>6, <1>12, <1>3
<1>13. CASE Keep
  <2>1. PICK id \in LiveRecurring(tool.list, Recipient, Recorded) : Has(id)
    BY <1>13 DEF Keep
  <2>2. \E p \in tool.list.live : p.id = id
    BY <2>1 DEF LiveRecurring
  <2>3. id \in Nat
    BY <2>2, <1>t DEF Tools, Worlds, Perms
  <2>4. Landed("grant", id)'
    BY <2>2, LandedStays DEF WorldIsSent
  <2> QED BY <2>1, <2>3, <2>4, <1>12, <1>13 DEF Keep
<1>14. ASSUME tool.tx # NoTx, TRUE \in Fate PROVE Landed(tool.tx.op, tool.tx.id) /\ tool.tx \in Txs
  BY <1>14, <1>t DEF Fate, Landed, Tools
<1>15. CASE Given
  <2>1. tool.tx.op = "grant" /\ Landed("grant", tool.tx.id) /\ tool.tx.id \in Nat
    BY <1>15, <1>14 DEF Given, TxIsSteps, Txs
  <2> QED BY <2>1, <1>12, <1>15, LandedStays DEF Given
<1>16. CASE Give
  BY <1>16, <1>8 DEF Give
<1>17. CASE MakePlan
  BY <1>17, <1>7, <1>8 DEF MakePlan
<1>18. CASE PlanMade
  <2>1. tool.tx.op = "plan" /\ Landed("plan", tool.tx.id) /\ tool.tx.id \in Nat
    BY <1>18, <1>14 DEF PlanMade, TxIsSteps, Txs
  <2>2. PICK old \in States : old = tool.state
    BY <1>t
  <2>3. PICK id \in Nat : id = tool.tx.id
    BY <2>1
  <2>4. StateTrue(old)' /\ Landed("plan", id)'
    BY <1>k, <2>1, <2>2, <2>3, LandedStays DEF StatesTrue
  <2>5. PICK state \in States : state = [old EXCEPT !.plan = id, !.named = FALSE]
    BY DEF States
  <2>6. state.second = old.second /\ state.a = old.a /\ state.b = old.b /\ state.plan = id /\ ~state.named
    BY <2>5 DEF States
  <2>7. StateTrue(state)'
    BY <2>4, <2>6 DEF StateTrue
  <2>8. Saves(state, "name") /\ tool.step # "idle"
    BY <1>18, <2>2, <2>3, <2>5 DEF PlanMade, WithPlan
  <2> QED BY <2>2, <2>6, <2>7, <2>8, <1>3
<1>19. CASE NamePlan
  <2>1. CASE Goes("done") /\ UNCHANGED file
    BY <2>1, <1>19, <1>7 DEF NamePlan
  <2>2. CASE catalog' = catalog \cup {tool.state.plan} /\ Saves([tool.state EXCEPT !.named = TRUE], "done")
    <3>1. PICK old \in States : old = tool.state
      BY <1>t
    <3>2. StateTrue(old)' /\ old.plan \in catalog'
      BY <3>1, <2>2, <1>k DEF StatesTrue
    <3>3. PICK state \in States : state = [old EXCEPT !.named = TRUE]
      BY DEF States
    <3>4. state.second = old.second /\ state.a = old.a /\ state.b = old.b /\ state.plan = old.plan
      BY <3>3 DEF States
    <3>5. StateTrue(state)'
      BY <3>2, <3>4 DEF StateTrue
    <3>6. Saves(state, "done") /\ tool.step # "idle"
      BY <2>2, <1>19, <3>1, <3>3 DEF NamePlan
    <3> QED BY <3>1, <3>4, <3>5, <3>6, <1>3
  <2>3. CASE tool' = Stopped /\ UNCHANGED file
    BY <2>3, <1>2
  <2> QED BY <1>19, <2>1, <2>2, <2>3 DEF NamePlan
<1>20. CASE GivesUp \/ Cut \/ Ends
  BY <1>20, <1>2 DEF GivesUp, Cut, Ends, Fails
<1> QED BY <1>4, <1>5, <1>6, <1>9, <1>10, <1>11, <1>13, <1>15, <1>16, <1>17, <1>18, <1>19, <1>20
        DEF DemoNext, PrepareDemo

-----------------------------------------------------------------------------
\* What a run does, one field at a time.
Stops == tool'.step = "idle" /\ tool'.tx = NoTx

Asks(tx) ==
  /\ tx \in Txs /\ tx.id = lastId + 1 /\ tool.tx = NoTx
  /\ \/ tool.step = "fund" /\ tx.op = "fund"
     \/ tool.step = "ata" /\ tx.op = "ata"
     \/ tool.step = "plan" /\ tx.op = "plan"
     \/ /\ tool.step \in {"a", "b"} /\ tx.op = "grant" /\ tx.to = Recipient
        /\ \A p \in tool.list.live : p.to # Recipient
  /\ sent' \in {sent, sent \cup {tx}}
  /\ \/ Stops
     \/ tool'.tx = tx /\ tool'.step = tool.step /\ tool'.state = tool.state /\ tool'.list = tool.list
  /\ UNCHANGED <<world, final, fates, file, catalog, asked, hasty, acted, early>>

Advances ==
  /\ \/ tool.step = "idle" /\ tool'.step = "fund"
     \/ tool.step = "fund" /\ world.funded /\ tool'.step = "ata"
     \/ tool.step = "ata" /\ world.ata /\ tool'.step = "list"
  /\ UNCHANGED <<hasty, acted, catalog>>

Reads ==
  /\ \/ /\ tool.step = "list" /\ tool'.step = "a" /\ ~acted'
        /\ hasty \/ tool'.list # world \/ sent # {} => hasty'
     \/ /\ tool.step = "list again" /\ tool'.step = "plan" /\ acted' = acted
        /\ hasty \/ tool'.list # world => hasty'
  /\ tool'.state = tool.state /\ UNCHANGED catalog

Holds(id) ==
  \/ tool.tx = NoTx /\ \E p \in tool.list.live : p.to = Recipient /\ p.id = id
  \/ tool.tx # NoTx /\ TRUE \in Fate /\ id = tool.tx.id

Gets(id) ==
  /\ Holds(id)
  /\ \/ tool.step = "a" /\ tool'.step = "b" /\ tool'.state.a = id
     \/ tool.step = "b" /\ tool'.step = "list again" /\ tool'.state.a = tool.state.a /\ tool'.state.b = id
  /\ tool'.state.second = tool.state.second
  /\ tool'.list = tool.list /\ UNCHANGED <<hasty, acted, catalog>>

PlansIt ==
  /\ tool.step = "plan" /\ tool'.step = "name"
  /\ \/ tool.tx # NoTx /\ tool'.state.plan = tool.tx.id
     \/ tool'.state.plan = tool.state.plan /\ tool.state.plan \notin tool.list.subs \cup {Nobody}
  /\ tool'.state.a = tool.state.a /\ tool'.state.b = tool.state.b
  /\ tool'.state.second = tool.state.second
  /\ UNCHANGED <<hasty, acted, catalog>>

Names ==
  /\ tool.step = "name" /\ tool'.step = "done"
  /\ tool.state.plan \in catalog' /\ catalog \subseteq catalog'
  /\ tool'.state.a = tool.state.a /\ tool'.state.b = tool.state.b
  /\ tool'.state.second = tool.state.second /\ tool'.state.plan = tool.state.plan
  /\ UNCHANGED <<hasty, acted>>

Moves ==
  /\ Advances \/ Reads \/ (\E id \in Nat : Gets(id)) \/ PlansIt \/ Names
     \/ (Stops /\ UNCHANGED <<hasty, acted>> /\ catalog \subseteq catalog')
  /\ tool'.tx = NoTx
  /\ UNCHANGED <<world, final, sent, fates, asked, early>>

LEMMA AsksOne ==
  ASSUME DemoTypeOK, NEW tx \in Txs, tx.id = lastId + 1, SendAndConfirm(tx), tool.tx = NoTx,
         \/ tool.step = "fund" /\ tx.op = "fund"
         \/ tool.step = "ata" /\ tx.op = "ata"
         \/ tool.step = "plan" /\ tx.op = "plan"
         \/ /\ tool.step \in {"a", "b"} /\ tx.op = "grant" /\ tx.to = Recipient
            /\ \A p \in tool.list.live : p.to # Recipient
  PROVE  Asks(tx)
<1>1. tool' = Stopped \/ tool' = [tool EXCEPT !.tx = tx]
  BY DEF SendAndConfirm, Fails
<1>2. \/ Stops
      \/ tool'.tx = tx /\ tool'.step = tool.step /\ tool'.state = tool.state /\ tool'.list = tool.list
  BY <1>1 DEF Stopped, Stops, DemoTypeOK, Tools
<1>3. /\ sent' \in {sent, sent \cup {tx}}
      /\ UNCHANGED <<world, final, fates, file, catalog, asked, hasty, acted, early>>
  BY DEF SendAndConfirm, Fails
<1> QED BY <1>2, <1>3 DEF Asks

LEMMA RunSteps ==
  ASSUME DemoTypeOK, WorldIsSent, StatesTrue, TxIsSteps, [DemoNext]_demoVars
  PROVE  \/ Lands \/ Expires \/ Finalizes \/ OwnerActs \/ LosesFile \/ ChargeA \/ UNCHANGED demoVars
         \/ (\E tx \in Txs : Asks(tx)) \/ Moves
<1>t. tool \in Tools /\ tool.state \in States
  BY DEF DemoTypeOK, Tools
<1>e. /\ Fund \in Txs /\ Ata \in Txs /\ Create \in Txs
      /\ Fund.op = "fund" /\ Ata.op = "ata" /\ Create.op = "plan"
      /\ Fund.id = lastId + 1 /\ Ata.id = lastId + 1 /\ Create.id = lastId + 1
  BY Equipping
<1>f. ASSUME tool.tx # NoTx, TRUE \in Fate PROVE \E f \in fates : f.ok /\ f.tx = tool.tx
  BY <1>f DEF Fate
<1>g. ASSUME NEW step, Goes(step)
      PROVE tool'.step = step /\ tool'.state = tool.state /\ tool'.list = tool.list /\ tool'.tx = NoTx
  BY <1>g, <1>t DEF Goes, Tools
<1>s. ASSUME NEW state, NEW step, Saves(state, step)
      PROVE tool'.step = step /\ tool'.state = state /\ tool'.list = tool.list /\ tool'.tx = NoTx
  BY <1>s, <1>t DEF Saves, Tools
<1>1. CASE Begin
  <2>1. tool'.step = "fund" /\ tool'.tx = NoTx
    BY <1>1 DEF Begin, Stopped
  <2> QED BY <1>1, <2>1 DEF Begin, Moves, Advances
<1>2. ASSUME Goes(IF tool.step = "fund" THEN "ata" ELSE "list"), Quiet, UNCHANGED <<file, lastId, hasty, acted>>,
             (tool.step = "fund" /\ world.funded) \/ (tool.step = "ata" /\ world.ata)
      PROVE  Moves
  BY <1>2, <1>g DEF Moves, Advances, Quiet
<1>3. CASE Equip
  <2>1. PICK seen \in NodeAnswers :
          \/ tool.step = "fund" /\ ~seen.funded /\ SendAndConfirm(Fund)
          \/ tool.step = "ata" /\ ~seen.ata /\ SendAndConfirm(Ata)
          \/ /\ (tool.step = "fund" /\ seen.funded) \/ (tool.step = "ata" /\ seen.ata)
             /\ Goes(IF tool.step = "fund" THEN "ata" ELSE "list")
             /\ Quiet /\ UNCHANGED <<file, lastId, hasty, acted>>
    BY <1>3 DEF Equip
  <2>2. (seen.funded => world.funded) /\ (seen.ata => world.ata)
    BY DEF NodeAnswers, WorldIsSent
  <2>3. tool.tx = NoTx
    BY <1>3 DEF Equip
  <2>4. CASE tool.step = "fund" /\ SendAndConfirm(Fund)
    BY <2>4, <2>3, <1>e, AsksOne
  <2>5. CASE tool.step = "ata" /\ SendAndConfirm(Ata)
    BY <2>5, <2>3, <1>e, AsksOne
  <2> QED BY <2>1, <2>2, <2>4, <2>5, <1>2
<1>4. CASE Equipped
  <2>1. PICK f \in fates : f.ok /\ f.tx = tool.tx
    BY <1>4, <1>f DEF Equipped
  <2>2. (tool.step = "fund" /\ tool.tx.op = "fund") \/ (tool.step = "ata" /\ tool.tx.op = "ata")
    BY <1>4 DEF Equipped, TxIsSteps
  <2>3. (tool.step = "fund" /\ world.funded) \/ (tool.step = "ata" /\ world.ata)
    BY <2>1, <2>2 DEF WorldIsSent
  <2> QED BY <1>4, <2>3, <1>2 DEF Equipped
<1>5. CASE ReadList
  <2>1. PICK seen \in NodeAnswers :
          /\ tool' = [tool EXCEPT !.list = seen, !.step = IF @ = "list" THEN "a" ELSE "plan"]
          /\ hasty' = (hasty \/ seen # world \/ (tool.step = "list" /\ sent # {}))
    BY <1>5 DEF ReadList
  <2>2. /\ tool'.list = seen /\ tool'.step = (IF tool.step = "list" THEN "a" ELSE "plan")
        /\ tool'.state = tool.state /\ tool'.tx = tool.tx
    BY <2>1, <1>t DEF Tools
  <2>3. tool.step \in {"list", "list again"} /\ tool.tx = NoTx
    BY <1>5 DEF ReadList, TxIsSteps
  <2>4. (tool.step = "list" => ~acted') /\ (tool.step # "list" => acted' = acted)
    BY <1>5 DEF ReadList, DemoTypeOK
  <2>5. Reads
    BY <2>1, <2>2, <2>3, <2>4, <1>5 DEF Reads, ReadList, Quiet
  <2> QED BY <1>5, <2>2, <2>3, <2>5 DEF Moves, ReadList, Quiet
<1>6. ASSUME NEW id \in Nat, Has(id), Holds(id), tool.step \in {"a", "b"}, Quiet, UNCHANGED <<hasty, acted>>
      PROVE  Moves
  <2>1. CASE tool.step = "a"
    <3>1. PICK state \in States : state = [tool.state EXCEPT !.a = id]
      BY <1>t DEF States
    <3>2. state.a = id /\ state.second = tool.state.second
      BY <3>1, <1>t DEF States
    <3>3. tool'.step = "b" /\ tool'.state = state /\ tool'.list = tool.list /\ tool'.tx = NoTx
      BY <1>6, <1>s, <2>1, <3>1 DEF Has
    <3>4. Gets(id)
      BY <1>6, <2>1, <3>2, <3>3 DEF Gets, Quiet
    <3> QED BY <3>3, <3>4, <1>6 DEF Moves, Quiet
  <2>2. CASE tool.step = "b"
    <3>1. PICK state \in States : state = [tool.state EXCEPT !.b = id]
      BY <1>t DEF States
    <3>2. state.b = id /\ state.a = tool.state.a /\ state.second = tool.state.second
      BY <3>1, <1>t DEF States
    <3>3. tool'.step = "list again" /\ tool'.state = state /\ tool'.list = tool.list /\ tool'.tx = NoTx
      BY <1>6, <1>s, <2>2, <3>1 DEF Has
    <3>4. Gets(id)
      BY <1>6, <2>2, <3>2, <3>3 DEF Gets, Quiet
    <3> QED BY <3>3, <3>4, <1>6 DEF Moves, Quiet
  <2> QED BY <2>1, <2>2, <1>6
<1>7. CASE Keep
  <2>1. PICK id \in LiveRecurring(tool.list, Recipient, Recorded) : Has(id)
    BY <1>7 DEF Keep
  <2>2. PICK p \in tool.list.live : p.to = Recipient /\ p.id = id
    BY <2>1 DEF LiveRecurring
  <2>3. id \in Nat
    BY <2>2, <1>t DEF Tools, Worlds, Perms
  <2>4. Holds(id)
    BY <1>7, <2>2 DEF Holds, Keep
  <2> QED BY <1>7, <1>6, <2>1, <2>3, <2>4 DEF Keep
<1>8. CASE Given
  <2>1. tool.tx.id \in Nat
    BY <1>8, <1>t DEF Given, Tools, Txs
  <2>2. Holds(tool.tx.id)
    BY <1>8 DEF Holds, Given
  <2> QED BY <1>8, <1>6, <2>1, <2>2 DEF Given
<1>9. CASE Give
  <2>1. PICK seen \in NodeAnswers : SendAndConfirm(Grant(Recipient, seen))
    BY <1>9 DEF Give
  <2>2. \A p \in tool.list.live : p.to # Recipient
    BY <1>9 DEF Give, LiveRecurring
  <2>3. tool.step \in {"a", "b"} /\ tool.tx = NoTx
    BY <1>9 DEF Give
  <2>4. /\ Grant(Recipient, seen) \in Txs /\ Grant(Recipient, seen).op = "grant"
        /\ Grant(Recipient, seen).id = lastId + 1 /\ Grant(Recipient, seen).to = Recipient
    BY Granting
  <2> QED BY <2>1, <2>2, <2>3, <2>4, AsksOne
<1>10. CASE MakePlan
  <2>1. CASE SendAndConfirm(Create)
    BY <2>1, <1>10, <1>e, AsksOne DEF MakePlan
  <2>2. CASE ~PlanIsSpent /\ Goes("name") /\ Quiet /\ UNCHANGED <<file, lastId, hasty, acted>>
    <3>1. tool.state.plan \notin tool.list.subs \cup {Nobody}
      BY <2>2 DEF PlanIsSpent
    <3>2. tool'.step = "name" /\ tool'.state = tool.state /\ tool'.tx = NoTx
      BY <2>2, <1>g
    <3>3. PlansIt
      BY <3>1, <3>2, <2>2, <1>10 DEF PlansIt, MakePlan, Quiet
    <3> QED BY <3>2, <3>3, <2>2 DEF Moves, Quiet
  <2> QED BY <2>1, <2>2, <1>10 DEF MakePlan
<1>11. CASE PlanMade
  <2>1. tool.tx.id \in Nat /\ tool.tx # NoTx /\ tool.step = "plan"
    BY <1>11, <1>t DEF PlanMade, Tools, Txs
  <2>2. PICK state \in States : state = [tool.state EXCEPT !.plan = tool.tx.id, !.named = FALSE]
    BY <2>1, <1>t DEF States
  <2>3. state.a = tool.state.a /\ state.b = tool.state.b /\ state.second = tool.state.second /\ state.plan = tool.tx.id
    BY <2>2, <1>t DEF States
  <2>4. tool'.step = "name" /\ tool'.state = state /\ tool'.tx = NoTx
    BY <1>11, <2>2, <1>s DEF PlanMade, WithPlan
  <2>5. PlansIt
    BY <2>1, <2>3, <2>4, <1>11 DEF PlansIt, PlanMade, Quiet
  <2> QED BY <2>4, <2>5, <1>11 DEF Moves, PlanMade, Quiet
<1>12. CASE NamePlan
  <2>1. CASE tool.state.named /\ Goes("done") /\ UNCHANGED <<file, catalog>>
    <3>1. tool'.step = "done" /\ tool'.state = tool.state /\ tool'.tx = NoTx
      BY <2>1, <1>g
    <3>2. tool.state.plan \in catalog
      BY <2>1 DEF StatesTrue, StateTrue
    <3>3. Names
      BY <3>1, <3>2, <2>1, <1>12 DEF Names, NamePlan
    <3> QED BY <3>1, <3>3, <1>12 DEF Moves, NamePlan
  <2>2. CASE catalog' = catalog \cup {tool.state.plan} /\ Saves([tool.state EXCEPT !.named = TRUE], "done")
    <3>1. PICK state \in States : state = [tool.state EXCEPT !.named = TRUE]
      BY <1>t DEF States
    <3>2. state.a = tool.state.a /\ state.b = tool.state.b /\ state.second = tool.state.second /\ state.plan = tool.state.plan
      BY <3>1, <1>t DEF States
    <3>3. tool'.step = "done" /\ tool'.state = state /\ tool'.tx = NoTx
      BY <2>2, <3>1, <1>s
    <3>4. Names
      BY <3>2, <3>3, <2>2, <1>12 DEF Names, NamePlan
    <3> QED BY <3>3, <3>4, <1>12 DEF Moves, NamePlan
  <2>3. CASE catalog' \in {catalog, catalog \cup {tool.state.plan}} /\ tool' = Stopped
    <3>1. Stops
      BY <2>3 DEF Stops, Stopped
    <3> QED BY <3>1, <2>3, <1>12 DEF Moves, NamePlan, Stops
  <2> QED BY <2>1, <2>2, <2>3, <1>12 DEF NamePlan
<1>13. CASE GivesUp \/ Cut \/ Ends
  <2>1. tool' = Stopped /\ UNCHANGED <<world, final, sent, fates, asked, early, hasty, acted, catalog>>
    BY <1>13 DEF GivesUp, Cut, Ends, Fails
  <2>2. Stops
    BY <2>1 DEF Stops, Stopped
  <2> QED BY <2>1, <2>2 DEF Moves, Stops
<1> QED BY <1>1, <1>3, <1>4, <1>5, <1>7, <1>8, <1>9, <1>10, <1>11, <1>12, <1>13 DEF DemoNext, PrepareDemo

-----------------------------------------------------------------------------
\* The steps around a run leave it as it is.
LEMMA RunRests ==
  ASSUME \/ Lands \/ Expires \/ Finalizes \/ OwnerActs \/ LosesFile \/ ChargeA \/ UNCHANGED demoVars
  PROVE  /\ UNCHANGED <<tool, hasty, catalog>>
         /\ (Lands \/ OwnerActs \/ (world' = world /\ fates' = fates))
         /\ acted' = acted \/ OwnerActs
BY DEF Lands, Expires, Finalizes, OwnerActs, LosesFile, ChargeA, demoVars

LEMMA TxStaysSteps ==
  ASSUME DemoTypeOK, WorldIsSent, StatesTrue, TxIsSteps, [DemoNext]_demoVars
  PROVE  TxIsSteps'
<1>1. ASSUME NEW tx \in Txs, Asks(tx) PROVE TxIsSteps'
  <2>1. tx.id # Nobody /\ NoTx.op = "none"
    BY <1>1 DEF Asks, DemoTypeOK, Nobody, NoTx
  <2>2. CASE Stops
    BY <2>2 DEF Stops, TxIsSteps
  <2>3. CASE tool'.tx = tx /\ tool'.step = tool.step /\ tool'.state = tool.state
    <3>1. Recipient' = Recipient
      BY <2>3 DEF Recipient
    <3> QED BY <2>1, <2>3, <3>1, <1>1 DEF TxIsSteps, Asks
  <2> QED BY <2>2, <2>3, <1>1 DEF Asks
<1>2. CASE Moves
  BY <1>2 DEF Moves, TxIsSteps
<1>3. CASE UNCHANGED tool
  <2>1. Recipient' = Recipient
    BY <1>3 DEF Recipient
  <2> QED BY <1>3, <2>1 DEF TxIsSteps
<1> QED BY <1>1, <1>2, <1>3, RunRests, RunSteps

LEMMA EquipmentStays ==
  ASSUME DemoTypeOK, WorldIsSent, StatesTrue, TxIsSteps, Equipment, [DemoNext]_demoVars
  PROVE  Equipment'
<1>1. ASSUME NEW tx \in Txs, Asks(tx) PROVE Equipment'
  BY <1>1 DEF Asks, Stops, Equipment
<1>2. CASE Moves
  <2>1. CASE Advances
    BY <1>2, <2>1 DEF Moves, Advances, Equipment
  <2>2. CASE Reads
    BY <1>2, <2>2 DEF Moves, Reads, Equipment
  <2>3. CASE \E id \in Nat : Gets(id)
    BY <1>2, <2>3 DEF Moves, Gets, Equipment
  <2>4. CASE PlansIt \/ Names \/ Stops
    BY <1>2, <2>4 DEF Moves, PlansIt, Names, Stops, Equipment
  <2> QED BY <1>2, <2>1, <2>2, <2>3, <2>4 DEF Moves
<1>3. ASSUME tool' = tool, world.funded => world'.funded, world.ata => world'.ata PROVE Equipment'
  BY <1>3 DEF Equipment
<1>4. CASE Lands
  <2>1. (world.funded => world'.funded) /\ (world.ata => world'.ata)
    BY <1>4, WithOne DEF Lands, DemoTypeOK
  <2> QED BY <1>4, <2>1, <1>3 DEF Lands
<1>5. CASE OwnerActs
  BY <1>5, <1>3, OwnerChanges
<1> QED BY <1>1, <1>2, <1>3, <1>4, <1>5, RunRests, RunSteps

\* Which grants may be on their way, and which permissions there.
LEMMA GrantsLand ==
  ASSUME DemoTypeOK, Lands
  PROVE  /\ Grants' \subseteq Grants
         /\ \/ world'.live = world.live
            \/ \E g \in Grants : /\ g \notin Grants'
                                 /\ world'.live = world.live \cup {[to |-> g.to, id |-> g.id]}
         /\ world.live \subseteq world'.live /\ world'.subs = world.subs
<1>1. PICK tx \in sent : /\ sent' = sent \ {tx}
                         /\ world' = IF Accepts(tx) THEN With(tx) ELSE world
  BY DEF Lands
<1>2. tx \in Txs
  BY <1>1 DEF DemoTypeOK
<1>3. Grants' \subseteq Grants /\ tx \notin Grants'
  BY <1>1 DEF Grants
<1> QED BY <1>1, <1>2, <1>3, WithOne DEF Grants

LEMMA GrantsRest ==
  ASSUME DemoTypeOK, Moves \/ Expires \/ Finalizes \/ OwnerActs \/ LosesFile \/ ChargeA \/ UNCHANGED demoVars
  PROVE  Grants' \subseteq Grants /\ world'.live \subseteq world.live
<1>1. CASE Moves \/ Expires \/ Finalizes \/ LosesFile \/ UNCHANGED demoVars
  BY <1>1 DEF Moves, Expires, Finalizes, LosesFile, demoVars, Grants
<1>2. CASE OwnerActs
  BY <1>2, OwnerChanges DEF Grants
<1>3. CASE ChargeA
  <2>1. [Fund EXCEPT !.op = "charge", !.id = file.a].op = "charge"
    BY DEF Fund
  <2> QED BY <1>3, <2>1 DEF ChargeA, Grants
<1> QED BY <1>1, <1>2, <1>3

LEMMA OneEachStays ==
  ASSUME DemoTypeOK, WorldIsSent, StatesTrue, TxIsSteps, OneEach, GivenInTurn, [DemoNext]_demoVars
  PROVE  OneEach' /\ GivenInTurn'
<1>h. hasty => hasty'
  BY RunSteps, RunRests DEF Asks, Moves, Advances, Reads, Gets, PlansIt, Names
<1> SUFFICES ASSUME ~hasty' PROVE OneEach' /\ GivenInTurn'
  BY DEF OneEach, GivenInTurn
<1>o. /\ \A p, q \in world.live : p.to = q.to => p = q
      /\ \A g, h \in Grants : g.to = h.to => g = h
      /\ \A g \in Grants, p \in world.live : g.to # p.to
  BY <1>h DEF OneEach
<1>g. tool.step = "a" \/ (tool.step = "b" /\ tool.tx = NoTx) =>
        /\ \A g \in Grants : g.to = MerchantKey
        /\ \A p \in world.live : p.to = MerchantKey \/ p \in tool.list.live
        /\ tool.step = "a" /\ tool.tx = NoTx => Grants = {} /\ world.live \subseteq tool.list.live
  BY <1>h DEF GivenInTurn
<1>1. CASE Lands
  <2>1. tool' = tool
    BY <1>1 DEF Lands
  <2>2. CASE world'.live = world.live
    <3>1. OneEach'
      BY <1>1, <1>o, <2>2, GrantsLand DEF OneEach
    <3>2. GivenInTurn'
      BY <1>1, <1>g, <2>1, <2>2, GrantsLand DEF GivenInTurn
    <3> QED BY <3>1, <3>2
  <2>3. CASE world'.live # world.live
    <3>1. PICK g \in Grants : g \notin Grants' /\ world'.live = world.live \cup {[to |-> g.to, id |-> g.id]}
      BY <1>1, <2>3, GrantsLand
    <3>2. PICK new : new = [to |-> g.to, id |-> g.id]
      OBVIOUS
    <3>3. new.to = g.to /\ Grants' \subseteq Grants /\ world'.live = world.live \cup {new}
      BY <3>1, <3>2, <1>1, GrantsLand
    <3>4. OneEach'
      <4>1. \A p, q \in world'.live : p.to = q.to => p = q
        BY <1>o, <3>3
      <4>2. \A h, i \in Grants' : h.to = i.to => h = i
        BY <1>o, <3>3
      <4>3. \A h \in Grants', p \in world'.live : h.to # p.to
        BY <1>o, <3>1, <3>3
      <4> QED BY <4>1, <4>2, <4>3 DEF OneEach
    <3>5. GivenInTurn'
      BY <1>g, <2>1, <3>3 DEF GivenInTurn
    <3> QED BY <3>4, <3>5
  <2> QED BY <2>2, <2>3
<1>2. ASSUME NEW tx \in Txs, Asks(tx) PROVE OneEach' /\ GivenInTurn'
  <2>1. sent' \in {sent, sent \cup {tx}} /\ world' = world
    BY <1>2 DEF Asks
  <2>2. tx.op # "grant" => Grants' = Grants
    BY <2>1 DEF Grants
  <2>3. tx.op = "grant" => Grants' \subseteq Grants \cup {tx}
    BY <2>1 DEF Grants
  <2>4. ASSUME tx.op = "grant"
        PROVE  /\ tool.step \in {"a", "b"} /\ tool.tx = NoTx /\ tx.to = Recipient
               /\ \A p \in tool.list.live : p.to # tx.to
    BY <1>2, <2>4 DEF Asks
  <2>5. ASSUME tx.op = "grant" PROVE (\A g \in Grants : g.to # tx.to) /\ \A p \in world.live : p.to # tx.to
    <3>1. CASE tool.step = "a"
      BY <2>4, <2>5, <3>1, <1>g
    <3>2. CASE tool.step = "b"
      <4>1. tx.to = tool.state.second /\ tool.state.second > MerchantKey
        BY <2>4, <2>5, <3>2 DEF Recipient, StatesTrue
      <4>2. tx.to # MerchantKey
        BY <4>1 DEF MerchantKey, DemoTypeOK, Tools, States
      <4> QED BY <4>2, <2>4, <2>5, <3>2, <1>g
    <3> QED BY <3>1, <3>2, <2>4, <2>5
  <2>6. OneEach'
    <3>1. CASE tx.op # "grant"
      BY <3>1, <1>o, <2>1, <2>2 DEF OneEach
    <3>2. CASE tx.op = "grant"
      BY <3>2, <1>o, <2>1, <2>3, <2>5 DEF OneEach
    <3> QED BY <3>1, <3>2
  <2>7. GivenInTurn'
    <3>1. CASE Stops
      BY <3>1 DEF Stops, GivenInTurn
    <3>2. CASE tool'.tx = tx /\ tool'.step = tool.step /\ tool'.list = tool.list /\ tool.tx = NoTx
      <4>1. tx # NoTx
        BY DEF Txs, NoTx
      <4>2. SUFFICES ASSUME tool.step = "a"
                     PROVE  /\ \A g \in Grants' : g.to = MerchantKey
                            /\ \A p \in world.live : p.to = MerchantKey \/ p \in tool.list.live
        BY <2>1, <3>2, <4>1 DEF GivenInTurn
      <4>3. tx.op = "grant" => tx.to = MerchantKey
        BY <2>4, <4>2 DEF Recipient
      <4> QED BY <1>g, <2>2, <2>3, <4>2, <4>3
    <3> QED BY <3>1, <3>2, <1>2 DEF Asks
  <2> QED BY <2>6, <2>7
<1>3. CASE Moves
  <2>1. world' = world /\ sent' = sent /\ tool'.tx = NoTx
    BY <1>3 DEF Moves
  <2>2. Grants' = Grants
    BY <2>1 DEF Grants
  <2>3. OneEach'
    BY <2>1, <2>2, <1>o DEF OneEach
  <2>4. CASE Reads
    <3>1. tool'.step = "a" => tool'.list = world /\ sent = {}
      BY <2>4 DEF Reads
    <3>2. tool'.step \in {"a", "plan"}
      BY <2>4 DEF Reads
    <3>3. tool'.step = "a" => Grants = {}
      BY <3>1 DEF Grants
    <3> QED BY <2>1, <2>2, <2>3, <3>1, <3>2, <3>3 DEF GivenInTurn
  <2>5. CASE \E id \in Nat : Gets(id)
    <3>1. tool'.step = "b" => tool.step = "a" /\ tool'.list = tool.list
      BY <2>5 DEF Gets
    <3>2. tool'.step # "a"
      BY <2>5 DEF Gets
    <3> QED BY <2>1, <2>2, <2>3, <1>g, <3>1, <3>2 DEF GivenInTurn
  <2>6. CASE Advances \/ PlansIt \/ Names \/ Stops
    <3>1. tool'.step \notin {"a", "b"}
      BY <2>6 DEF Advances, PlansIt, Names, Stops
    <3> QED BY <2>3, <3>1 DEF GivenInTurn
  <2> QED BY <1>3, <2>4, <2>5, <2>6 DEF Moves
<1>4. CASE Expires \/ Finalizes \/ OwnerActs \/ LosesFile \/ ChargeA \/ UNCHANGED demoVars
  <2>1. Grants' \subseteq Grants /\ world'.live \subseteq world.live
    BY <1>4, GrantsRest
  <2>2. tool' = tool
    BY <1>4, RunRests
  <2> QED BY <2>1, <2>2, <1>o, <1>g DEF OneEach, GivenInTurn
<1> QED BY <1>1, <1>2, <1>3, <1>4, RunSteps

\* A run has what it had to give, while its owner leaves it alone.
LEMMA KeptStays ==
  ASSUME DemoTypeOK, IdsAreOwn, WorldIsSent, StatesTrue, TxIsSteps, Kept, [DemoNext]_demoVars
  PROVE  Kept'
<1>h. hasty => hasty'
  BY RunSteps, RunRests DEF Asks, Moves, Advances, Reads, Gets, PlansIt, Names
<1> SUFFICES ASSUME ~hasty', ~acted' PROVE Kept'
  BY DEF Kept
<1> DEFINE A == [to |-> MerchantKey, id |-> tool.state.a]
           B == [to |-> tool.state.second, id |-> tool.state.b]
           G == [to |-> tool.tx.to, id |-> tool.tx.id]
<1>k. ~acted =>
        /\ tool.step \in {"a", "b"} => tool.list.live \subseteq world.live
        /\ tool.step \in {"a", "b"} /\ tool.tx # NoTx /\ TRUE \in Fate => G \in world.live
        /\ tool.step \in {"b", "list again", "plan", "name", "done"} => A \in world.live
        /\ tool.step \in {"list again", "plan", "name", "done"} => B \in world.live
  BY <1>h DEF Kept
<1>1. CASE Lands
  <2>1. PICK tx \in sent : /\ fates' = fates \cup {[tx |-> tx, ok |-> Accepts(tx)]}
                           /\ world' = IF Accepts(tx) THEN With(tx) ELSE world
    BY <1>1 DEF Lands
  <2>2. tool' = tool /\ acted' = acted /\ world.live \subseteq world'.live
    BY <1>1, GrantsLand DEF Lands
  <2>3. ASSUME tool.step \in {"a", "b"}, tool.tx # NoTx, TRUE \in Fate' PROVE G \in world'.live
    <3>1. CASE TRUE \in Fate
      BY <1>k, <2>2, <2>3, <3>1
    <3>2. CASE TRUE \notin Fate
      <4>1. PICK f \in fates' : f.ok /\ f.tx = tool.tx
        BY <2>2, <2>3 DEF Fate
      <4>2. f \notin fates
        BY <3>2, <4>1 DEF Fate, DemoTypeOK
      <4>3. f = [tx |-> tx, ok |-> Accepts(tx)]
        BY <2>1, <4>2
      <4>4. tx = tool.tx /\ Accepts(tx)
        BY <4>1, <4>3
      <4>5. tx.op = "grant" /\ tx \in Txs
        BY <2>1, <2>3, <4>4 DEF TxIsSteps, DemoTypeOK
      <4> QED BY <2>1, <4>4, <4>5, WithOne
    <3> QED BY <3>1, <3>2
  <2> QED BY <1>k, <2>2, <2>3 DEF Kept
<1>2. CASE OwnerActs
  BY <1>2, OwnerChanges
<1>3. ASSUME NEW tx \in Txs, Asks(tx) PROVE Kept'
  <2>1. CASE Stops
    BY <2>1 DEF Stops, Kept
  <2>2. CASE tool'.tx = tx /\ tool'.step = tool.step /\ tool'.state = tool.state /\ tool'.list = tool.list
    <3>1. TRUE \notin Fate'
      <4>1. fates' = fates /\ tx.id = lastId + 1
        BY <1>3 DEF Asks
      <4>2. \A f \in fates : f.tx.id <= lastId /\ f.tx.id \in Nat
        BY DEF IdsAreOwn, DemoTypeOK, Txs
      <4>3. \A f \in fates : f.tx # tx
        BY <4>1, <4>2 DEF DemoTypeOK
      <4> QED BY <2>2, <4>1, <4>3 DEF Fate
    <3>2. world' = world /\ acted' = acted
      BY <1>3 DEF Asks
    <3> QED BY <1>k, <2>2, <3>1, <3>2 DEF Kept
  <2> QED BY <1>3, <2>1, <2>2 DEF Asks
<1>4. CASE Moves
  <2>0. world' = world /\ tool'.tx = NoTx
    BY <1>4 DEF Moves
  <2>1. CASE Advances
    BY <2>1 DEF Advances, Kept
  <2>2. CASE Reads
    <3>1. CASE tool'.step = "a"
      <4>1. tool'.list = world
        BY <2>2, <3>1 DEF Reads
      <4> QED BY <2>0, <3>1, <4>1 DEF Kept
    <3>2. CASE tool'.step # "a"
      <4>1. tool.step = "list again" /\ tool'.step = "plan" /\ acted' = acted /\ tool'.state = tool.state
        BY <2>2, <3>2 DEF Reads
      <4> QED BY <2>0, <4>1, <1>k DEF Kept
    <3> QED BY <3>1, <3>2
  <2>3. CASE \E id \in Nat : Gets(id)
    <3>1. PICK id \in Nat : Gets(id)
      BY <2>3
    <3>2. ~acted /\ tool.step \in {"a", "b"} /\ tool'.list = tool.list /\ tool'.state.second = tool.state.second
      BY <3>1 DEF Gets
    <3>3. [to |-> Recipient, id |-> id] \in world.live
      <4>1. CASE \E p \in tool.list.live : p.to = Recipient /\ p.id = id
        <5>1. PICK p \in tool.list.live : p.to = Recipient /\ p.id = id
          BY <4>1
        <5>2. p \in world.live /\ p \in Perms
          BY <5>1, <3>2, <1>k DEF DemoTypeOK, Tools, Worlds
        <5>3. p = [to |-> p.to, id |-> p.id]
          BY <5>2 DEF Perms
        <5> QED BY <5>1, <5>2, <5>3
      <4>2. CASE tool.tx # NoTx /\ TRUE \in Fate /\ id = tool.tx.id
        <5>1. tool.tx.to = Recipient
          BY <4>2, <3>2 DEF TxIsSteps
        <5> QED BY <5>1, <4>2, <3>2, <1>k
      <4> QED BY <4>1, <4>2, <3>1 DEF Gets, Holds
    <3>4. CASE tool.step = "a"
      <4>1. tool'.step = "b" /\ tool'.state.a = id /\ Recipient = MerchantKey
        BY <3>1, <3>4 DEF Gets, Recipient
      <4> QED BY <2>0, <3>2, <3>3, <3>4, <4>1, <1>k DEF Kept
    <3>5. CASE tool.step = "b"
      <4>1. /\ tool'.step = "list again" /\ tool'.state.b = id /\ tool'.state.a = tool.state.a
            /\ Recipient = tool.state.second
        BY <3>1, <3>5 DEF Gets, Recipient
      <4> QED BY <2>0, <3>2, <3>3, <3>5, <4>1, <1>k DEF Kept
    <3> QED BY <3>2, <3>4, <3>5
  <2>4. CASE PlansIt \/ Names
    <3>1. /\ tool.step \in {"plan", "name"} /\ tool'.step \in {"name", "done"} /\ acted' = acted
          /\ tool'.state.a = tool.state.a /\ tool'.state.b = tool.state.b
          /\ tool'.state.second = tool.state.second
      BY <2>4 DEF PlansIt, Names
    <3> QED BY <2>0, <3>1, <1>k DEF Kept
  <2>5. CASE Stops
    BY <2>5 DEF Stops, Kept
  <2> QED BY <1>4, <2>1, <2>2, <2>3, <2>4, <2>5 DEF Moves
<1>5. ASSUME tool' = tool, acted' = acted, world' = world, fates' = fates PROVE Kept'
  <2>1. Fate' = Fate
    BY <1>5 DEF Fate
  <2> QED BY <1>5, <2>1, <1>k DEF Kept
<1> QED BY <1>1, <1>2, <1>3, <1>4, <1>5, RunRests, RunSteps

LEMMA PlannedStays ==
  ASSUME DemoTypeOK, IdsAreOwn, WorldIsSent, StatesTrue, TxIsSteps, Planned, [DemoNext]_demoVars
  PROVE  Planned'
<1>h. hasty => hasty'
  BY RunSteps, RunRests DEF Asks, Moves, Advances, Reads, Gets, PlansIt, Names
<1>c. catalog \subseteq catalog'
  BY CatalogGrows
<1>k. ~hasty' /\ ~acted =>
        /\ tool.step = "plan" => world.subs \subseteq tool.list.subs
        /\ tool.step = "plan" /\ tool.tx # NoTx => tool.tx.id \notin world.subs
        /\ tool.step \in {"name", "done"} => tool.state.plan \notin world.subs
  BY <1>h DEF Planned
<1>n. /\ tool.step \in {"name", "done"} => tool.state.plan # Nobody
      /\ tool.step = "done" => tool.state.plan \in catalog
  BY DEF Planned
<1>1. ASSUME tool' = tool, (acted' = acted /\ world'.subs = world.subs) \/ acted' PROVE Planned'
  BY <1>1, <1>c, <1>k, <1>n DEF Planned
<1>2. CASE Lands
  BY <1>2, <1>1, GrantsLand DEF Lands
<1>3. CASE OwnerActs
  BY <1>3, <1>1, OwnerChanges
<1>4. ASSUME NEW tx \in Txs, Asks(tx) PROVE Planned'
  <2>1. CASE Stops
    BY <2>1 DEF Stops, Planned
  <2>2. CASE tool'.tx = tx /\ tool'.step = tool.step /\ tool'.state = tool.state /\ tool'.list = tool.list
    <3>1. tx.id \notin world.subs
      <4>1. \A id \in world.subs : id <= lastId /\ id \in Nat
        BY DEF WorldIsSent, DemoTypeOK, Worlds
      <4> QED BY <4>1, <1>4 DEF Asks, DemoTypeOK
    <3>2. world' = world /\ acted' = acted
      BY <1>4 DEF Asks
    <3> QED BY <1>c, <1>k, <1>n, <2>2, <3>1, <3>2 DEF Planned
  <2> QED BY <1>4, <2>1, <2>2 DEF Asks
<1>5. CASE Moves
  <2>0. world' = world /\ tool'.tx = NoTx
    BY <1>5 DEF Moves
  <2>1. CASE Advances \/ (\E id \in Nat : Gets(id)) \/ Stops
    <3>1. tool'.step \notin {"plan", "name", "done"}
      BY <2>1 DEF Advances, Gets, Stops
    <3> QED BY <3>1 DEF Planned
  <2>2. CASE Reads
    <3>1. tool'.step \in {"a", "plan"} /\ (~hasty' => tool'.list = world)
      BY <2>2 DEF Reads
    <3> QED BY <2>0, <3>1 DEF Planned
  <2>3. CASE PlansIt
    <3>1. tool.step = "plan" /\ tool'.step = "name" /\ acted' = acted
      BY <2>3 DEF PlansIt
    <3>2. CASE tool.tx # NoTx /\ tool'.state.plan = tool.tx.id
      <4>1. tool.tx.id # Nobody
        BY <3>1, <3>2 DEF TxIsSteps
      <4> QED BY <2>0, <3>1, <3>2, <4>1, <1>k DEF Planned
    <3>3. CASE tool'.state.plan = tool.state.plan /\ tool.state.plan \notin tool.list.subs \cup {Nobody}
      BY <2>0, <3>1, <3>3, <1>k DEF Planned
    <3> QED BY <2>3, <3>2, <3>3 DEF PlansIt
  <2>4. CASE Names
    <3>1. /\ tool.step = "name" /\ tool'.step = "done" /\ acted' = acted
          /\ tool'.state.plan = tool.state.plan /\ tool.state.plan \in catalog'
      BY <2>4 DEF Names
    <3> QED BY <2>0, <3>1, <1>k, <1>n DEF Planned
  <2> QED BY <1>5, <2>1, <2>2, <2>3, <2>4 DEF Moves
<1> QED BY <1>1, <1>2, <1>3, <1>4, <1>5, RunRests, RunSteps

\* A permission a charge was asked for after it ended stays ended.
LEMMA ChargesStayLate ==
  ASSUME DemoTypeOK, IdsAreOwn, WorldIsSent, StatesTrue, TxIsSteps, ChargesLate, [DemoNext]_demoVars
  PROVE  ChargesLate'
<1>l. \A t \in sent : t.op = "charge" =>
        t.id \in early \/ ((\A p \in world.live : p.id # t.id) /\ (\A g \in Grants : g.id # t.id))
  BY DEF ChargesLate
<1>f. \A f \in fates : f.tx.op = "charge" /\ f.ok => f.tx.id \in early
  BY DEF ChargesLate, ChargeTakesNothing
<1>1. CASE Lands
  <2>1. PICK tx \in sent : /\ sent' = sent \ {tx}
                           /\ fates' = fates \cup {[tx |-> tx, ok |-> Accepts(tx)]}
                           /\ early' = early
    BY <1>1 DEF Lands
  <2>2. \A f \in fates' : f.tx.op = "charge" /\ f.ok => f.tx.id \in early
    <3>1. SUFFICES ASSUME tx.op = "charge", Accepts(tx) PROVE tx.id \in early
      BY <2>1, <1>f
    <3>2. \E p \in world.live : p.id = tx.id
      BY <3>1 DEF Accepts
    <3> QED BY <3>1, <3>2, <1>l
  <2>3. ASSUME NEW t \in sent', t.op = "charge", t.id \notin early
        PROVE  (\A p \in world'.live : p.id # t.id) /\ (\A g \in Grants' : g.id # t.id)
    <3>1. t \in sent
      BY <2>1, <2>3
    <3>2. (\A p \in world.live : p.id # t.id) /\ (\A g \in Grants : g.id # t.id)
      BY <1>l, <2>3, <3>1
    <3>3. Grants' \subseteq Grants
      BY <1>1, GrantsLand
    <3>4. CASE world'.live = world.live
      BY <3>2, <3>3, <3>4
    <3>5. CASE \E g \in Grants : world'.live = world.live \cup {[to |-> g.to, id |-> g.id]}
      BY <3>2, <3>3, <3>5
    <3> QED BY <1>1, <3>4, <3>5, GrantsLand
  <2> QED BY <2>1, <2>2, <2>3 DEF ChargesLate, ChargeTakesNothing
<1>2. ASSUME NEW tx \in Txs, Asks(tx) PROVE ChargesLate'
  <2>1. sent' \in {sent, sent \cup {tx}} /\ UNCHANGED <<world, fates, early>> /\ tx.op # "charge" /\ tx.id = lastId + 1
    BY <1>2 DEF Asks
  <2>2. \A t \in sent : t.id # tx.id
    BY <2>1 DEF IdsAreOwn, DemoTypeOK, Txs
  <2>3. \A t \in sent' : t.op = "charge" => t \in sent
    BY <2>1
  <2>4. \A g \in Grants' : g \in Grants \/ g = tx
    BY <2>1 DEF Grants
  <2> QED BY <1>l, <1>f, <2>1, <2>2, <2>3, <2>4 DEF ChargesLate, ChargeTakesNothing
<1>3. CASE ChargeA
  <2>1. PICK charge : charge = [Fund EXCEPT !.op = "charge", !.id = file.a]
    OBVIOUS
  <2>2. charge.op = "charge" /\ charge.id = file.a
    BY <2>1 DEF Fund
  <2>3. sent' = sent \cup {charge} /\ file.a # Nobody /\ UNCHANGED <<world, fates>>
    BY <1>3, <2>1 DEF ChargeA
  <2>4. PICK seen \in NodeAnswers :
          /\ MayCharge(seen)
          /\ early' = IF \E p \in world.live \ final.live : p.id = file.a THEN early \cup {file.a} ELSE early
    BY <1>3 DEF ChargeA
  <2>5. file.a \in early' \/ \A p \in world.live : p.id # file.a
    BY <2>4 DEF NodeAnswers, MayCharge
  <2>6. PICK f \in fates : f.tx.op = "grant" /\ f.tx.id = file.a
    BY <2>3 DEF StatesTrue, StateTrue, Landed
  <2>7. \A g \in Grants : g.id # file.a
    BY <2>6 DEF IdsAreOwn, Grants
  <2>8. Grants' = Grants
    BY <2>2, <2>3 DEF Grants
  <2>9. early \subseteq early'
    BY <2>4
  <2>10. \A t \in sent' : t.op = "charge" =>
           t.id \in early' \/ ((\A p \in world.live : p.id # t.id) /\ (\A g \in Grants : g.id # t.id))
    BY <1>l, <2>2, <2>3, <2>5, <2>7, <2>9
  <2> QED BY <1>f, <2>3, <2>8, <2>9, <2>10 DEF ChargesLate, ChargeTakesNothing
<1>4. CASE Moves \/ Expires \/ Finalizes \/ OwnerActs \/ LosesFile \/ UNCHANGED demoVars
  <2>1. Grants' \subseteq Grants /\ world'.live \subseteq world.live
    BY <1>4, GrantsRest
  <2>2. sent' \in SUBSET sent /\ UNCHANGED <<fates, early>>
    BY <1>4 DEF Moves, Expires, Finalizes, OwnerActs, LosesFile, demoVars
  <2> QED BY <1>l, <1>f, <2>1, <2>2 DEF ChargesLate, ChargeTakesNothing
<1> QED BY <1>1, <1>2, <1>3, <1>4, RunSteps

-----------------------------------------------------------------------------
LEMMA DemoStarts == DemoInit => DemoInv
<1> SUFFICES ASSUME DemoInit PROVE DemoInv
  OBVIOUS
<1>1. NoFile \in States /\ Empty \in Worlds
  BY DEF NoFile, States, Nobody, Empty, Worlds
<1>2. Stopped \in Tools
  BY <1>1 DEF Stopped, Tools, ToolSteps
<1>3. Stopped.step = "idle" /\ Stopped.tx = NoTx /\ Stopped.list = Empty /\ Stopped.state = NoFile
  BY DEF Stopped
<1>4. NoTx.id = Nobody /\ Empty.live = {} /\ Empty.plans = {} /\ Empty.subs = {} /\ ~Empty.funded /\ ~Empty.ata
  BY DEF NoTx, Empty
<1>5. DemoTypeOK
  <2>1. world \in Worlds /\ final \in Worlds /\ file \in States /\ tool \in Tools
    BY <1>1, <1>2 DEF DemoInit
  <2>2. lastId \in Nat /\ lastId >= MerchantKey
    BY DEF DemoInit, MerchantKey
  <2>3. hasty \in BOOLEAN /\ acted \in BOOLEAN
    BY DEF DemoInit
  <2>4. sent = {} /\ fates = {} /\ catalog = {} /\ asked = {} /\ early = {}
    BY DEF DemoInit
  <2> QED BY <2>1, <2>2, <2>3, <2>4 DEF DemoTypeOK
<1>6. IdsAreOwn
  BY <1>3, <1>4 DEF DemoInit, IdsAreOwn, Nobody, MerchantKey
<1>7. WorldIsSent
  BY <1>3, <1>4 DEF DemoInit, WorldIsSent
<1>8. StatesTrue
  BY <1>3 DEF DemoInit, StatesTrue, StateTrue, NoFile
<1>9. TxIsSteps /\ GivenInTurn /\ Equipment /\ Kept /\ Planned
  BY <1>3 DEF DemoInit, TxIsSteps, GivenInTurn, Equipment, Kept, Planned
<1>10. OneEach /\ ChargesLate
  BY <1>4 DEF DemoInit, OneEach, ChargesLate, ChargeTakesNothing, Grants
<1> QED BY <1>5, <1>6, <1>7, <1>8, <1>9, <1>10 DEF DemoInv

\* The inductive invariant of the show holds in every scene: where the tool does not
\* run, nothing of it changes.
LEMMA DemoStays == DemoInv /\ [DemoNext]_demoVars => DemoInv'
BY DemoTyped, IdsStayOwn, WorldStaysSent, StatesStayTrue, TxStaysSteps, OneEachStays, EquipmentStays, KeptStays, PlannedStays, ChargesStayLate
   DEF DemoInv

LEMMA DemoShown == DemoInv => DemoHolds
<1> SUFFICES ASSUME DemoInv PROVE DemoHolds
  OBVIOUS
<1>1. KeepsWhatLanded
  BY DEF DemoInv, OneEach, KeepsWhatLanded, LiveTo
<1>2. FileNamesLanded
  BY DEF DemoInv, StatesTrue, StateTrue, Landed, FileNamesLanded
<1>3. PreparedWorld
  <2> SUFFICES ASSUME tool.step = "done", ~hasty, ~acted
               PROVE  /\ world.funded /\ world.ata
                      /\ \E p \in LiveTo(MerchantKey) : p.id = tool.state.a
                      /\ \E p \in LiveTo(tool.state.second) : p.id = tool.state.b
                      /\ tool.state.plan \in (world.plans \cap catalog) \ world.subs
    BY DEF PreparedWorld
  <2>1. world.funded /\ world.ata
    BY DEF DemoInv, Equipment
  <2>2. /\ [to |-> MerchantKey, id |-> tool.state.a] \in world.live
        /\ [to |-> tool.state.second, id |-> tool.state.b] \in world.live
    BY DEF DemoInv, Kept
  <2>3. tool.state.plan \notin world.subs /\ tool.state.plan \in catalog /\ tool.state.plan # Nobody
    BY DEF DemoInv, Planned
  <2>4. Landed("plan", tool.state.plan)
    BY <2>3 DEF DemoInv, StatesTrue, StateTrue
  <2>5. tool.state.plan \in world.plans
    BY <2>4 DEF Landed, DemoInv, WorldIsSent
  <2> QED BY <2>1, <2>2, <2>3, <2>5 DEF LiveTo
<1>4. ChargeTakesNothing
  BY DEF DemoInv, ChargesLate
<1> QED BY <1>1, <1>2, <1>3, <1>4 DEF DemoHolds

\* Whatever was cut short, lost, answered late or done by the owner meanwhile: no recipient
\* has two permissions once an earlier run's grant could be read, the file names only what
\* landed, a finished run leaves the whole show, and the charge that is shown takes nothing
\* (demo.ts prepare and charge).
THEOREM ShowIsThere == Spec => []ShowHolds
<1>1. Init => DemoInv
  BY DemoStarts DEF Init
<1>2. DemoInv /\ [Next]_vars => DemoInv'
  <2> SUFFICES ASSUME DemoInv, [Next]_vars PROVE DemoInv'
    OBVIOUS
  <2>1. [DemoNext]_demoVars
    BY DEF Next, vars, Chain, Subscriber, Merchant, Subscribes, Rehearsal
  <2> QED BY <2>1, DemoStays
<1>3. DemoInv => ShowHolds
  BY DemoShown DEF ShowHolds
<1> QED BY <1>1, <1>2, <1>3, PTL DEF Spec

-----------------------------------------------------------------------------
(***************************************************************************)
(* The chain.                                                              *)
(***************************************************************************)
LEMMA Periods ==
  ASSUME NEW a \in Nat, NEW d \in Nat \ {0}
  PROVE  a \div d \in Nat /\ (a \div d) * d \in Nat /\ (a \div d) * d <= a
<1>1. a \div d \in Nat /\ (a \div d) * d <= a
  BY SMT
<1>2. \A q \in Nat : q * d \in Nat
  OBVIOUS
<1> QED BY <1>1, <1>2

LEMMA NoneOf == ASSUME NEW condition, NEW code PROVE OneOf(condition, code) = {} <=> ~condition
BY DEF OneOf

\* What landing a transaction does, for each kind of transaction.
Takes(tx) ==
  /\ Exists /\ auth # 0 /\ auth = acct.gen
  /\ acct.until # None => now < acct.until
  /\ purse # NoAccount /\ purse >= tx.amount
  /\ acct' \in Accounts
  /\ acct'.kind = acct.kind /\ acct'.gen = acct.gen /\ acct'.terms = acct.terms /\ acct'.until = acct.until
  /\ acct'.start <= now
  /\ acct.kind = "fixed" => tx.amount <= acct.cap /\ acct'.cap = acct.cap - tx.amount /\ acct'.spent = acct.spent
  /\ acct.kind # "fixed" => /\ acct'.cap = acct.cap /\ acct'.spent \in {tx.amount, acct.spent + tx.amount}
                            /\ acct'.start = Start /\ acct'.spent = Spent + tx.amount /\ acct'.spent <= acct.cap
  /\ purse' = purse - tx.amount
  /\ pulls' = Append(pulls, [at |-> now, amount |-> tx.amount])
  /\ UNCHANGED <<plan, auth>>

LEMMA ChargeMayLand ==
  ASSUME ChainTyped, NEW tx \in Sendings, ChargeRefusals(tx.amount) = {}
  PROVE  /\ Exists /\ auth # 0 /\ auth = acct.gen
         /\ acct.until # None => now < acct.until
         /\ tx.amount <= Left
         /\ purse # NoAccount /\ purse >= tx.amount
<1>1. Exists
  BY DEF ChargeRefusals
<1>2. /\ auth # 0 /\ auth \in {0, acct.gen}
      /\ ~(acct.kind = "subscription" /\ acct.until # None /\ now >= acct.until)
      /\ ~(acct.kind # "subscription" /\ acct.until # None /\ now >= acct.until)
      /\ ~(acct.kind = "fixed" /\ tx.amount > Left)
      /\ ~(acct.kind # "fixed" /\ tx.amount > Left)
      /\ ~(purse = NoAccount \/ ~payee)
      /\ ~(purse # NoAccount /\ purse < tx.amount)
  BY ZenonT(40), <1>1, NoneOf DEF ChargeRefusals
<1>3. now \in Nat /\ acct.until \in Nat /\ tx.amount \in Nat /\ purse \in Nat \cup {NoAccount} /\ NoAccount = -1
  BY DEF ChainTyped, Accounts, Sendings, NoAccount
<1>4. Left \in Int
  <2>1. acct.start \in Nat /\ now - acct.start \in Nat /\ acct.spent \in Nat /\ acct.cap \in Nat
    BY DEF ChainTyped, Accounts
  <2>2. Spent \in Nat
    BY <2>1 DEF Spent
  <2> QED BY <2>1, <2>2 DEF Left
<1> QED BY <1>1, <1>2, <1>3, <1>4

LEMMA RefusalsOf ==
  ASSUME NEW tx \in Sendings
  PROVE  /\ tx.op = "charge" => Refusals(tx) = ChargeRefusals(tx.amount)
         /\ tx.op = "misnamed" => Refusals(tx) # {}
         /\ tx.op = "close" => Refusals(tx) = CloseRefusals
         /\ tx.op = "cancel" => Refusals(tx) = CancelRefusals
         /\ tx.op = "subscribe" => Refusals(tx) = SubscribeRefusals(tx.terms, tx.gen)
         /\ tx.op = "plan" => Refusals(tx) = OneOf(plan.terms # 0, "exists")
<1>1. CASE tx.op = "charge"
  BY <1>1 DEF Refusals
<1>2. CASE tx.op = "misnamed"
  BY <1>2 DEF Refusals
<1>3. CASE tx.op = "close"
  BY <1>3 DEF Refusals
<1>4. CASE tx.op = "cancel"
  BY <1>4 DEF Refusals
<1>5. CASE tx.op = "subscribe"
  BY <1>5 DEF Refusals
<1>6. CASE tx.op = "plan"
  BY <1>6 DEF Refusals
<1> QED BY <1>1, <1>2, <1>3, <1>4, <1>5, <1>6 DEF Sendings

\* The fields of what a landing writes.
LEMMA EffectOf ==
  ASSUME NEW n \in DOMAIN txs, txs[n] \in Sendings, Effect(n)
  PROVE  LET tx == txs[n] IN
         /\ tx.op = "charge" => acct' = Charged(tx.amount)
         /\ tx.op = "close" => acct' = Absent
         /\ tx.op = "cancel" => acct' = [acct EXCEPT !.until = StopDate]
         /\ tx.op = "subscribe" =>
              \E gen \in {tx.gen, n + 1} : /\ acct' = Account("subscription", tx.terms, gen, Cap(tx.terms), now)
                                           /\ auth' = gen
         /\ tx.op = "plan" => acct' = acct
         /\ tx.op # "subscribe" => auth' = auth
         /\ plan' = IF tx.op = "plan" THEN Offer(tx.terms, None, FALSE, 0) ELSE plan
         /\ purse' = IF tx.op = "charge" THEN purse - tx.amount ELSE purse
         /\ pulls' = IF tx.op = "charge" THEN Append(pulls, [at |-> now, amount |-> tx.amount]) ELSE pulls
<1>1. PICK tx \in Sendings : tx = txs[n]
  OBVIOUS
<1>2. PICK gen : gen = IF tx.gen = 0 THEN n + 1 ELSE tx.gen
  OBVIOUS
<1>3. /\ acct' = CASE tx.op = "charge"    -> Charged(tx.amount)
                  [] tx.op = "close"     -> Absent
                  [] tx.op = "cancel"    -> [acct EXCEPT !.until = StopDate]
                  [] tx.op = "subscribe" -> Account("subscription", tx.terms, gen, Cap(tx.terms), now)
                  [] tx.op = "plan"      -> acct
      /\ auth' = IF tx.op = "subscribe" THEN gen ELSE auth
      /\ plan' = IF tx.op = "plan" THEN Offer(tx.terms, None, FALSE, 0) ELSE plan
      /\ purse' = IF tx.op = "charge" THEN purse - tx.amount ELSE purse
      /\ pulls' = IF tx.op = "charge" THEN Append(pulls, [at |-> now, amount |-> tx.amount]) ELSE pulls
  BY <1>1, <1>2 DEF Effect
<1>4. tx.op = "charge" => acct' = Charged(tx.amount)
  BY <1>3
<1>5. tx.op = "close" => acct' = Absent
  BY <1>3
<1>6. tx.op = "cancel" => acct' = [acct EXCEPT !.until = StopDate]
  BY <1>3
<1>7. tx.op = "subscribe" => acct' = Account("subscription", tx.terms, gen, Cap(tx.terms), now)
  BY <1>3
<1>8. tx.op = "plan" => acct' = acct
  BY <1>3
<1>9. tx.op = "subscribe" =>
        \E g \in {tx.gen, n + 1} : /\ acct' = Account("subscription", tx.terms, g, Cap(tx.terms), now)
                                  /\ auth' = g
  <2>1. tx.op = "subscribe" => auth' = gen
    BY <1>3
  <2>2. gen \in {tx.gen, n + 1}
    BY <1>2
  <2> QED BY <1>7, <2>1, <2>2
<1>10. tx.op # "subscribe" => auth' = auth
  BY <1>3
<1>11. /\ plan' = IF tx.op = "plan" THEN Offer(tx.terms, None, FALSE, 0) ELSE plan
       /\ purse' = IF tx.op = "charge" THEN purse - tx.amount ELSE purse
       /\ pulls' = IF tx.op = "charge" THEN Append(pulls, [at |-> now, amount |-> tx.amount]) ELSE pulls
  BY <1>3
<1> QED BY <1>1, <1>4, <1>5, <1>6, <1>8, <1>9, <1>10, <1>11

LEMMA Times ==
  ASSUME ChainTyped
  PROVE  /\ Start \in Nat /\ Start <= now /\ Spent \in {0, acct.spent} /\ acct.spent \in Nat
         /\ StopDate \in Nat /\ StopDate <= now + Period
<1>1. /\ now \in Nat /\ acct.start \in Nat /\ now - acct.start \in Nat /\ acct.spent \in Nat
      /\ Period \in Nat \ {0} /\ plan.ends \in Nat
  BY SMTT(40), ProgramBounds DEF ChainTyped, Accounts, Offers
<1>2. PICK run \in Nat : run = Elapsed * Period /\ run <= now - acct.start
  BY <1>1, Periods DEF Elapsed
<1>3. Start \in Nat /\ Start <= now
  BY <1>1, <1>2 DEF Start
<1>4. Spent \in {0, acct.spent}
  BY DEF Spent
<1>5. StopDate \in Nat /\ StopDate <= now + Period
  BY <1>1, <1>3 DEF StopDate, Least
<1> QED BY <1>1, <1>3, <1>4, <1>5

LEMMA ChargeLanding ==
  ASSUME ChainTyped, NEW n \in DOMAIN txs, txs[n].op = "charge", Refusals(txs[n]) = {}, Effect(n)
  PROVE  Takes(txs[n])
<1>1. PICK tx \in Sendings : tx = txs[n]
  BY DEF ChainTyped
<1>2. ChargeRefusals(tx.amount) = {}
  BY <1>1, RefusalsOf
<1>3. /\ Exists /\ auth # 0 /\ auth = acct.gen
      /\ acct.until # None => now < acct.until
      /\ tx.amount <= Left
      /\ purse # NoAccount /\ purse >= tx.amount
  BY <1>2, ChargeMayLand
<1>4. /\ acct' = Charged(tx.amount) /\ purse' = purse - tx.amount
      /\ pulls' = Append(pulls, [at |-> now, amount |-> tx.amount])
      /\ UNCHANGED <<plan, auth>>
  BY <1>1, EffectOf
<1>5. acct \in Accounts /\ tx.amount \in Nat /\ acct.cap \in Nat
  BY DEF ChainTyped, Accounts, Sendings
<1>6. CASE acct.kind = "fixed"
  <2>1. tx.amount <= acct.cap
    BY <1>3, <1>6 DEF Left
  <2>2. PICK cap \in Nat : cap = acct.cap - tx.amount
    BY <1>5, <2>1
  <2>3. acct' = [acct EXCEPT !.cap = cap]
    BY <1>4, <1>6, <2>2, <1>5 DEF Charged, Accounts
  <2>4. /\ acct' \in Accounts /\ acct'.cap = cap /\ acct'.start = acct.start
        /\ acct'.kind = acct.kind /\ acct'.gen = acct.gen /\ acct'.terms = acct.terms
        /\ acct'.until = acct.until /\ acct'.spent = acct.spent
    BY <2>3, <1>5 DEF Accounts
  <2>5. acct.start <= now
    BY DEF ChainTyped
  <2> QED BY <1>1, <1>3, <1>4, <1>6, <2>1, <2>2, <2>4, <2>5 DEF Takes
<1>7. CASE acct.kind # "fixed"
  <2>1. PICK start \in Nat : start = Start /\ start <= now
    BY Times
  <2>2. PICK spent \in Nat : spent = Spent + tx.amount /\ spent \in {tx.amount, acct.spent + tx.amount}
    BY Times, <1>5
  <2>3. acct' = [acct EXCEPT !.start = start, !.spent = spent]
    BY <1>4, <1>7, <2>1, <2>2 DEF Charged
  <2>4. /\ acct' \in Accounts /\ acct'.start = start /\ acct'.spent = spent
        /\ acct'.kind = acct.kind /\ acct'.gen = acct.gen /\ acct'.terms = acct.terms
        /\ acct'.until = acct.until /\ acct'.cap = acct.cap
    BY <2>3, <1>5 DEF Accounts
  <2>5. spent <= acct.cap
    <3>1. PICK used \in Nat : used = Spent
      BY Times
    <3>2. tx.amount <= acct.cap - used
      BY <1>3, <1>7, <3>1 DEF Left
    <3> QED BY <1>5, <2>2, <3>1, <3>2
  <2> QED BY <1>1, <1>3, <1>4, <1>7, <2>1, <2>2, <2>4, <2>5 DEF Takes
<1> QED BY <1>6, <1>7

Closes(tx) ==
  /\ Exists
  /\ acct.kind = "subscription" => acct.until # None /\ acct.until <= now
  /\ acct' = Absent /\ UNCHANGED <<plan, auth, purse, pulls>>

Cancels(tx) ==
  /\ Exists /\ acct.until = None
  /\ acct' \in Accounts /\ acct'.until = StopDate /\ acct'.until <= now + Period
  /\ acct'.kind = acct.kind /\ acct'.gen = acct.gen /\ acct'.terms = acct.terms
  /\ acct'.cap = acct.cap /\ acct'.start = acct.start /\ acct'.spent = acct.spent
  /\ UNCHANGED <<plan, auth, purse, pulls>>

Opens(tx) ==
  /\ ~Exists /\ acct' \in Accounts /\ acct'.kind = "subscription" /\ acct'.terms = tx.terms /\ acct'.start = now
  /\ auth' \in Nat /\ UNCHANGED <<plan, purse, pulls>>

MakesPlan(tx) ==
  /\ plan.terms = 0 /\ plan' = Offer(tx.terms, None, FALSE, 0)
  /\ UNCHANGED <<acct, auth, purse, pulls>>

Nothing == UNCHANGED <<acct, plan, auth, purse, pulls>>

LEMMA OthersLand ==
  ASSUME ChainTyped, NEW n \in DOMAIN txs, Refusals(txs[n]) = {}, Effect(n)
  PROVE  /\ txs[n].op = "close" => Closes(txs[n])
         /\ txs[n].op = "cancel" => Cancels(txs[n])
         /\ txs[n].op = "subscribe" => Opens(txs[n])
         /\ txs[n].op = "plan" => MakesPlan(txs[n])
         /\ txs[n].op # "misnamed"
<1>1. PICK tx \in Sendings : tx = txs[n]
  BY DEF ChainTyped
<1>a. acct \in Accounts /\ now \in Nat /\ n \in Nat
  BY DEF ChainTyped
<1>2. ASSUME tx.op = "close" PROVE Closes(tx)
  <2>1. CloseRefusals = {}
    BY <1>1, <1>2, RefusalsOf
  <2>2. Exists /\ (acct.kind = "subscription" => acct.until # None /\ ~(now < acct.until))
    BY <2>1, NoneOf DEF CloseRefusals
  <2>3. acct.until \in Nat
    BY <1>a DEF Accounts
  <2>4. acct' = Absent /\ auth' = auth
    BY <1>1, <1>2, EffectOf
  <2>5. UNCHANGED <<plan, purse, pulls>>
    BY <1>1, <1>2, EffectOf
  <2>6. acct.kind = "subscription" => acct.until <= now
    BY <2>2, <2>3, <1>a
  <2> QED BY <2>2, <2>4, <2>5, <2>6 DEF Closes
<1>3. ASSUME tx.op = "cancel" PROVE Cancels(tx)
  <2>1. CancelRefusals = {}
    BY <1>1, <1>3, RefusalsOf
  <2>2. Exists /\ acct.until = None
    BY <2>1, NoneOf DEF CancelRefusals
  <2>3. PICK until \in Nat : until = StopDate /\ until <= now + Period
    BY Times
  <2>4. acct' = [acct EXCEPT !.until = until] /\ UNCHANGED <<plan, auth, purse, pulls>>
    BY <2>3, <1>1, <1>3, EffectOf
  <2>5. /\ acct' \in Accounts /\ acct'.until = until
        /\ acct'.kind = acct.kind /\ acct'.gen = acct.gen /\ acct'.terms = acct.terms
        /\ acct'.cap = acct.cap /\ acct'.start = acct.start /\ acct'.spent = acct.spent
    BY <2>4, <1>a DEF Accounts
  <2> QED BY <2>2, <2>3, <2>4, <2>5 DEF Cancels
<1>4. ASSUME tx.op = "subscribe" PROVE Opens(tx)
  <2>1. SubscribeRefusals(tx.terms, tx.gen) = {}
    BY <1>1, <1>4, RefusalsOf
  <2>2. ~Exists
    BY <2>1, NoneOf DEF SubscribeRefusals
  <2>3. PICK gen \in Nat : acct' = Account("subscription", tx.terms, gen, Cap(tx.terms), now) /\ auth' = gen
    <3>1. tx.gen \in Nat /\ n + 1 \in Nat
      BY <1>a DEF Sendings
    <3>2. \E gen \in {tx.gen, n + 1} : /\ acct' = Account("subscription", tx.terms, gen, Cap(tx.terms), now)
                                       /\ auth' = gen
      BY <1>1, <1>4, EffectOf
    <3> QED BY <3>1, <3>2
  <2>4. acct' \in Accounts /\ acct'.kind = "subscription" /\ acct'.terms = tx.terms /\ acct'.start = now
    BY <2>3, <1>a DEF Account, Accounts, Sendings, Cap, None
  <2>5. UNCHANGED <<plan, purse, pulls>>
    BY <1>1, <1>4, EffectOf
  <2> QED BY <2>2, <2>3, <2>4, <2>5 DEF Opens
<1>5. ASSUME tx.op = "plan" PROVE MakesPlan(tx)
  BY <1>1, <1>5, RefusalsOf, EffectOf, NoneOf DEF MakesPlan
<1> QED BY <1>1, <1>2, <1>3, <1>4, <1>5, RefusalsOf

\* A landing writes one row, and of it only what became of it.
RowsKept(n) ==
  /\ txs' \in Seq(Sendings) /\ Len(txs') = Len(txs)
  /\ \A m \in DOMAIN txs :
       /\ txs'[m].op = txs[m].op /\ txs'[m].amount = txs[m].amount
       /\ txs'[m].terms = txs[m].terms /\ txs'[m].gen = txs[m].gen
       /\ m # n => txs'[m] = txs[m]

Does(tx) == \* what a landing may do to the rest of the chain
  \/ tx.op = "charge" /\ Takes(tx)
  \/ tx.op = "close" /\ Closes(tx)
  \/ tx.op = "cancel" /\ Cancels(tx)
  \/ tx.op = "subscribe" /\ Opens(tx)
  \/ tx.op = "plan" /\ MakesPlan(tx)

LandsAt(n) ==
  /\ txs[n].state = "flight" /\ RowsKept(n)
  /\ \/ txs'[n].state = "ok" /\ txs'[n].at = now /\ Does(txs[n])
     \/ txs'[n].state = "failed" /\ Nothing
  /\ recent' = Seen /\ UNCHANGED now

LEMMA RefusalCodes == ASSUME NEW tx \in Sendings PROVE Refusals(tx) \subseteq Codes
<1>0. \A condition, code : OneOf(condition, code) \subseteq {code}
  BY DEF OneOf
<1>1. CASE tx.op = "charge"
  BY <1>0, <1>1, RefusalsOf DEF ChargeRefusals, Codes
<1>2. CASE tx.op = "misnamed"
  BY <1>2 DEF Refusals, Codes
<1>3. CASE tx.op = "close"
  BY <1>0, <1>3, RefusalsOf DEF CloseRefusals, Codes
<1>4. CASE tx.op = "cancel"
  BY <1>0, <1>4, RefusalsOf DEF CancelRefusals, Codes
<1>5. CASE tx.op = "subscribe"
  BY <1>0, <1>5, RefusalsOf DEF SubscribeRefusals, Codes
<1>6. CASE tx.op = "plan"
  BY <1>0, <1>6, RefusalsOf DEF Codes
<1> QED BY <1>1, <1>2, <1>3, <1>4, <1>5, <1>6 DEF Sendings

LEMMA LandSteps == ChainTyped /\ Land => \E n \in DOMAIN txs : LandsAt(n)
<1> SUFFICES ASSUME ChainTyped, Land PROVE \E n \in DOMAIN txs : LandsAt(n)
  OBVIOUS
<1>1. PICK n \in DOMAIN txs :
    /\ txs[n].state = "flight"
    /\ \/ /\ Refusals(txs[n]) = {}
          /\ Effect(n)
          /\ txs' = [txs EXCEPT ![n].state = "ok", ![n].at = now]
       \/ \E code \in Refusals(txs[n]) :
            /\ txs' = [txs EXCEPT ![n].state = "failed", ![n].code = code]
            /\ UNCHANGED <<acct, plan, auth, purse, pulls>>
    /\ recent' = Seen
    /\ UNCHANGED <<now, payee>>
  BY DEF Land
<1>2. txs \in Seq(Sendings) /\ txs[n] \in Sendings /\ now \in Nat
  BY DEF ChainTyped
<1>3. CASE Refusals(txs[n]) = {} /\ Effect(n) /\ txs' = [txs EXCEPT ![n].state = "ok", ![n].at = now]
  <2>1. RowsKept(n) /\ txs'[n].state = "ok" /\ txs'[n].at = now
    <3>1. PICK old \in Sendings : old = txs[n]
      BY <1>2
    <3>2. PICK row : row = [old EXCEPT !.state = "ok", !.at = now]
      OBVIOUS
    <3>3. row \in Sendings /\ row.state = "ok" /\ row.at = now
      BY <1>2, <3>2 DEF Sendings
    <3>4. row.op = old.op /\ row.amount = old.amount /\ row.terms = old.terms /\ row.gen = old.gen
      BY <3>2 DEF Sendings
    <3>5. txs' = [txs EXCEPT ![n] = row]
      BY <1>3, <3>1, <3>2
    <3>6. txs' \in Seq(Sendings) /\ Len(txs') = Len(txs) /\ txs'[n] = row /\ \A m \in DOMAIN txs : m # n => txs'[m] = txs[m]
      BY <1>2, <3>3, <3>5
    <3> QED BY <3>1, <3>3, <3>4, <3>6 DEF RowsKept
  <2>2. Does(txs[n])
    BY <1>2, <1>3, ChargeLanding, OthersLand DEF Does, Sendings
  <2> QED BY <1>1, <2>1, <2>2 DEF LandsAt
<1>4. ASSUME NEW code \in Refusals(txs[n]), txs' = [txs EXCEPT ![n].state = "failed", ![n].code = code],
             UNCHANGED <<acct, plan, auth, purse, pulls>>
      PROVE  LandsAt(n)
  <2>1. RowsKept(n) /\ txs'[n].state = "failed"
    <3>0. code \in Codes
      BY <1>2, RefusalCodes
    <3>1. PICK old \in Sendings : old = txs[n]
      BY <1>2
    <3>2. PICK row : row = [old EXCEPT !.state = "failed", !.code = code]
      OBVIOUS
    <3>3. row \in Sendings /\ row.state = "failed"
      BY <1>2, <3>0, <3>2 DEF Sendings
    <3>4. row.op = old.op /\ row.amount = old.amount /\ row.terms = old.terms /\ row.gen = old.gen
      BY <3>2 DEF Sendings
    <3>5. txs' = [txs EXCEPT ![n] = row]
      BY <1>4, <3>1, <3>2
    <3>6. txs' \in Seq(Sendings) /\ Len(txs') = Len(txs) /\ txs'[n] = row /\ \A m \in DOMAIN txs : m # n => txs'[m] = txs[m]
      BY <1>2, <3>3, <3>5
    <3> QED BY <3>1, <3>3, <3>4, <3>6 DEF RowsKept
  <2> QED BY <1>1, <1>4, <2>1 DEF LandsAt, Nothing
<1> QED BY <1>1, <1>3, <1>4

LEMMA DoesTyped ==
  ASSUME ChainTyped, NEW tx \in Sendings, Does(tx)
  PROVE  /\ acct' \in Accounts /\ acct'.start <= now /\ plan' \in Offers /\ auth' \in Nat
         /\ purse' \in Nat \cup {NoAccount} /\ pulls' \in Seq(Pulls)
<1>1. /\ acct \in Accounts /\ acct.start <= now /\ plan \in Offers /\ auth \in Nat /\ now \in Nat
      /\ purse \in Nat \cup {NoAccount} /\ pulls \in Seq(Pulls)
  BY DEF ChainTyped
<1>2. tx.amount \in Nat /\ tx.terms \in Nat
  BY DEF Sendings
<1>3. CASE Takes(tx)
  <2>1. purse' \in Nat
    BY <1>1, <1>2, <1>3 DEF Takes, NoAccount
  <2>2. [at |-> now, amount |-> tx.amount] \in Pulls
    BY <1>1, <1>2 DEF Pulls
  <2>3. pulls' \in Seq(Pulls)
    BY <1>1, <1>3, <2>2 DEF Takes
  <2> QED BY <1>1, <1>3, <2>1, <2>3 DEF Takes
<1>4. CASE Closes(tx)
  <2>1. Absent \in Accounts /\ Absent.start = 0
    BY DEF Absent, Account, Accounts, None
  <2> QED BY <1>1, <1>4, <2>1 DEF Closes
<1>5. CASE Cancels(tx)
  BY <1>1, <1>5 DEF Cancels
<1>6. CASE Opens(tx)
  BY <1>1, <1>6 DEF Opens
<1>7. CASE MakesPlan(tx)
  <2>1. plan' \in Offers
    BY <1>2, <1>7 DEF MakesPlan, Offer, Offers, None
  <2> QED BY <1>1, <1>7, <2>1 DEF MakesPlan
<1> QED BY <1>3, <1>4, <1>5, <1>6, <1>7 DEF Does

\* What a node may answer, after any step of the chain.
LEMMA SeenTyped ==
  ASSUME ChainTyped, acct' \in Accounts, acct'.start <= now, plan' \in Offers, auth' \in Nat, recent' = Seen
  PROVE  /\ recent'.acct = recent.acct \cup {acct'} /\ recent'.plan = recent.plan \cup {plan'}
         /\ recent'.auth = recent.auth \cup {auth'}
         /\ recent' \in Nodes /\ acct' \in recent'.acct /\ plan' \in recent'.plan /\ auth' \in recent'.auth
         /\ \A a \in recent'.acct : a.start <= now
BY DEF ChainTyped, Seen, Nodes

\* The steps of the others, one field at a time.
TimePasses ==
  /\ now' = now + 1 /\ UNCHANGED <<acct, plan, auth, purse, txs, pulls>>
  /\ recent'.acct = {acct} /\ recent'.plan = {plan} /\ recent'.auth = {auth}

PlanChanges ==
  /\ plan' \in Offers
  /\ plan'.terms \in {0, plan.terms} \cup 1 .. MaxTerms
  /\ UNCHANGED <<now, acct, auth, purse, txs, pulls>>
  /\ recent'.acct = recent.acct /\ recent'.plan = recent.plan \cup {plan'} /\ recent'.auth = recent.auth

AuthorityGoes ==
  /\ auth' = 0
  /\ UNCHANGED <<now, acct, plan, purse, txs, pulls>>
  /\ recent'.acct = recent.acct /\ recent'.plan = recent.plan /\ recent'.auth = recent.auth \cup {0}

LandsTyped(n) ==
  /\ LandsAt(n)
  /\ recent'.acct = recent.acct \cup {acct'} /\ recent'.plan = recent.plan \cup {plan'}
  /\ recent'.auth = recent.auth \cup {auth'}

Ticks == now' = now + 1 /\ recent' = Fresh /\ UNCHANGED <<acct, plan, auth, purse, txs, pulls>>

LEMMA ChainSteps ==
  ASSUME ChainTyped, Land \/ Ticks \/ PlanCloses \/ PlanUpdates \/ PlanOpens \/ AuthorityCloses
  PROVE  /\ ChainTyped'
         /\ (\E n \in DOMAIN txs : LandsTyped(n)) \/ TimePasses \/ PlanChanges \/ AuthorityGoes
         /\ TimePasses \/ UNCHANGED now
<1>1. /\ now \in Nat \ {0} /\ acct \in Accounts /\ plan \in Offers /\ auth \in Nat
      /\ purse \in Nat \cup {NoAccount}
      /\ acct.start <= now /\ recent.acct \in SUBSET Accounts
      /\ acct \in recent.acct /\ plan \in recent.plan /\ auth \in recent.auth
      /\ txs \in Seq(Sendings) /\ pulls \in Seq(Pulls)
  BY DEF ChainTyped, Nodes
<1>2. CASE Land
  <2>1. PICK n \in DOMAIN txs : LandsAt(n)
    BY <1>2, LandSteps
  <2>2. PICK tx \in Sendings : tx = txs[n]
    BY <1>1
  <2>3. /\ acct' \in Accounts /\ acct'.start <= now /\ plan' \in Offers /\ auth' \in Nat
        /\ purse' \in Nat \cup {NoAccount} /\ pulls' \in Seq(Pulls)
    <3>1. CASE Does(txs[n])
      BY <2>2, <3>1, DoesTyped
    <3>2. CASE Nothing
      BY <1>1, <3>2 DEF Nothing
    <3> QED BY <2>1, <3>1, <3>2 DEF LandsAt
  <2>4. now' = now /\ txs' \in Seq(Sendings) /\ recent' = Seen
    BY <2>1 DEF LandsAt, RowsKept
  <2>5. ChainTyped'
    BY <1>1, <2>3, <2>4, SeenTyped DEF ChainTyped
  <2>6. LandsTyped(n)
    BY <2>1, <2>3, <2>4, SeenTyped DEF LandsTyped
  <2> QED BY <2>1, <2>4, <2>5, <2>6
<1>3. CASE Ticks
  <2>1. recent' = Fresh /\ now' = now + 1 /\ UNCHANGED <<acct, plan, auth, purse, txs, pulls>>
    BY <1>3 DEF Ticks
  <2>2. recent'.acct = {acct} /\ recent'.plan = {plan} /\ recent'.auth = {auth}
    BY <2>1 DEF Fresh
  <2>3. recent' \in Nodes
    BY <1>1, <2>1 DEF Fresh, Nodes
  <2>4. ChainTyped'
    BY <1>1, <2>1, <2>2, <2>3 DEF ChainTyped, Accounts
  <2> QED BY <2>1, <2>2, <2>4 DEF TimePasses
<1>4. CASE PlanCloses \/ PlanUpdates \/ PlanOpens
  <2>1. plan' \in Offers /\ plan'.terms \in {0, plan.terms} \cup 1 .. MaxTerms
    <3>0. plan.terms \in Nat
      BY <1>1 DEF Offers
    <3>1. ASSUME NEW terms \in Nat, NEW ends \in Nat, NEW sunset \in BOOLEAN, NEW lists \in Nat
          PROVE  Offer(terms, ends, sunset, lists) \in Offers /\ Offer(terms, ends, sunset, lists).terms = terms
      BY DEF Offer, Offers
    <3>2. CASE PlanCloses
      <4>1. plan' = Offer(0, 0, FALSE, 0)
        BY <3>2 DEF PlanCloses, NoPlan, None
      <4> QED BY <3>1, <4>1
    <3>3. CASE PlanUpdates
      <4>1. plan' \in {Offer(plan.terms, now, FALSE, 0), Offer(plan.terms, 0, TRUE, 0), Offer(plan.terms, 0, FALSE, 1)}
        BY <3>3 DEF PlanUpdates, None
      <4>2. PICK terms \in Nat : terms = plan.terms
        BY <3>0
      <4>3. PICK at \in Nat : at = now
        BY <1>1
      <4>4. CASE plan' = Offer(terms, at, FALSE, 0)
        BY <4>2, <4>4 DEF Offer, Offers
      <4>5. CASE plan' = Offer(terms, 0, TRUE, 0)
        BY <4>2, <4>5 DEF Offer, Offers
      <4>6. CASE plan' = Offer(terms, 0, FALSE, 1)
        BY <4>2, <4>6 DEF Offer, Offers
      <4> QED BY <4>1, <4>2, <4>3, <4>4, <4>5, <4>6
    <3>4. CASE PlanOpens
      <4>1. PICK terms \in 1 .. MaxTerms : plan' = Offer(terms, None, FALSE, 0)
        BY <3>4 DEF PlanOpens
      <4>2. terms \in Nat
        BY <4>1, ProgramBounds
      <4> QED BY <4>1, <4>2 DEF None, Offer, Offers
    <3> QED BY <1>4, <3>2, <3>3, <3>4
  <2>2. UNCHANGED <<now, acct, auth, purse, txs, pulls>> /\ recent' = Seen
    BY <1>4 DEF PlanCloses, PlanUpdates, PlanOpens
  <2>3. /\ recent'.acct = recent.acct \cup {acct'} /\ recent'.plan = recent.plan \cup {plan'}
        /\ recent'.auth = recent.auth \cup {auth'}
        /\ recent' \in Nodes /\ acct' \in recent'.acct /\ plan' \in recent'.plan /\ auth' \in recent'.auth
        /\ \A a \in recent'.acct : a.start <= now
    BY <1>1, <2>1, <2>2, SeenTyped
  <2>4. ChainTyped'
    BY <1>1, <2>1, <2>2, <2>3 DEF ChainTyped
  <2>5. PlanChanges
    BY <1>1, <2>1, <2>2, <2>3 DEF PlanChanges
  <2> QED BY <2>2, <2>4, <2>5
<1>5. CASE AuthorityCloses
  <2>1. auth' = 0 /\ UNCHANGED <<now, acct, plan, purse, txs, pulls>> /\ recent' = Seen
    BY <1>5 DEF AuthorityCloses
  <2>2. /\ recent'.acct = recent.acct \cup {acct'} /\ recent'.plan = recent.plan \cup {plan'}
        /\ recent'.auth = recent.auth \cup {auth'}
        /\ recent' \in Nodes /\ acct' \in recent'.acct /\ plan' \in recent'.plan /\ auth' \in recent'.auth
        /\ \A a \in recent'.acct : a.start <= now
    BY <1>1, <2>1, SeenTyped
  <2>3. ChainTyped'
    BY <1>1, <2>1, <2>2 DEF ChainTyped
  <2>4. AuthorityGoes
    BY <1>1, <2>1, <2>2 DEF AuthorityGoes
  <2> QED BY <2>1, <2>3, <2>4
<1> QED BY <1>2, <1>3, <1>4, <1>5

LEMMA SendingTyped ==
  ASSUME ChainTyped, NEW tx \in Sendings, txs' = Append(txs, tx),
         UNCHANGED <<now, acct, plan, auth, purse, recent, pulls>>
  PROVE  /\ ChainTyped' /\ Len(txs') = Len(txs) + 1 /\ txs'[Len(txs) + 1] = tx
         /\ \A m \in DOMAIN txs : m \in DOMAIN txs' /\ txs'[m] = txs[m]
         /\ \A m \in DOMAIN txs' : m \in DOMAIN txs \/ m = Len(txs) + 1
<1>1. txs \in Seq(Sendings)
  BY DEF ChainTyped
<1>2. txs' \in Seq(Sendings) /\ Len(txs') = Len(txs) + 1 /\ txs'[Len(txs) + 1] = tx
  BY <1>1
<1>3. /\ \A m \in DOMAIN txs : m \in DOMAIN txs' /\ txs'[m] = txs[m]
      /\ \A m \in DOMAIN txs' : m \in DOMAIN txs \/ m = Len(txs) + 1
  BY <1>1
<1> QED BY <1>2, <1>3 DEF ChainTyped

LEMMA Sending ==
  ASSUME ChainTyped, NEW op \in {"charge", "misnamed", "close", "cancel", "subscribe", "plan"},
         NEW amount \in Nat, NEW terms \in Nat, NEW gen \in Nat,
         NEW tx, tx = Transaction(op, amount, terms, gen)
  PROVE  /\ tx \in Sendings /\ [tx EXCEPT !.state = "lost"] \in Sendings
         /\ tx.op = op /\ tx.amount = amount /\ tx.terms = terms /\ tx.gen = gen /\ tx.state = "flight"
         /\ [tx EXCEPT !.state = "lost"].op = op /\ [tx EXCEPT !.state = "lost"].amount = amount
         /\ [tx EXCEPT !.state = "lost"].state = "lost"
BY DEF ChainTyped, Transaction, Sendings, Codes

LEMMA Leaves ==
  ASSUME ChainTyped, NEW op \in {"charge", "misnamed", "close", "cancel", "subscribe", "plan"},
         NEW amount \in Nat, NEW terms \in Nat, NEW gen \in Nat
  PROVE  /\ Transaction(op, amount, terms, gen) \in Sendings
         /\ Transaction(op, amount, terms, gen).op = op /\ Transaction(op, amount, terms, gen).amount = amount
         /\ Transaction(op, amount, terms, gen).terms = terms /\ Transaction(op, amount, terms, gen).gen = gen
         /\ Transaction(op, amount, terms, gen).state = "flight"
BY DEF ChainTyped, Transaction, Sendings, Codes

-----------------------------------------------------------------------------
(***************************************************************************)
(* The verdict of the merchant's tool.                                     *)
(***************************************************************************)
SendsTx(tx) ==
  /\ tx \in Sendings /\ tx.op # "subscribe" /\ tx.state # "ok" /\ Len(txs) < MaxTxs
  /\ tx.op = "charge" => tx.amount > 0
  /\ txs' = Append(txs, tx)
  /\ UNCHANGED <<now, acct, plan, auth, purse, payee, recent, pulls>>

LEMMA SimBegins ==
  ASSUME ChainTyped,
         \/ sim' = NoAttempt
         \/ \E op \in {"charge", "misnamed", "plan"}, amount \in Nat \ {0}, preflight \in BOOLEAN :
              sim' = Built(op, amount, preflight)
  PROVE  (txs' = txs => SimTyped' /\ VerdictTrue')
<1> SUFFICES ASSUME txs' = txs PROVE SimTyped' /\ VerdictTrue'
  OBVIOUS
<1>1. 0 <= Len(txs) /\ 0 < PollAttempts /\ 0 \in 0 .. PollAttempts /\ "none" \in Codes
  BY SimBounds DEF ChainTyped, Codes
<1>2. CASE sim' = NoAttempt
  <2>1. /\ sim'.step = "noAttempt" /\ sim'.tx = 0
        /\ sim' \in Sims
    BY <1>1, <1>2 DEF NoAttempt, Rest, Sims
  <2> QED BY <2>1, <1>1 DEF SimTyped, VerdictTrue
<1>3. ASSUME NEW op \in {"charge", "misnamed", "plan"}, NEW amount \in Nat \ {0}, NEW preflight \in BOOLEAN,
             sim' = Built(op, amount, preflight)
      PROVE  SimTyped' /\ VerdictTrue'
  <2>1. /\ sim'.step = "built" /\ sim'.op # "none" /\ sim'.amount > 0 /\ sim'.tx = 0 /\ sim'.polls = 0
        /\ sim' \in Sims
    <3>1. sim' = [step |-> "built", op |-> op, amount |-> amount, preflight |-> preflight, tx |-> 0,
                  refused |-> FALSE, polls |-> 0, code |-> "none"]
      BY <1>3 DEF Built, Rest
    <3>2. FALSE \in BOOLEAN /\ preflight \in BOOLEAN
      OBVIOUS
    <3> QED BY <1>1, <3>1, <3>2 DEF Sims
  <2> QED BY <2>1, <1>1 DEF SimTyped, VerdictTrue
<1> QED BY <1>2, <1>3

LEMMA SimSends ==
  ASSUME ChainTyped, SimTyped, Send
  PROVE  SimTyped' /\ VerdictTrue' /\ \E tx : SendsTx(tx)
<1>1. PICK refused \in BOOLEAN, passed \in BOOLEAN :
       LET tx == Transaction(sim.op, IF sim.op = "plan" THEN 0 ELSE sim.amount,
                             IF sim.op = "plan" THEN sim.amount ELSE 0, 0)
       IN /\ txs' = Append(txs, IF passed THEN tx ELSE [tx EXCEPT !.state = "lost"])
          /\ sim' = [sim EXCEPT !.tx = Len(txs) + 1, !.refused = refused,
                       !.step = IF refused /\ sim.preflight /\ sim.op = "plan"
                                THEN "noAttempt" ELSE "polling"]
  BY DEF Send
<1>2. sim.step = "built" /\ Len(txs) < MaxTxs /\ UNCHANGED <<now, acct, plan, auth, purse, payee, recent, pulls>>
  BY DEF Send
<1>3. sim.op \in {"charge", "misnamed", "plan"} /\ sim.amount \in Nat /\ sim.amount > 0
  BY <1>2 DEF SimTyped, Sims
<1>4. PICK amount \in Nat, terms \in Nat :
        /\ amount = IF sim.op = "plan" THEN 0 ELSE sim.amount
        /\ terms = IF sim.op = "plan" THEN sim.amount ELSE 0
  BY <1>3
<1>5. PICK plain : plain = Transaction(sim.op, amount, terms, 0)
  OBVIOUS
<1>6. PICK tx : tx = IF passed THEN plain ELSE [plain EXCEPT !.state = "lost"]
  OBVIOUS
<1>7. tx \in Sendings /\ tx.op = sim.op /\ tx.amount = amount /\ tx.state # "ok"
  <2>1. PICK op \in {"charge", "misnamed", "plan"} : op = sim.op
    BY <1>3
  <2>2. /\ plain \in Sendings /\ plain.op = op /\ plain.amount = amount /\ plain.state = "flight"
        /\ [plain EXCEPT !.state = "lost"] \in Sendings
        /\ [plain EXCEPT !.state = "lost"].op = op /\ [plain EXCEPT !.state = "lost"].amount = amount
        /\ [plain EXCEPT !.state = "lost"].state = "lost"
    <3>1. plain = Transaction(op, amount, terms, 0)
      BY <2>1, <1>5
    <3> QED BY <3>1, Sending
  <2> QED BY <2>1, <2>2, <1>6
<1>8. txs' = Append(txs, tx)
  BY <1>1, <1>4, <1>5, <1>6
<1>9. SendsTx(tx)
  BY <1>2, <1>3, <1>4, <1>7, <1>8 DEF SendsTx
<1>10. PICK last \in Nat : last = Len(txs) + 1 /\ last = Len(txs') /\ last > 0
  BY <1>2, <1>7, <1>8, SendingTyped DEF ChainTyped
<1>11. PICK step \in {"noAttempt", "polling"} : sim' = [sim EXCEPT !.tx = last, !.refused = refused, !.step = step]
  <2>1. sim' = [sim EXCEPT !.tx = last, !.refused = refused,
                  !.step = IF refused /\ sim.preflight /\ sim.op = "plan" THEN "noAttempt" ELSE "polling"]
    BY <1>1, <1>10
  <2>2. CASE refused /\ sim.preflight /\ sim.op = "plan"
    <3>1. sim' = [sim EXCEPT !.tx = last, !.refused = refused, !.step = "noAttempt"]
      BY <2>1, <2>2
    <3> QED BY <3>1
  <2>3. CASE ~(refused /\ sim.preflight /\ sim.op = "plan")
    <3>1. sim' = [sim EXCEPT !.tx = last, !.refused = refused, !.step = "polling"]
      BY <2>1, <2>3
    <3> QED BY <3>1
  <2> QED BY <2>2, <2>3
<1>12. sim.polls < PollAttempts
  BY <1>2 DEF SimTyped, Sims
<1>13. /\ sim'.step = step /\ sim'.tx = last /\ sim'.polls = sim.polls
       /\ sim' \in Sims
  <2>1. PICK old \in Sims : old = sim
    BY DEF SimTyped
  <2>2. sim' = [old EXCEPT !.tx = last, !.refused = refused, !.step = step]
    BY <2>1, <1>11
  <2>3. sim'.step = step /\ sim'.tx = last /\ sim'.polls = sim.polls
    BY <2>1, <2>2 DEF Sims
  <2>4. sim' \in Sims
    BY <2>2 DEF Sims
  <2> QED BY <2>3, <2>4
<1> QED BY <1>9, <1>10, <1>12, <1>13 DEF SimTyped, VerdictTrue

LEMMA SimPolls ==
  ASSUME ChainTyped, SimTyped, Poll
  PROVE  SimTyped' /\ VerdictTrue' /\ UNCHANGED chainVars
<1>1. UNCHANGED chainVars /\ txs' = txs
  BY DEF Poll, chainVars
<1>2. PICK status \in Statuses(sim.tx) : sim' = IF status = "null" THEN Silence ELSE Verdict(status)
  BY DEF Poll
<1>3. /\ sim.step = "polling" /\ sim.tx # 0 /\ sim.tx \in Nat /\ sim.tx <= Len(txs) /\ sim.polls < PollAttempts
      /\ sim.polls \in 0 .. PollAttempts /\ sim.refused \in BOOLEAN
      /\ sim \in Sims
  BY DEF Poll, SimTyped, Sims
<1>4. txs[sim.tx] \in Sendings
  BY <1>3 DEF ChainTyped
<1>5. CASE status = "null"
  <2>1. PICK polls \in 0 .. PollAttempts : polls = sim.polls + 1
    BY <1>3, SimBounds
  <2>2. PICK step \in {"polling", "noAttempt", "unknown"} :
          /\ sim' = [sim EXCEPT !.polls = polls, !.step = step]
          /\ step = "polling" => polls < PollAttempts
          /\ step = "unknown" => ~sim.refused
    <3>1. CASE polls < PollAttempts
      <4>1. sim' = [sim EXCEPT !.polls = polls, !.step = "polling"]
        <5>1. sim.polls + 1 < PollAttempts /\ ~(sim.polls + 1 >= PollAttempts)
          BY <1>3, <2>1, <3>1, SimBounds
        <5> QED BY <1>2, <1>5, <2>1, <5>1 DEF Silence
      <4> QED BY <4>1, <3>1
    <3>2. CASE ~(polls < PollAttempts)
      <4>0. polls >= PollAttempts
        BY <2>1, <3>2, SimBounds
      <4>1. CASE sim.refused
        <5>1. sim' = [sim EXCEPT !.polls = polls, !.step = "noAttempt"]
          BY <1>2, <1>5, <2>1, <3>2, <4>0, <4>1, <1>3 DEF Silence
        <5> QED BY <5>1
      <4>2. CASE ~sim.refused
        <5>1. sim' = [sim EXCEPT !.polls = polls, !.step = "unknown"]
          BY <1>2, <1>5, <2>1, <3>2, <4>0, <4>2, <1>3 DEF Silence
        <5> QED BY <5>1, <4>2
      <4> QED BY <4>1, <4>2
    <3> QED BY <3>1, <3>2
  <2>3. /\ sim'.step = step /\ sim'.tx = sim.tx /\ sim'.polls = polls
        /\ sim'.refused = sim.refused
        /\ sim' \in Sims
    BY <1>1, <1>3, <2>1, <2>2 DEF Sims
  <2> QED BY <1>1, <1>3, <2>2, <2>3 DEF SimTyped, VerdictTrue
<1>6. CASE status # "null"
  <2>1. status \in {"ok", "failed"} /\ txs[sim.tx].state = status
    BY <1>6 DEF Statuses
  <2>2. CASE status = "ok"
    <3>1. PICK step \in {"created", "charged"} : sim' = [sim EXCEPT !.step = step]
      BY <1>2, <1>6, <2>2 DEF Verdict
    <3>2. /\ sim'.step = step /\ sim'.tx = sim.tx
          /\ sim' \in Sims
      BY <1>1, <1>3, <3>1 DEF Sims
    <3> QED BY <1>1, <1>3, <2>1, <2>2, <3>2 DEF SimTyped, VerdictTrue
  <2>3. CASE status = "failed"
    <3>1. PICK code \in Codes : code = txs[sim.tx].code
      BY <1>4 DEF Sendings
    <3>2. sim' = [sim EXCEPT !.step = "rejected", !.code = code]
      BY <1>2, <1>6, <2>3, <3>1 DEF Verdict
    <3>3. /\ sim'.step = "rejected" /\ sim'.tx = sim.tx /\ sim'.code = code
          /\ sim' \in Sims
      BY <1>1, <1>3, <3>2 DEF Sims
    <3> QED BY <1>1, <1>3, <2>1, <2>3, <3>1, <3>3 DEF SimTyped, VerdictTrue
  <2> QED BY <2>1, <2>2, <2>3
<1> QED BY <1>1, <1>5, <1>6

\* A verdict stays true: what became of a transaction never changes.
LEMMA VerdictStays ==
  ASSUME ChainTyped, SimTyped, VerdictTrue, sim' = sim,
         \/ \E n \in DOMAIN txs : LandsAt(n)
         \/ \E tx : SendsTx(tx)
         \/ txs' = txs
  PROVE  SimTyped' /\ VerdictTrue'
<1>1. /\ txs \in Seq(Sendings) /\ sim.tx \in Nat /\ sim.tx <= Len(txs)
      /\ sim.step \in {"polling", "charged", "created", "rejected"} => sim.tx \in DOMAIN txs
  BY DEF ChainTyped, SimTyped, Sims
<1>2. ASSUME NEW n \in DOMAIN txs, LandsAt(n) PROVE SimTyped' /\ VerdictTrue'
  <2>1. Len(txs') = Len(txs) /\ \A m \in DOMAIN txs : m # n => txs'[m] = txs[m]
    BY <1>2 DEF LandsAt, RowsKept
  <2>2. txs[n].state = "flight"
    BY <1>2 DEF LandsAt
  <2>3. SimTyped'
    BY <2>1 DEF SimTyped
  <2>4. VerdictTrue'
    BY <1>1, <2>1, <2>2 DEF VerdictTrue
  <2> QED BY <2>3, <2>4
<1>3. ASSUME NEW tx, SendsTx(tx) PROVE SimTyped' /\ VerdictTrue'
  <2>1. Len(txs') = Len(txs) + 1 /\ \A m \in DOMAIN txs : txs'[m] = txs[m]
    BY <1>1, <1>3 DEF SendsTx
  <2>2. SimTyped'
    BY <1>1, <2>1 DEF SimTyped
  <2>3. VerdictTrue'
    BY <1>1, <2>1 DEF VerdictTrue
  <2> QED BY <2>2, <2>3
<1>4. CASE txs' = txs
  BY <1>4 DEF SimTyped, VerdictTrue
<1> QED BY <1>2, <1>3, <1>4

-----------------------------------------------------------------------------
(***************************************************************************)
(* What the cancel page says.                                              *)
(***************************************************************************)
\* What a node answers is an earlier state of the permission, and what it says of the
\* future is so.
AnswerTrue(answer) ==
  /\ answer.known \in {"notFound", "absent", "unreadable", "read"}
  /\ answer.known \in {"notFound", "absent"} => ~Exists
  /\ answer.known = "read" =>
       /\ answer.kind \in {"subscription", "fixed", "recurring"}
       /\ answer.status \in {"active", "paused", "exhausted", "revoked"}
       /\ answer.cap \in 0 .. Cap(MaxTerms) /\ answer.used \in 0 .. Purse
       /\ answer.started \in 0 .. now /\ answer.ends \in Days /\ answer.at = now
       /\ answer.ends # None =>
            answer.kind = "subscription" /\ (Exists => acct.kind = "subscription" /\ acct.until = answer.ends)
       /\ answer.status \in {"exhausted", "revoked"} => OutOfReach

LEMMA AllowanceTrue ==
  ASSUME ChainTyped, RecentTrue, now <= MaxNow, NEW a \in recent.acct, a.kind # "absent", InRange(a)
  PROVE  /\ AnswerTrue(ToAllowance(a, now)) /\ ToAllowance(a, now).known = "read"
         /\ OutOfReach => AnswerTrue([ToAllowance(a, now) EXCEPT !.status = "revoked"])
<1>1. a \in Accounts /\ a.start <= now /\ now \in Nat /\ Period \in Nat /\ MaxNow \in Nat /\ MaxTerms \in Nat /\ Purse \in Nat
  BY ProgramBounds, LifecycleBounds DEF ChainTyped, Nodes
<1>2. /\ a.kind \in {"subscription", "fixed", "recurring"} /\ a.cap \in 0 .. Cap(MaxTerms) /\ a.spent \in 0 .. Purse
      /\ a.start \in 0 .. now /\ a.until \in Days
  BY <1>1 DEF Accounts, InRange, Days, Cap
<1>3. Exists => a.kind = acct.kind /\ (a.until # None => a.until = acct.until) /\ (a.kind = "fixed" => acct.cap <= a.cap)
  BY DEF RecentTrue
<1>4. PICK answer : answer = ToAllowance(a, now)
  OBVIOUS
<1>5. /\ answer.known = "read" /\ answer.kind = a.kind /\ answer.cap = a.cap
      /\ answer.used = (IF a.kind = "fixed" THEN 0 ELSE a.spent)
      /\ answer.started = (IF a.kind = "fixed" THEN None ELSE a.start)
      /\ answer.ends = (IF a.kind = "subscription" THEN a.until ELSE None)
      /\ answer.at = now
  BY <1>4 DEF ToAllowance
<1>6. answer.status = DeriveStatus(a, now)
  BY <1>4 DEF ToAllowance
<1>7. answer.status \in {"active", "exhausted"}
  BY <1>6 DEF DeriveStatus
<1>8. answer.status = "exhausted" => OutOfReach
  <2>1. acct.cap \in Nat
    BY DEF ChainTyped, Accounts
  <2> QED BY <1>2, <1>3, <1>6, <2>1 DEF DeriveStatus, OutOfReach
<1>9. None \in Days /\ 0 \in 0 .. Purse /\ None = 0
  BY <1>1 DEF None, Days
<1>10. AnswerTrue(answer)
  <2>1. /\ answer.kind \in {"subscription", "fixed", "recurring"}
        /\ answer.cap \in 0 .. Cap(MaxTerms) /\ answer.used \in 0 .. Purse
        /\ answer.started \in 0 .. now /\ answer.ends \in Days /\ answer.at = now
    BY <1>1, <1>2, <1>5, <1>9
  <2>2. answer.ends # None =>
          answer.kind = "subscription" /\ (Exists => acct.kind = "subscription" /\ acct.until = answer.ends)
    BY <1>3, <1>5
  <2> QED BY <2>1, <2>2, <1>5, <1>7, <1>8 DEF AnswerTrue
<1>11. PICK gone : gone = [answer EXCEPT !.status = "revoked"]
  OBVIOUS
<1>12. /\ gone.known = "read" /\ gone.kind = answer.kind /\ gone.cap = answer.cap /\ gone.used = answer.used
       /\ gone.started = answer.started /\ gone.ends = answer.ends /\ gone.at = answer.at /\ gone.status = "revoked"
  <2>1. DOMAIN answer = {"known", "kind", "status", "cap", "used", "started", "ends", "at"}
    BY <1>4 DEF ToAllowance
  <2> QED BY <2>1, <1>5, <1>11
<1>13. ASSUME OutOfReach PROVE AnswerTrue(gone)
  <2>1. /\ answer.kind \in {"subscription", "fixed", "recurring"}
        /\ answer.cap \in 0 .. Cap(MaxTerms) /\ answer.used \in 0 .. Purse
        /\ answer.started \in 0 .. now /\ answer.ends \in Days /\ answer.at = now
        /\ answer.ends # None =>
            answer.kind = "subscription" /\ (Exists => acct.kind = "subscription" /\ acct.until = answer.ends)
    BY <1>5, <1>10 DEF AnswerTrue
  <2> QED BY <2>1, <1>12, <1>13 DEF AnswerTrue
<1> QED BY <1>4, <1>5, <1>10, <1>11, <1>13

LEMMA AnswersTrue ==
  ASSUME ChainTyped, RecentTrue, now <= MaxNow, \A a \in recent.acct : InRange(a), NEW answer \in Answers
  PROVE  AnswerTrue(answer)
<1>1. PICK row \in Rows, a \in recent.acct, p \in recent.plan, g \in recent.auth, form \in Forms :
        answer = Reconcile(row, ReadAllowance(a, p, g, form, now))
  BY DEF Answers
<1>2. PICK chain : chain = ReadAllowance(a, p, g, form, now)
  OBVIOUS
<1>3. answer = Reconcile(row, chain)
  BY <1>1, <1>2
<1>4. CASE a.kind = "absent"
  <2>1. chain.known = "notFound"
    BY <1>2, <1>4 DEF ReadAllowance, NotFound
  <2>2. answer = IF row = "none" THEN NotFound ELSE [known |-> "absent", status |-> "revoked"]
    BY <1>3, <2>1 DEF Reconcile
  <2>3. answer.known \in {"notFound", "absent"}
    BY <2>2 DEF NotFound
  <2>4. ~Exists
    BY <1>4 DEF RecentTrue
  <2> QED BY <2>3, <2>4 DEF AnswerTrue
<1>5. CASE a.kind # "absent"
  <2>1. chain = Convert(a, p, g, form, now)
    BY <1>2, <1>5 DEF ReadAllowance
  <2>2. CASE UnreadableReason(a, p, form) # "none"
    <3>1. chain.known = "unreadable"
      BY <2>1, <2>2 DEF Convert, Failed
    <3>2. answer = chain
      BY <1>3, <3>1 DEF Reconcile
    <3> QED BY <3>1, <3>2 DEF AnswerTrue
  <2>3. CASE UnreadableReason(a, p, form) = "none"
    <3>1. AnswerTrue(ToAllowance(a, now)) /\ ToAllowance(a, now).known = "read"
      BY <1>5, AllowanceTrue
    <3>2. AnswerTrue(chain) /\ chain.known = "read"
      <4>1. CASE AuthorityState(a, g) = "live"
        BY <2>1, <2>3, <3>1, <4>1 DEF Convert
      <4>2. CASE AuthorityState(a, g) # "live"
        <5>1. chain = [ToAllowance(a, now) EXCEPT !.status = "revoked"]
          BY <2>1, <2>3, <4>2 DEF Convert
        <5>2. OutOfReach
          <6>1. g # 1 \/ ~Exists
            BY <1>5, <4>2 DEF AuthorityState, RecentTrue
          <6> QED BY <6>1 DEF RecentTrue, OutOfReach
        <5>3. chain.known = "read"
          BY <5>1 DEF ToAllowance
        <5> QED BY <5>1, <5>2, <5>3, <1>5, AllowanceTrue
      <4> QED BY <4>1, <4>2
    <3>3. answer = IF row = "paused" /\ chain.kind = "subscription" /\ chain.status = "active"
                   THEN [chain EXCEPT !.status = "paused"] ELSE chain
      BY <1>3, <3>2 DEF Reconcile
    <3>4. DOMAIN chain = {"known", "kind", "status", "cap", "used", "started", "ends", "at"}
      BY <2>1, <2>3 DEF Convert, ToAllowance
    <3>5. CASE answer = [chain EXCEPT !.status = "paused"]
      <4>1. /\ answer.known = chain.known /\ answer.kind = chain.kind /\ answer.cap = chain.cap
            /\ answer.used = chain.used /\ answer.started = chain.started /\ answer.ends = chain.ends
            /\ answer.at = chain.at /\ answer.status = "paused"
        BY <3>4, <3>5
      <4> QED BY <3>2, <4>1 DEF AnswerTrue
    <3> QED BY <3>2, <3>3, <3>5
  <2> QED BY <2>2, <2>3
<1> QED BY <1>4, <1>5

LEMMA WindowTyped ==
  ASSUME ChainTyped, now <= MaxNow, Len(pulls) <= MaxTxs, NEW answer, AnswerTrue(answer), answer.known = "read"
  PROVE  Window(answer) \in Windows /\ NoWindow \in Windows
<1>1. /\ now \in Nat /\ Period \in Nat \ {0} /\ MaxNow \in Nat /\ MaxTerms \in Nat /\ Purse \in Nat /\ MaxTxs \in Nat
      /\ Len(pulls) \in 0 .. MaxTxs
  BY ProgramBounds, LifecycleBounds DEF ChainTyped
<1>2. /\ answer.started \in 0 .. now /\ answer.used \in 0 .. Purse /\ answer.cap \in 0 .. Cap(MaxTerms) /\ answer.at = now
      /\ Cap(MaxTerms) \in Nat
  BY <1>1 DEF AnswerTrue, Cap
<1>3. NoWindow \in Windows
  BY <1>1, <1>2 DEF NoWindow, Windows, Days
<1>4. PICK started \in 0 .. now : started = answer.started
  BY <1>2
<1>5. PICK run \in 0 .. now : run = IF now > started THEN now - started ELSE 0
  <2>1. CASE now > started
    <3>1. now - started \in 0 .. now
      BY <1>1, <2>1
    <3> QED BY <2>1, <3>1
  <2>2. CASE ~(now > started)
    <3>1. 0 \in 0 .. now
      BY <1>1
    <3> QED BY <2>2, <3>1
  <2> QED BY <2>1, <2>2
<1>6. PICK elapsed \in Nat : elapsed = run \div Period
  BY SMTT(40), <1>1, Periods
<1>7. PICK whole \in 0 .. run : whole = elapsed * Period
  BY <1>1, <1>6, Periods
<1>8. PICK from \in 0 .. now : from = started + whole
  BY <1>1, <1>5
<1>9. PICK charged \in 0 .. Purse : charged = IF elapsed = 0 THEN answer.used ELSE 0
  BY <1>1, <1>2
<1>10. PICK left \in 0 .. Cap(MaxTerms) : left = IF answer.cap - charged > 0 THEN answer.cap - charged ELSE 0
  BY <1>1, <1>2
<1>11. PICK ends \in Days : ends = from + Period
  BY <1>1 DEF Days
<1>12. from \in Days
  BY <1>1 DEF Days
<1>13. CancelWindow(answer, answer.at) =
         [ends |-> ends, from |-> from, charged |-> charged, left |-> left, told |-> Len(pulls)]
  <2> DEFINE elapsed1 == (IF answer.at > answer.started THEN answer.at - answer.started ELSE 0) \div Period
             charged1 == IF elapsed1 = 0 THEN answer.used ELSE 0
             left1 == answer.cap - charged1
  <2>1. elapsed1 = elapsed
    BY <1>2, <1>4, <1>5, <1>6
  <2>2. charged1 = charged
    BY <2>1, <1>9
  <2>3. (IF left1 > 0 THEN left1 ELSE 0) = left
    BY <2>2, <1>10
  <2>4. answer.started + elapsed1 * Period = from
    BY <2>1, <1>4, <1>7, <1>8
  <2>5. answer.started + elapsed1 * Period + Period = ends
    BY <2>4, <1>11
  <2> HIDE DEF elapsed1, charged1, left1
  <2>6. CancelWindow(answer, answer.at) =
          [ends |-> answer.started + elapsed1 * Period + Period, from |-> answer.started + elapsed1 * Period,
           charged |-> charged1, left |-> IF left1 > 0 THEN left1 ELSE 0, told |-> Len(pulls)]
    BY DEF CancelWindow, elapsed1, charged1, left1
  <2> QED BY <2>2, <2>3, <2>4, <2>5, <2>6
<1>14. CancelWindow(answer, answer.at) \in Windows
  BY <1>1, <1>12, <1>13 DEF Windows
<1> QED BY <1>3, <1>14 DEF Window

LEMMA ActionOf ==
  ASSUME NEW allowance, NEW clock
  PROVE  /\ RevokeAction(allowance, clock) \in {"close", "cancel", "wait"}
         /\ RevokeAction(allowance, clock) = "wait" => allowance.kind = "subscription" /\ allowance.ends # None
<1>1. CASE allowance.kind # "subscription"
  BY <1>1 DEF RevokeAction
<1>2. CASE allowance.kind = "subscription" /\ allowance.ends = None
  BY <1>2 DEF RevokeAction
<1>3. CASE allowance.kind = "subscription" /\ allowance.ends # None
  BY <1>3 DEF RevokeAction
<1> QED BY <1>1, <1>2, <1>3

LEMMA CardShown ==
  ASSUME ChainTyped, now <= MaxNow, Len(pulls) <= MaxTxs, NEW answer, AnswerTrue(answer)
  PROVE  /\ Card(answer) \in Cards
         /\ Card(answer).next = "never" => OutOfReach /\ Len(pulls) = Card(answer).pulls
         /\ Card(answer).ends # None => DateTold(Card(answer).ends, Card(answer).pulls)
<1>1. /\ Len(pulls) \in Nat /\ NoWindow \in Windows /\ None \in Days
  BY ProgramBounds, LifecycleBounds DEF ChainTyped, NoWindow, Windows, Days, None, Cap
<1>2. CASE answer.known \in {"notFound", "unreadable"}
  <2>1. Card(answer) = [NoCard EXCEPT !.pulls = Len(pulls)]
    BY <1>2 DEF Card
  <2>2. Card(answer) = [next |-> "nothing", action |-> "none", ends |-> None, window |-> NoWindow, pulls |-> Len(pulls)]
    BY <2>1 DEF NoCard
  <2> QED BY <1>1, <2>2 DEF Cards
<1>3. CASE answer.known = "absent"
  <2>1. Card(answer) = [NoCard EXCEPT !.next = "never", !.pulls = Len(pulls)]
    BY <1>3 DEF Card
  <2>2. Card(answer) = [next |-> "never", action |-> "none", ends |-> None, window |-> NoWindow, pulls |-> Len(pulls)]
    BY <2>1 DEF NoCard
  <2>3. OutOfReach
    BY <1>3 DEF AnswerTrue, OutOfReach
  <2> QED BY <1>1, <2>2, <2>3 DEF Cards
<1>4. CASE answer.known = "read"
  <2>1. PICK next : next = NextCharge(answer)
    OBVIOUS
  <2>2. /\ next \in {"never", "nothing scheduled", "none, it ends", "any time", "any time now", "dated"}
        /\ next = "never" => answer.status \in {"exhausted", "revoked"}
    <3>1. CASE answer.status \in {"revoked", "exhausted"}
      BY <2>1, <3>1 DEF NextCharge
    <3>2. CASE answer.status = "paused"
      BY <2>1, <3>2 DEF NextCharge
    <3>3. CASE answer.status = "active"
      BY <2>1, <3>3 DEF NextCharge
    <3> QED BY <1>4, <3>1, <3>2, <3>3 DEF AnswerTrue
  <2>3. PICK action \in {"none", "close", "cancel", "wait"} : action = Offered(answer)
    BY ActionOf DEF Offered
  <2>4. PICK window \in Windows : window = Window(answer)
    BY <1>4, WindowTyped
  <2>5. Card(answer) = [next |-> next, action |-> action, ends |-> answer.ends, window |-> window, pulls |-> Len(pulls)]
    BY <1>4, <2>1, <2>3, <2>4 DEF Card
  <2>6. answer.ends \in Days
    BY <1>4 DEF AnswerTrue
  <2>7. Card(answer) \in Cards
    <3>1. next \in {"nothing", "never", "nothing scheduled", "none, it ends", "any time", "any time now", "dated"}
      BY <2>2
    <3>2. PICK ends \in Days, landed \in Nat :
            Card(answer) = [next |-> next, action |-> action, ends |-> ends, window |-> window, pulls |-> landed]
      BY <1>1, <2>5, <2>6
    <3>3. PICK shown : shown = [next |-> next, action |-> action, ends |-> ends, window |-> window, pulls |-> landed]
      OBVIOUS
    <3>4. shown \in Cards
      BY <3>1, <3>3 DEF Cards
    <3> QED BY <3>2, <3>3, <3>4
  <2>8. next = "never" => OutOfReach
    BY <1>4, <2>2 DEF AnswerTrue
  <2>9. answer.ends # None => DateTold(answer.ends, Len(pulls))
    <3>1. \A n \in DOMAIN pulls : n <= Len(pulls) /\ n \in Nat
      BY DEF ChainTyped
    <3>2. NoPullsFrom(answer.ends, Len(pulls))
      BY <1>1, <3>1 DEF NoPullsFrom
    <3> QED BY <1>4, <3>2 DEF DateTold, AnswerTrue
  <2> QED BY <2>5, <2>7, <2>8, <2>9
<1> QED BY <1>2, <1>3, <1>4 DEF AnswerTrue

LEMMA Begun ==
  /\ NoWindow \in Windows /\ None \in Days /\ 0 \in 0 .. ConfirmAttempts - 1
  /\ Idle \in Flows /\ Idle.tx = 0 /\ Idle.step = "idle"
  /\ \A window \in Windows : \A begun : begun = [Idle EXCEPT !.step = "checking", !.window = window]
       => begun \in Flows /\ begun.step = "checking" /\ begun.tx = 0
<1>1. NoWindow \in Windows /\ None \in Days /\ 0 \in 0 .. ConfirmAttempts - 1
  BY ProgramBounds, LifecycleBounds, CancelBounds DEF NoWindow, Windows, Days, None, Cap
<1>2. Idle \in Flows /\ Idle.tx = 0 /\ Idle.step = "idle"
  BY <1>1 DEF Idle, Flows, Steps
<1>3. ASSUME NEW window \in Windows, NEW begun, begun = [Idle EXCEPT !.step = "checking", !.window = window]
      PROVE  begun \in Flows /\ begun.step = "checking" /\ begun.tx = 0
  BY <1>2, <1>3 DEF Flows, Steps, Working
<1> QED BY <1>1, <1>2, <1>3

LEMMA Ended ==
  ASSUME CancelTyped, NEW step \in Steps, NEW out, out = Outcome(step)
  PROVE  out \in Flows /\ out.step = step /\ out.tx = flow.tx
<1>1. PICK window \in Windows : window = IF flow.tx = 0 THEN NoWindow ELSE flow.window
  BY Begun DEF CancelTyped, Flows
<1>2. flow.tx \in Nat
  BY DEF CancelTyped, Flows
<1>3. out = [Idle EXCEPT !.step = step, !.tx = flow.tx, !.window = window]
  BY <1>1 DEF Outcome
<1> QED BY <1>2, <1>3, Begun DEF Flows

LEMMA DateShown ==
  ASSUME ChainTyped, NEW answer, AnswerTrue(answer), answer.known = "read", answer.ends # None
  PROVE  DateTold(answer.ends, Len(pulls))
<1>1. \A n \in DOMAIN pulls : ~(n > Len(pulls))
  BY DEF ChainTyped
<1>2. NoPullsFrom(answer.ends, Len(pulls))
  BY <1>1 DEF NoPullsFrom
<1> QED BY <1>2 DEF DateTold, AnswerTrue

LEMMA FewPulls ==
  ASSUME ChainTyped, SentInLife
  PROVE  /\ Len(pulls) <= MaxTxs
         /\ LET landed == {n \in DOMAIN txs : txs[n].state = "ok"}
            IN IsFiniteSet(landed) /\ Cardinality(landed) \in Nat
<1> DEFINE landed == {n \in DOMAIN txs : txs[n].state = "ok"}
<1>1. DOMAIN txs = 1 .. Len(txs) /\ Len(txs) \in Nat /\ Len(pulls) \in Nat /\ MaxTxs \in Nat
  BY ProgramBounds DEF ChainTyped
<1>2. IsFiniteSet(1 .. Len(txs)) /\ Cardinality(1 .. Len(txs)) = Len(txs)
  <2>1. PICK len \in Nat : len = Len(txs)
    BY <1>1
  <2>2. IsFiniteSet(1 .. len) /\ Cardinality(1 .. len) = IF 1 > len THEN 0 ELSE len - 1 + 1
    BY FS_Interval
  <2>3. Cardinality(1 .. len) = len
    BY <2>2
  <2> QED BY <2>1, <2>2, <2>3
<1>3. landed \subseteq 1 .. Len(txs)
  BY <1>1
<1>4. IsFiniteSet(landed) /\ Cardinality(landed) <= Len(txs)
  BY <1>2, <1>3, FS_Subset
<1>5. Cardinality(landed) \in Nat
  BY <1>4, FS_CardinalityType
<1>6. Len(pulls) <= Cardinality(landed) /\ Len(txs) <= MaxTxs
  BY DEF SentInLife
<1> QED BY <1>1, <1>4, <1>5, <1>6

\* What a cancellation's next state has to be.
FlowOk(f) ==
  /\ f \in Flows /\ f.tx <= Len(txs)
  /\ f.step \in {"signing", "confirming"} => f.action # "none"
  /\ f.step \in {"gone", "done"} => ~Exists
  /\ f.step = "scheduled" => DateTold(f.ends, f.told)

LEMMA FlowIs ==
  ASSUME NEW f, FlowOk(f), flow' = f, card' = card, CancelTyped, CardTold, UNCHANGED chainVars
  PROVE  CancelTyped' /\ CardTold' /\ FlowTold'
<1>1. UNCHANGED <<now, acct, plan, auth, purse, txs, pulls>>
  BY DEF chainVars
<1>2. f.step = "scheduled" => DateTold(f.ends, f.told)'
  BY <1>1 DEF FlowOk, DateTold, NoPullsFrom, Exists
<1>3. FlowTold'
  BY <1>1, <1>2 DEF FlowTold, FlowOk, Exists
<1>4. CancelTyped'
  BY <1>1 DEF CancelTyped, FlowOk
<1>5. CardTold'
  BY <1>1 DEF CardTold, OutOfReach, DateTold, NoPullsFrom, Exists
<1> QED BY <1>3, <1>4, <1>5

LEMMA OutcomeOk ==
  ASSUME ChainTyped, CancelTyped
  PROVE  /\ FlowOk(Outcome("failed")) /\ FlowOk(Outcome("unconfirmed"))
         /\ ~Exists => FlowOk(Outcome("gone")) /\ FlowOk(Outcome("done"))
         /\ \A ends \in Days : DateTold(ends, Len(pulls)) => FlowOk(Scheduled(ends))
<1>1. Len(pulls) \in Nat /\ flow.tx <= Len(txs)
  BY DEF ChainTyped, CancelTyped
<1>2. {"failed", "unconfirmed", "gone", "done", "scheduled"} \subseteq Steps
  BY DEF Steps
<1>4. ASSUME NEW step \in {"failed", "unconfirmed", "gone", "done"}
      PROVE  Outcome(step) \in Flows /\ Outcome(step).step = step /\ Outcome(step).tx = flow.tx
  BY <1>2, Ended
<1>5. ASSUME NEW ends \in Days, DateTold(ends, Len(pulls))
      PROVE  FlowOk(Scheduled(ends))
  <2>1. PICK out : out = Outcome("scheduled")
    OBVIOUS
  <2>2. out \in Flows /\ out.tx = flow.tx /\ out.step = "scheduled"
    BY <1>2, <2>1, Ended
  <2>3. PICK f : f = [out EXCEPT !.ends = ends, !.told = Len(pulls)]
    OBVIOUS
  <2>4. f \in Flows /\ f.step = "scheduled" /\ f.ends = ends /\ f.told = Len(pulls) /\ f.tx = flow.tx
    BY <1>1, <2>2, <2>3 DEF Flows
  <2>5. f = Scheduled(ends)
    BY <2>1, <2>3 DEF Scheduled
  <2> QED BY <1>1, <1>5, <2>4, <2>5 DEF FlowOk
<1>6. FlowOk(Outcome("failed"))
  BY <1>1, <1>4 DEF FlowOk
<1>7. FlowOk(Outcome("unconfirmed"))
  BY <1>1, <1>4 DEF FlowOk
<1>8. ASSUME ~Exists PROVE FlowOk(Outcome("gone")) /\ FlowOk(Outcome("done"))
  BY <1>1, <1>4, <1>8 DEF FlowOk
<1> QED BY <1>5, <1>6, <1>7, <1>8

\* What is known of a permission's life whenever its subscriber or its merchant acts.
Life ==
  /\ ChainTyped /\ now <= MaxNow
  /\ RecentTrue /\ SentInLife /\ (\A a \in recent.acct : InRange(a))

LEMMA Told == Life => \A answer \in Answers : AnswerTrue(answer)
BY AnswersTrue DEF Life

LEMMA ShowMoves ==
  ASSUME Life, CancelTyped, FlowTold, Show
  PROVE  CancelTyped' /\ CardTold' /\ FlowTold'
<1>1. PICK answer \in Answers : card' = Card(answer)
  BY DEF Show
<1>2. UNCHANGED chainVars /\ flow' = flow
  BY DEF Show
<1>3. UNCHANGED <<now, acct, plan, auth, purse, txs, pulls>>
  BY <1>2 DEF chainVars
<1>4. PICK shown : shown = Card(answer)
  OBVIOUS
<1>5. /\ shown \in Cards
      /\ shown.next = "never" => OutOfReach /\ Len(pulls) = shown.pulls
      /\ shown.ends # None => DateTold(shown.ends, shown.pulls)
  BY <1>4, Told, FewPulls, CardShown DEF Life
<1>6. shown.ends # None => DateTold(shown.ends, shown.pulls)'
  BY <1>3, <1>5 DEF DateTold, NoPullsFrom, Exists
<1>7. shown.next = "never" => OutOfReach' /\ Len(pulls') = shown.pulls
  BY <1>3, <1>5 DEF OutOfReach, Exists
<1>8. CardTold'
  BY <1>1, <1>4, <1>6, <1>7 DEF CardTold
<1>9. CancelTyped'
  BY <1>1, <1>2, <1>3, <1>4, <1>5 DEF CancelTyped
<1>10. FlowTold'
  BY <1>2, <1>3 DEF FlowTold, DateTold, NoPullsFrom, Exists
<1> QED BY <1>8, <1>9, <1>10

LEMMA ClickMoves ==
  ASSUME Life, CancelTyped, Click
  PROVE  CancelTyped' /\ CardTold' /\ FlowTold'
<1>1. /\ flow' = [Idle EXCEPT !.step = "checking", !.window = card.window]
      /\ card' = NoCard /\ UNCHANGED chainVars
  BY DEF Click
<1>2. PICK window \in Windows : window = card.window
  BY DEF CancelTyped, Cards
<1>3. flow' \in Flows /\ flow'.step = "checking" /\ flow'.tx = 0
  BY <1>1, <1>2, Begun
<1>4. card' \in Cards /\ card'.next = "nothing" /\ card'.ends = None
  <2>1. card' = [next |-> "nothing", action |-> "none", ends |-> None, window |-> NoWindow, pulls |-> 0]
    BY <1>1 DEF NoCard
  <2>2. PICK ends \in Days, none \in Windows : ends = None /\ none = NoWindow
    BY Begun
  <2>3. card' = [next |-> "nothing", action |-> "none", ends |-> ends, window |-> none, pulls |-> 0]
    BY <2>1, <2>2
  <2> QED BY <2>2, <2>3 DEF Cards
<1>5. txs' = txs /\ Len(txs) \in Nat
  BY <1>1 DEF chainVars, Life, ChainTyped
<1> QED BY <1>3, <1>4, <1>5 DEF CancelTyped, CardTold, FlowTold

LEMMA CheckMoves == Life /\ CancelTyped /\ Check => \E f : FlowOk(f) /\ flow' = f
<1> SUFFICES ASSUME Life, CancelTyped, Check PROVE \E f : FlowOk(f) /\ flow' = f
  OBVIOUS
<1>0. ChainTyped
  BY DEF Life
<1>1. CASE flow' = Outcome("failed")
  BY <1>0, <1>1, OutcomeOk
<1>2. ASSUME NEW answer \in Answers, NEW clock \in Clocks,
          flow' =
            CASE GoneFrom(answer) -> Outcome("gone")
              [] answer.known = "unreadable" -> Outcome("failed")
              [] answer.known = "read" ->
                   IF RevokeAction(answer, clock) = "wait"
                   THEN Scheduled(answer.ends)
                   ELSE [flow EXCEPT !.step = "preparing", !.kind = answer.kind,
                           !.ends = answer.ends, !.action = RevokeAction(answer, clock)]
      PROVE  \E f : FlowOk(f) /\ flow' = f
  <2>1. AnswerTrue(answer)
    BY Told
  <2>2. CASE GoneFrom(answer)
    <3>1. flow' = Outcome("gone")
      BY <1>2, <2>2 DEF GoneFrom
    <3>2. ~Exists
      BY <2>1, <2>2 DEF AnswerTrue, GoneFrom
    <3> QED BY <1>0, <3>1, <3>2, OutcomeOk
  <2>3. CASE answer.known = "unreadable"
    <3>1. flow' = Outcome("failed")
      BY <1>2, <2>3 DEF GoneFrom
    <3> QED BY <1>0, <3>1, OutcomeOk
  <2>4. CASE answer.known = "read"
    <3>0. PICK action \in {"close", "cancel", "wait"} : action = RevokeAction(answer, clock)
      BY ActionOf
    <3>1. CASE action = "wait"
      <4>1. flow' = Scheduled(answer.ends)
        BY <1>2, <2>4, <3>0, <3>1 DEF GoneFrom
      <4>2. answer.ends # None /\ answer.ends \in Days
        BY <2>1, <2>4, <3>0, <3>1, ActionOf DEF AnswerTrue
      <4>3. DateTold(answer.ends, Len(pulls))
        BY <1>0, <2>1, <2>4, <4>2, DateShown
      <4> QED BY <1>0, <4>1, <4>2, <4>3, OutcomeOk
    <3>2. CASE action # "wait"
      <4>1. PICK ends \in Days, kind \in {"subscription", "fixed", "recurring"} : ends = answer.ends /\ kind = answer.kind
        BY <2>1, <2>4 DEF AnswerTrue
      <4>2. flow' = [flow EXCEPT !.step = "preparing", !.kind = kind, !.ends = ends, !.action = action]
        BY <1>2, <2>4, <3>0, <3>2, <4>1 DEF GoneFrom
      <4>3. flow' \in Flows /\ flow'.step = "preparing" /\ flow'.tx = flow.tx
        BY <3>2, <4>2 DEF CancelTyped, Flows, Steps, Working
      <4> QED BY <4>3 DEF FlowOk, CancelTyped
    <3> QED BY <3>1, <3>2
  <2> QED BY <2>1, <2>2, <2>3, <2>4 DEF AnswerTrue, GoneFrom
<1> QED BY <1>1, <1>2 DEF Check

LEMMA PrepareMoves == Life /\ CancelTyped /\ Prepare => \E f : FlowOk(f) /\ flow' = f
<1> SUFFICES ASSUME Life, CancelTyped, Prepare PROVE \E f : FlowOk(f) /\ flow' = f
  OBVIOUS
<1>0. ChainTyped
  BY DEF Life
<1>1. PICK mine \in BOOLEAN, lifetime \in BOOLEAN, clock \in Clocks :
       flow' = IF Refuses(mine, clock) \/ ~lifetime THEN Outcome("failed")
               ELSE [flow EXCEPT !.step = "signing", !.ends = None]
  BY DEF Prepare
<1>2. CASE Refuses(mine, clock) \/ ~lifetime
  <2>1. flow' = Outcome("failed")
    BY <1>1, <1>2
  <2> QED BY <1>0, <2>1, OutcomeOk
<1>3. CASE ~(Refuses(mine, clock) \/ ~lifetime)
  <2>1. flow' = [flow EXCEPT !.step = "signing", !.ends = None]
    BY <1>1, <1>3
  <2>2. RevokeAction([kind |-> flow.kind, ends |-> flow.ends], clock) = flow.action
    BY <1>3 DEF Refuses
  <2>3. flow.action # "none"
    BY <2>2, ActionOf
  <2>4. PICK ends \in Days : ends = None
    BY Begun
  <2>5. flow' = [flow EXCEPT !.step = "signing", !.ends = ends]
    BY <2>1, <2>4
  <2>6. flow' \in Flows /\ flow'.step = "signing" /\ flow'.tx = flow.tx /\ flow'.action = flow.action
    BY <2>5 DEF CancelTyped, Flows, Steps, Working
  <2> QED BY <2>3, <2>6 DEF FlowOk, CancelTyped
<1> QED BY <1>2, <1>3

LEMMA ConfirmMoves == Life /\ CancelTyped /\ Confirm => \E f : FlowOk(f) /\ flow' = f
<1> SUFFICES ASSUME Life, CancelTyped, Confirm PROVE \E f : FlowOk(f) /\ flow' = f
  OBVIOUS
<1>0. ChainTyped
  BY DEF Life
<1>1. CASE flow' = Outcome("failed")
  BY <1>0, <1>1, OutcomeOk
<1>2. CASE flow' = Again /\ flow.step = "confirming"
  <2>1. CASE flow.attempt + 1 = ConfirmAttempts
    BY <1>0, <1>2, <2>1, OutcomeOk DEF Again
  <2>2. CASE flow.attempt + 1 # ConfirmAttempts
    <3>1. PICK attempt \in 0 .. ConfirmAttempts - 1 : attempt = flow.attempt + 1
      BY <2>2, CancelBounds DEF CancelTyped, Flows
    <3>2. flow' = [flow EXCEPT !.attempt = attempt]
      BY <1>2, <2>2, <3>1 DEF Again
    <3>3. flow' \in Flows /\ flow'.step = flow.step /\ flow'.tx = flow.tx /\ flow'.action = flow.action
      BY <3>2 DEF CancelTyped, Flows
    <3> QED BY <1>2, <3>3 DEF FlowOk, CancelTyped
  <2> QED BY <2>1, <2>2
<1>3. ASSUME NEW answer \in Answers,
          flow' =
            CASE GoneFrom(answer) -> Outcome("done")
              [] answer.known = "unreadable" -> Outcome("failed")
              [] answer.known = "read" ->
                   IF flow.action = "cancel" /\ answer.ends # None
                   THEN Scheduled(answer.ends) ELSE Again
      PROVE  \E f : FlowOk(f) /\ flow' = f
  <2>1. AnswerTrue(answer)
    BY Told
  <2>2. CASE GoneFrom(answer)
    <3>1. flow' = Outcome("done")
      BY <1>3, <2>2 DEF GoneFrom
    <3>2. ~Exists
      BY <2>1, <2>2 DEF AnswerTrue, GoneFrom
    <3> QED BY <1>0, <3>1, <3>2, OutcomeOk
  <2>3. CASE answer.known = "unreadable"
    <3>1. flow' = Outcome("failed")
      BY <1>3, <2>3 DEF GoneFrom
    <3> QED BY <1>0, <3>1, OutcomeOk
  <2>4. CASE answer.known = "read"
    <3>1. CASE flow.action = "cancel" /\ answer.ends # None
      <4>1. flow' = Scheduled(answer.ends)
        BY <1>3, <2>4, <3>1 DEF GoneFrom
      <4>2. answer.ends \in Days
        BY <2>1, <2>4 DEF AnswerTrue
      <4>3. DateTold(answer.ends, Len(pulls))
        BY <1>0, <2>1, <2>4, <3>1, DateShown
      <4> QED BY <1>0, <4>1, <4>2, <4>3, OutcomeOk
    <3>2. CASE ~(flow.action = "cancel" /\ answer.ends # None)
      <4>1. flow' = Again
        BY <1>3, <2>4, <3>2 DEF GoneFrom
      <4> QED BY <1>2, <4>1 DEF Confirm
    <3> QED BY <3>1, <3>2
  <2> QED BY <2>1, <2>2, <2>3, <2>4 DEF AnswerTrue, GoneFrom
<1> QED BY <1>1, <1>3 DEF Confirm

\* What was told of a permission stays true of it, whatever happens to it.
LifeStep ==
  \/ \E n \in DOMAIN txs : LandsTyped(n)
  \/ TimePasses \/ PlanChanges \/ AuthorityGoes
  \/ \E tx : SendsTx(tx)
  \/ UNCHANGED chainVars

LEMMA LandsInLife ==
  ASSUME Life, NEW n \in DOMAIN txs, LandsTyped(n)
  PROVE  /\ txs[n] \in Sendings /\ txs[n].op # "subscribe" /\ (txs[n].op = "charge" => txs[n].amount > 0)
         /\ \/ txs[n].op = "charge" /\ Takes(txs[n])
            \/ Closes(txs[n]) \/ Cancels(txs[n]) \/ MakesPlan(txs[n]) \/ Nothing
         /\ UNCHANGED now
BY DEF Life, ChainTyped, SentInLife, LandsTyped, LandsAt, Does

LEMMA GoneStays ==
  ASSUME Life, LifeStep, ~Exists
  PROVE  ~Exists'
<1>1. ASSUME NEW n \in DOMAIN txs, LandsTyped(n) PROVE ~Exists'
  BY <1>1, LandsInLife DEF Takes, Closes, Cancels, MakesPlan, Nothing, Exists
<1> QED BY <1>1 DEF LifeStep, TimePasses, PlanChanges, AuthorityGoes, SendsTx, chainVars, Exists

LEMMA DateStays ==
  ASSUME Life, LifeStep, NEW ends \in Nat, NEW told \in Nat, DateTold(ends, told)
  PROVE  DateTold(ends, told)'
<1>1. ends # None /\ NoPullsFrom(ends, told) /\ (Exists => acct.kind = "subscription" /\ acct.until = ends)
  BY DEF DateTold
<1>2. ASSUME UNCHANGED <<acct, pulls>> PROVE DateTold(ends, told)'
  BY <1>1, <1>2 DEF DateTold, NoPullsFrom, Exists
<1>3. ASSUME NEW n \in DOMAIN txs, LandsTyped(n) PROVE DateTold(ends, told)'
  <2>1. CASE txs[n].op = "charge" /\ Takes(txs[n])
    <3>1. PICK tx : tx = txs[n]
      OBVIOUS
    <3>2. /\ Exists /\ acct.until = ends /\ acct.kind = "subscription" /\ now < ends
          /\ acct'.kind = acct.kind /\ acct'.until = acct.until
          /\ pulls' = Append(pulls, [at |-> now, amount |-> tx.amount])
      BY <1>1, <2>1, <3>1 DEF Takes
    <3>3. pulls \in Seq(Pulls) /\ tx \in Sendings
      BY <3>1, LandsInLife, <1>3 DEF Life, ChainTyped
    <3>4. NoPullsFrom(ends, told)'
      BY <1>1, <3>2, <3>3 DEF NoPullsFrom
    <3> QED BY <1>1, <3>2, <3>4 DEF DateTold
  <2>2. CASE Closes(txs[n])
    <3>1. ~Exists' /\ pulls' = pulls
      BY <2>2 DEF Closes, Absent, Account, Exists
    <3> QED BY <1>1, <3>1 DEF DateTold, NoPullsFrom
  <2>3. CASE Cancels(txs[n])
    BY <1>1, <2>3 DEF Cancels
  <2>4. CASE MakesPlan(txs[n]) \/ Nothing
    BY <1>2, <2>4 DEF MakesPlan, Nothing
  <2> QED BY <1>3, <2>1, <2>2, <2>3, <2>4, LandsInLife
<1> QED BY <1>2, <1>3 DEF LifeStep, TimePasses, PlanChanges, AuthorityGoes, SendsTx, chainVars

LEMMA ReachStays ==
  ASSUME Life, LifeStep, OutOfReach
  PROVE  OutOfReach' /\ Len(pulls') = Len(pulls)
<1>0. /\ now \in Nat /\ acct.until \in Nat /\ acct.cap \in Nat /\ pulls \in Seq(Pulls)
  BY DEF Life, ChainTyped, Accounts
<1>1. ASSUME NEW n \in DOMAIN txs, LandsTyped(n) PROVE OutOfReach' /\ Len(pulls') = Len(pulls)
  <2>0. now' = now /\ txs[n] \in Sendings
    BY <1>1, LandsInLife
  <2>1. CASE txs[n].op = "charge" /\ Takes(txs[n])
    <3>1. txs[n].amount \in Nat /\ txs[n].amount > 0
      BY <1>1, <2>0, <2>1, LandsInLife DEF Sendings
    <3>2. ~OutOfReach
      BY <1>0, <2>1, <3>1 DEF Takes, OutOfReach
    <3> QED BY <3>2
  <2>2. CASE Closes(txs[n])
    BY <2>2 DEF Closes, Absent, Account, Exists, OutOfReach
  <2>3. CASE Cancels(txs[n])
    <3>1. acct.until = None /\ acct'.kind = acct.kind /\ acct'.cap = acct.cap /\ auth' = auth /\ pulls' = pulls
      BY <2>3 DEF Cancels
    <3> QED BY <3>1, <2>0 DEF OutOfReach, Exists
  <2>4. CASE MakesPlan(txs[n]) \/ Nothing
    BY <2>0, <2>4 DEF MakesPlan, Nothing, OutOfReach, Exists
  <2> QED BY <1>1, <2>1, <2>2, <2>3, <2>4, LandsInLife
<1>2. CASE TimePasses
  <2>1. now' = now + 1 /\ UNCHANGED <<acct, auth, pulls>>
    BY <1>2 DEF TimePasses
  <2>2. acct.until <= now => acct.until <= now'
    BY <1>0, <2>1
  <2> QED BY <2>1, <2>2 DEF OutOfReach, Exists
<1>3. CASE AuthorityGoes
  BY <1>3 DEF AuthorityGoes, OutOfReach, Exists
<1>4. ASSUME UNCHANGED <<now, acct, auth, pulls>> PROVE OutOfReach' /\ Len(pulls') = Len(pulls)
  BY <1>4 DEF OutOfReach, Exists
<1> QED BY <1>1, <1>2, <1>3, <1>4 DEF LifeStep, PlanChanges, SendsTx, chainVars

LEMMA SaidStays ==
  ASSUME Life, LifeStep, CancelTyped, CardTold, card' = card
  PROVE  CardTold'
<1>1. PICK shown \in Cards : shown = card
  BY DEF CancelTyped
<1>2. shown.ends \in Nat /\ shown.pulls \in Nat
  <2>1. shown.ends \in Days /\ shown.pulls \in Nat
    BY DEF Cards
  <2> QED BY <2>1, ProgramBounds DEF Days
<1>3. shown.ends # None => DateTold(shown.ends, shown.pulls)'
  BY <1>1, <1>2, DateStays DEF CardTold
<1>4. shown.next = "never" => OutOfReach' /\ Len(pulls') = shown.pulls
  BY <1>1, ReachStays DEF CardTold
<1> QED BY <1>1, <1>3, <1>4 DEF CardTold

LEMMA EndStays ==
  ASSUME Life, LifeStep, CancelTyped, FlowTold, flow' = flow
  PROVE  FlowTold'
<1>1. PICK f \in Flows : f = flow
  BY DEF CancelTyped
<1>2. f.ends \in Nat /\ f.told \in Nat
  BY ProgramBounds DEF Flows, Days
<1>3. f.step = "scheduled" => DateTold(f.ends, f.told)'
  BY <1>1, <1>2, DateStays DEF FlowTold
<1>4. f.step \in {"gone", "done"} => ~Exists'
  BY <1>1, GoneStays DEF FlowTold
<1> QED BY <1>1, <1>3, <1>4 DEF FlowTold

\* The chain's own part of the invariant, over one step.
LEMMA RowsStay ==
  ASSUME Life, LifeStep, \E n \in DOMAIN txs : LandsTyped(n)
  PROVE  SentInLife'
<1>1. PICK n \in DOMAIN txs : LandsTyped(n)
  OBVIOUS
<1>2. PICK tx \in Sendings : tx = txs[n]
  BY <1>1, LandsInLife
<1>3. /\ txs \in Seq(Sendings) /\ txs' \in Seq(Sendings) /\ Len(txs') = Len(txs) /\ DOMAIN txs' = DOMAIN txs
      /\ \A m \in DOMAIN txs : txs'[m].op = txs[m].op /\ txs'[m].amount = txs[m].amount
      /\ \A m \in DOMAIN txs : m # n => txs'[m] = txs[m]
      /\ txs[n].state = "flight"
  <2>1. txs \in Seq(Sendings)
    BY DEF Life, ChainTyped
  <2>2. /\ txs' \in Seq(Sendings) /\ Len(txs') = Len(txs)
        /\ \A m \in DOMAIN txs : txs'[m].op = txs[m].op /\ txs'[m].amount = txs[m].amount /\ (m # n => txs'[m] = txs[m])
        /\ txs[n].state = "flight"
    BY <1>1 DEF LandsTyped, LandsAt, RowsKept
  <2> QED BY <2>1, <2>2
<1>4. /\ Len(txs) <= MaxTxs
      /\ \A m \in DOMAIN txs : txs[m].op # "subscribe" /\ (txs[m].op = "charge" => txs[m].amount > 0)
      /\ Len(pulls) <= Cardinality({m \in DOMAIN txs : txs[m].state = "ok"})
      /\ purse \in 0 .. Purse /\ acct.spent + purse <= Purse
  BY DEF Life, SentInLife
<1>5. \A m \in DOMAIN txs' : txs'[m].op # "subscribe" /\ (txs'[m].op = "charge" => txs'[m].amount > 0)
  BY <1>3, <1>4
<1>6. PICK landed : /\ landed = {m \in DOMAIN txs : txs[m].state = "ok"}
                    /\ IsFiniteSet(landed) /\ Cardinality(landed) \in Nat /\ n \notin landed
  BY <1>3, FewPulls DEF Life
<1>7. Len(pulls) \in Nat /\ Purse \in Nat /\ acct.spent \in Nat /\ tx.amount \in Nat /\ pulls \in Seq(Pulls)
  BY LifecycleBounds DEF Life, ChainTyped, Accounts, Sendings
<1>8. Len(pulls') <= Cardinality({m \in DOMAIN txs' : txs'[m].state = "ok"})
  <2>1. CASE txs'[n].state = "ok"
    <3>1. {m \in DOMAIN txs' : txs'[m].state = "ok"} = landed \cup {n}
      BY <1>3, <1>6, <2>1
    <3>2. Cardinality(landed \cup {n}) = Cardinality(landed) + 1
      BY <1>6, FS_AddElement
    <3>3. Len(pulls') \in {Len(pulls), Len(pulls) + 1}
      <4>1. \/ \E row : pulls' = Append(pulls, row)
            \/ pulls' = pulls
        BY <1>1, LandsInLife DEF Takes, Closes, Cancels, MakesPlan, Nothing
      <4> QED BY <1>7, <4>1
    <3>4. PICK many \in Nat : many = Cardinality(landed) /\ Len(pulls) <= many
      BY <1>4, <1>6
    <3>5. Len(pulls') <= many + 1
      BY <1>7, <3>3, <3>4
    <3>6. Cardinality({m \in DOMAIN txs' : txs'[m].state = "ok"}) = many + 1
      BY <3>1, <3>2, <3>4
    <3> QED BY <3>5, <3>6
  <2>2. CASE txs'[n].state # "ok"
    <3>1. {m \in DOMAIN txs' : txs'[m].state = "ok"} = landed
      BY <1>3, <1>6, <2>2
    <3>2. pulls' = pulls
      BY <1>1, <2>2 DEF LandsTyped, LandsAt, Nothing
    <3> QED BY <1>4, <1>6, <3>1, <3>2
  <2> QED BY <2>1, <2>2
<1>9. purse' \in 0 .. Purse /\ acct'.spent + purse' <= Purse
  <2>1. CASE txs[n].op = "charge" /\ Takes(txs[n])
    <3>1. purse >= tx.amount /\ purse' = purse - tx.amount
      BY <1>2, <2>1 DEF Takes
    <3>2. acct'.spent \in {acct.spent, tx.amount, acct.spent + tx.amount}
      BY <1>2, <2>1 DEF Takes
    <3>3. PICK spent \in Nat, left \in Nat : spent = acct.spent /\ left = purse /\ spent + left <= Purse
      BY <1>4, <1>7
    <3>4. PICK paid \in Nat : paid = tx.amount
      BY <1>7
    <3>5. purse' = left - paid /\ left >= paid
      BY <3>1, <3>3, <3>4
    <3>6. purse' \in 0 .. Purse
      BY <1>7, <3>3, <3>5
    <3>7. acct'.spent \in {spent, paid, spent + paid}
      BY <3>2, <3>3, <3>4
    <3>8. acct'.spent + purse' <= Purse
      BY <1>7, <3>3, <3>5, <3>7
    <3> QED BY <3>6, <3>8
  <2>2. CASE Closes(txs[n])
    <3>1. purse' = purse /\ acct'.spent = 0
      BY <2>2 DEF Closes, Absent, Account
    <3> QED BY <1>4, <1>7, <3>1
  <2>3. CASE Cancels(txs[n]) \/ MakesPlan(txs[n]) \/ Nothing
    BY <1>4, <2>3 DEF Cancels, MakesPlan, Nothing
  <2> QED BY <1>1, <2>1, <2>2, <2>3, LandsInLife
<1> QED BY <1>3, <1>4, <1>5, <1>8, <1>9 DEF SentInLife

LEMMA SendingStays ==
  ASSUME Life, NEW tx, SendsTx(tx)
  PROVE  Life'
<1>1. /\ tx \in Sendings /\ tx.op # "subscribe" /\ tx.state # "ok" /\ Len(txs) < MaxTxs
      /\ tx.op = "charge" => tx.amount > 0
      /\ txs' = Append(txs, tx)
      /\ UNCHANGED <<now, acct, plan, auth, purse, recent, pulls>>
  BY DEF SendsTx
<1>2. /\ ChainTyped' /\ Len(txs') = Len(txs) + 1 /\ txs'[Len(txs) + 1] = tx
      /\ \A m \in DOMAIN txs : m \in DOMAIN txs' /\ txs'[m] = txs[m]
      /\ \A m \in DOMAIN txs' : m \in DOMAIN txs \/ m = Len(txs) + 1
  BY <1>1, SendingTyped DEF Life
<1>3. Len(txs) \in Nat /\ MaxTxs \in Nat
  BY ProgramBounds DEF Life, ChainTyped
<1>4. {m \in DOMAIN txs' : txs'[m].state = "ok"} = {m \in DOMAIN txs : txs[m].state = "ok"}
  BY <1>1, <1>2
<1>5. SentInLife
  BY DEF Life
<1>6. \A m \in DOMAIN txs' : txs'[m].op # "subscribe" /\ (txs'[m].op = "charge" => txs'[m].amount > 0)
  BY <1>1, <1>2, <1>5 DEF SentInLife
<1>7. Len(txs') <= MaxTxs
  BY <1>1, <1>2, <1>3
<1>8. SentInLife'
  BY <1>1, <1>4, <1>5, <1>6, <1>7 DEF SentInLife
<1>9. RecentTrue' /\ (\A a \in recent'.acct : InRange(a)')
  BY <1>1 DEF Life, RecentTrue, InRange, Exists
<1> QED BY <1>1, <1>2, <1>8, <1>9 DEF Life

\* An answer of the nodes, against the permission as it is.
Earlier(a) ==
  IF a.kind = "absent" THEN ~Exists
  ELSE /\ a.gen = 1
       /\ Exists => /\ a.kind = acct.kind
                    /\ a.until # None => a.until = acct.until
                    /\ a.kind = "fixed" => acct.cap <= a.cap

LEMMA RecentIs ==
  RecentTrue <=> /\ \A a \in recent.acct : Earlier(a)
                 /\ \A g \in recent.auth : g = 1 \/ (g = 0 /\ auth = 0)
BY DEF RecentTrue, Earlier

LEMMA LandsStays ==
  ASSUME Life, NEW n \in DOMAIN txs, LandsTyped(n), ChainTyped'
  PROVE  Life'
<1>1. /\ txs[n] \in Sendings /\ txs[n].op # "subscribe" /\ (txs[n].op = "charge" => txs[n].amount > 0)
      /\ \/ txs[n].op = "charge" /\ Takes(txs[n])
         \/ Closes(txs[n]) \/ Cancels(txs[n]) \/ MakesPlan(txs[n]) \/ Nothing
      /\ UNCHANGED now
  BY LandsInLife
<1>2. /\ recent'.acct = recent.acct \cup {acct'} /\ recent'.auth = recent.auth \cup {auth'} /\ auth' = auth
  BY <1>1 DEF LandsTyped, Takes, Closes, Cancels, MakesPlan, Nothing
<1>3. SentInLife'
  BY RowsStay DEF LifeStep
<1>4. /\ acct \in Accounts /\ acct' \in Accounts /\ recent.acct \subseteq Accounts /\ acct \in recent.acct /\ auth \in recent.auth
      /\ now \in Nat /\ MaxNow \in Nat /\ Period \in Nat /\ Purse \in Nat /\ now <= MaxNow /\ acct'.start <= now'
  BY ProgramBounds, LifecycleBounds DEF Life, ChainTyped, Nodes
<1>5. /\ \A a \in recent.acct : Earlier(a) /\ InRange(a)
      /\ \A g \in recent.auth : g = 1 \/ (g = 0 /\ auth = 0)
  BY RecentIs DEF Life
<1>6. InRange(acct) /\ acct.kind \in {"subscription", "fixed", "recurring", "absent"} /\ (Exists => acct.gen = 1)
  BY <1>4, <1>5 DEF Accounts, Earlier, Exists
<1>7. CASE txs[n].op = "charge" /\ Takes(txs[n])
  <2>1. PICK tx \in Sendings : tx = txs[n]
    BY <1>1
  <2>2. /\ Exists /\ Exists' /\ acct'.kind = acct.kind /\ acct'.gen = 1 /\ acct'.until = acct.until
        /\ acct.kind = "fixed" => acct'.cap <= acct.cap
        /\ acct'.cap <= acct.cap
        /\ tx.amount \in Nat
    BY <1>4, <1>6, <1>7, <2>1 DEF Takes, Exists, Accounts, Sendings
  <2>3. acct'.spent <= Purse
    <3>1. acct'.spent + purse' <= Purse /\ purse' \in 0 .. Purse
      BY <1>3 DEF SentInLife
    <3>2. acct'.spent \in Nat
      BY <1>4 DEF Accounts
    <3> QED BY <1>4, <3>1, <3>2
  <2>4. InRange(acct)'
    <3>1. acct'.cap \in Nat /\ acct.cap \in Nat /\ acct.cap <= Cap(MaxTerms) /\ Cap(MaxTerms) \in Nat /\ acct.until <= MaxNow + Period
      BY <1>4, <1>6, ProgramBounds DEF Accounts, InRange, Cap
    <3>2. acct'.start \in Nat
      BY <1>4 DEF Accounts
    <3> QED BY <1>1, <1>4, <2>2, <2>3, <3>1, <3>2 DEF InRange
  <2>5. ASSUME NEW a \in recent.acct PROVE Earlier(a)'
    <3>1. a.cap \in Nat /\ acct.cap \in Nat /\ acct'.cap \in Nat
      BY <1>4 DEF Accounts
    <3> QED BY <1>5, <2>2, <3>1 DEF Earlier
  <2>6. Earlier(acct)'
    <3>1. acct'.cap \in Nat
      BY <1>4 DEF Accounts
    <3> QED BY <2>2, <3>1 DEF Earlier, Exists
  <2>7. \A a \in recent'.acct : Earlier(a)'
    BY <1>2, <2>5, <2>6
  <2>8. \A a \in recent'.acct : InRange(a)'
    BY <1>2, <1>5, <2>4 DEF InRange
  <2>9. RecentTrue'
    BY <1>2, <1>4, <1>5, <2>7 DEF RecentTrue, Earlier
  <2> QED BY <1>1, <1>3, <1>4, <2>8, <2>9 DEF Life
<1>8. CASE Closes(txs[n])
  <2>1. ~Exists' /\ acct'.kind = "absent" /\ acct'.start = 0 /\ acct'.spent = 0 /\ acct'.cap = 0 /\ acct'.until = 0
    BY <1>8 DEF Closes, Absent, Account, Exists, None
  <2>2. \A a \in recent'.acct : IF a.kind = "absent" THEN ~Exists' ELSE a.gen = 1
    BY <1>2, <1>5, <2>1 DEF Earlier
  <2>3. RecentTrue'
    BY <1>2, <1>4, <1>5, <2>1, <2>2 DEF RecentTrue
  <2>4. InRange(acct)'
    BY <1>4, <2>1, ProgramBounds DEF InRange, Cap
  <2>5. \A a \in recent'.acct : InRange(a)'
    BY <1>2, <1>5, <2>4 DEF InRange
  <2> QED BY <1>1, <1>3, <1>4, <2>3, <2>5 DEF Life
<1>9. CASE Cancels(txs[n])
  <2>1. /\ Exists /\ Exists' /\ acct.until = None /\ acct'.kind = acct.kind /\ acct'.gen = 1
        /\ acct'.cap = acct.cap /\ acct'.start = acct.start /\ acct'.spent = acct.spent /\ acct'.until <= now + Period
    BY <1>6, <1>9 DEF Cancels, Exists
  <2>2. ASSUME NEW a \in recent.acct PROVE Earlier(a)'
    BY <1>5, <2>1 DEF Earlier
  <2>3. Earlier(acct)'
    <3>1. acct'.cap \in Nat
      BY <1>4 DEF Accounts
    <3> QED BY <2>1, <3>1 DEF Earlier, Exists
  <2>4. InRange(acct)'
    <3>1. acct'.until \in Nat
      BY <1>4 DEF Accounts
    <3> QED BY <1>4, <1>6, <2>1, <3>1 DEF InRange
  <2>5. \A a \in recent'.acct : Earlier(a)' /\ InRange(a)'
    BY <1>2, <1>5, <2>2, <2>3, <2>4 DEF InRange
  <2>6. RecentTrue'
    BY <1>2, <1>4, <1>5, <2>5 DEF RecentTrue, Earlier
  <2> QED BY <1>1, <1>3, <1>4, <2>5, <2>6 DEF Life
<1>10. CASE MakesPlan(txs[n]) \/ Nothing
  <2>1. acct' = acct
    BY <1>10 DEF MakesPlan, Nothing
  <2>2. recent'.acct = recent.acct
    BY <1>2, <1>4, <2>1
  <2>3. RecentTrue'
    BY <1>2, <1>4, <2>1, <2>2 DEF Life, RecentTrue, Exists
  <2> QED BY <1>1, <1>3, <1>4, <1>5, <2>2, <2>3 DEF Life, InRange
<1> QED BY <1>1, <1>7, <1>8, <1>9, <1>10

LEMMA ChainStays ==
  ASSUME Life, Land \/ Tick \/ PlanCloses \/ AuthorityCloses
  PROVE  Life' /\ LifeStep /\ ((\E n \in DOMAIN txs : LandsAt(n)) \/ txs' = txs)
<1>1. /\ ChainTyped'
      /\ (\E n \in DOMAIN txs : LandsTyped(n)) \/ TimePasses \/ PlanChanges \/ AuthorityGoes
      /\ TimePasses \/ UNCHANGED now
  <2>1. Tick => Ticks
    BY DEF Tick, Ticks
  <2> QED BY <2>1, ChainSteps DEF Life
<1>2. /\ now \in Nat /\ MaxNow \in Nat /\ acct \in recent.acct /\ auth \in recent.auth
      /\ now <= MaxNow /\ RecentTrue /\ SentInLife /\ (\A a \in recent.acct : InRange(a))
  BY ProgramBounds DEF Life, ChainTyped
<1>3. CASE \E n \in DOMAIN txs : LandsTyped(n)
  BY <1>1, <1>3, LandsStays DEF LifeStep, LandsTyped
<1>4. CASE TimePasses
  <2>1. /\ now' = now + 1 /\ UNCHANGED <<acct, auth, txs, pulls, purse>>
        /\ recent'.acct = {acct} /\ recent'.auth = {auth}
    BY <1>4 DEF TimePasses
  <2>2. now' <= MaxNow
    <3>1. Tick
      <4>1. now' # now
        BY <1>2, <2>1
      <4> QED BY <4>1 DEF Land, PlanCloses, AuthorityCloses
    <3> QED BY <1>2, <2>1, <3>1 DEF Tick
  <2>3. RecentTrue'
    BY <1>2, <2>1 DEF RecentTrue, Exists
  <2>4. SentInLife'
    BY <1>2, <2>1 DEF SentInLife
  <2>5. \A a \in recent'.acct : InRange(a)'
    BY <1>2, <2>1 DEF InRange
  <2> QED BY <1>1, <1>4, <2>1, <2>2, <2>3, <2>4, <2>5 DEF Life, LifeStep
<1>5. CASE PlanChanges \/ AuthorityGoes
  <2>1. /\ now' = now /\ UNCHANGED <<acct, txs, pulls, purse>> /\ auth' \in {0, auth}
        /\ recent'.acct = recent.acct /\ recent'.auth \subseteq recent.auth \cup {auth'}
        /\ auth' = auth => recent'.auth = recent.auth
    BY <1>2, <1>5 DEF PlanChanges, AuthorityGoes
  <2>2. RecentTrue'
    BY <1>2, <2>1 DEF RecentTrue, Exists
  <2>3. SentInLife'
    BY <1>2, <2>1 DEF SentInLife
  <2>4. \A a \in recent'.acct : InRange(a)'
    BY <1>2, <2>1 DEF InRange
  <2> QED BY <1>1, <1>2, <1>5, <2>1, <2>2, <2>3, <2>4 DEF Life, LifeStep
<1> QED BY <1>1, <1>3, <1>4, <1>5

LEMMA RowsGrow ==
  ASSUME Life, LifeStep
  PROVE  /\ Len(txs) \in Nat /\ Len(txs') \in Nat /\ Len(txs) <= Len(txs')
         /\ (\E n \in DOMAIN txs : LandsAt(n)) \/ (\E tx : SendsTx(tx)) \/ txs' = txs
<1>1. txs \in Seq(Sendings)
  BY DEF Life, ChainTyped
<1>2. ASSUME NEW n \in DOMAIN txs, LandsTyped(n) PROVE Len(txs') = Len(txs) /\ LandsAt(n)
  BY <1>2 DEF LandsTyped, LandsAt, RowsKept
<1>3. ASSUME NEW tx, SendsTx(tx) PROVE Len(txs') = Len(txs) + 1
  BY <1>1, <1>3 DEF SendsTx
<1> QED BY <1>1, <1>2, <1>3 DEF LifeStep, TimePasses, PlanChanges, AuthorityGoes, chainVars

\* What the page says stays so while others act, and what the tool says while it rests.
LEMMA PageKept ==
  ASSUME Life, LifeStep, CancelTyped, CardTold, FlowTold, UNCHANGED cancelVars
  PROVE  CancelTyped' /\ CardTold' /\ FlowTold'
<1>1. card' = card /\ flow' = flow
  BY DEF cancelVars
<1>2. flow.tx \in Nat
  BY DEF CancelTyped, Flows
<1>3. CancelTyped'
  BY <1>1, <1>2, RowsGrow DEF CancelTyped
<1> QED BY <1>1, <1>3, SaidStays, EndStays

LEMMA ToolKept ==
  ASSUME Life, LifeStep, SimTyped, VerdictTrue, sim' = sim
  PROVE  SimTyped' /\ VerdictTrue'
BY RowsGrow, VerdictStays DEF Life

LEMMA SignMoves ==
  ASSUME Life, CancelTyped, CardTold, Sign
  PROVE  CancelTyped' /\ CardTold' /\ FlowTold' /\ \E tx : SendsTx(tx)
<1>1. /\ flow.step = "signing" /\ Len(txs) < MaxTxs
      /\ txs' = Append(txs, Transaction(flow.action, 0, 0, 0))
      /\ UNCHANGED <<now, acct, plan, auth, purse, payee, recent, pulls, card>>
  BY DEF Sign
<1>2. PICK step \in {"confirming", "failed"} : flow' = [flow EXCEPT !.step = step, !.tx = Len(txs) + 1]
  BY DEF Sign
<1>3. PICK action \in {"close", "cancel"} : action = flow.action
  BY <1>1 DEF CancelTyped, Flows
<1>4. PICK op \in {"charge", "misnamed", "close", "cancel", "subscribe", "plan"}, zero \in Nat :
        op = action /\ zero = 0
  BY <1>3
<1>5. PICK tx : tx = Transaction(op, zero, zero, zero)
  OBVIOUS
<1>a. tx \in Sendings /\ tx.op = action /\ tx.state = "flight" /\ tx = Transaction(action, 0, 0, 0)
  BY <1>4, <1>5, Leaves DEF Life
<1>6. SendsTx(tx)
  BY <1>1, <1>3, <1>a DEF SendsTx
<1>7. PICK last \in Nat : last = Len(txs) + 1 /\ last = Len(txs')
  BY <1>1, <1>3, <1>a, SendingTyped DEF Life, ChainTyped
<1>8. flow' \in Flows /\ flow'.step = step /\ flow'.tx = last /\ flow'.action = action
  <2>1. flow' = [flow EXCEPT !.step = step, !.tx = last]
    BY <1>2, <1>7
  <2> QED BY <2>1, <1>3 DEF CancelTyped, Flows, Steps, Working
<1>9. CancelTyped'
  BY <1>1, <1>3, <1>7, <1>8 DEF CancelTyped
<1>10. FlowTold'
  BY <1>8 DEF FlowTold
<1>11. CardTold'
  BY <1>1, <1>6, SaidStays DEF LifeStep
<1> QED BY <1>6, <1>9, <1>10, <1>11

LEMMA PersonMoves ==
  ASSUME Life, CancelTyped, CardTold, FlowTold, Show \/ Click \/ CancelStep
  PROVE  CancelTyped' /\ CardTold' /\ FlowTold' /\ (UNCHANGED chainVars \/ \E tx : SendsTx(tx))
<1>1. CASE Show
  BY <1>1, ShowMoves DEF Show
<1>2. CASE Click
  BY <1>2, ClickMoves DEF Click
<1>3. CASE Sign
  BY <1>3, SignMoves
<1>4. CASE Check \/ Prepare \/ Decline \/ Confirm
  <2>1. \E f : FlowOk(f) /\ flow' = f
    <3>1. CASE Decline
      BY <3>1, OutcomeOk DEF Decline, Life
    <3> QED BY <1>4, <3>1, CheckMoves, PrepareMoves, ConfirmMoves
  <2>2. UNCHANGED chainVars /\ card' = card
    BY <1>4 DEF Check, Prepare, Decline, Confirm
  <2> QED BY <2>1, <2>2, FlowIs
<1> QED BY <1>1, <1>2, <1>3, <1>4 DEF CancelStep

LEMMA ToolBegins ==
  ASSUME ChainTyped, StartCharge \/ StartPlan
  PROVE  SimTyped' /\ VerdictTrue' /\ UNCHANGED chainVars
<1>1. UNCHANGED chainVars
  BY DEF StartCharge, StartPlan
<1>2. \/ sim' = NoAttempt
      \/ \E op \in {"charge", "misnamed", "plan"}, amount \in Nat \ {0}, preflight \in BOOLEAN :
           sim' = Built(op, amount, preflight)
  <2>1. CASE StartCharge
    <3>1. \/ sim' = NoAttempt
          \/ \E flags \in Flags, amount \in Amounts, preflight \in BOOLEAN : sim' = BuildCharge(flags, amount, preflight)
      BY <2>1 DEF StartCharge
    <3>2. ASSUME NEW flags \in Flags, NEW amount \in Amounts, NEW preflight \in BOOLEAN,
                 sim' = BuildCharge(flags, amount, preflight), sim' # NoAttempt
          PROVE  \E op \in {"charge", "misnamed", "plan"}, some \in Nat \ {0} : sim' = Built(op, some, preflight)
      <4>1. amount \in Nat \ {0}
        BY <3>2, SimBounds DEF BuildCharge
      <4>2. sim' = Built("misnamed", 1, preflight) \/ sim' = Built("charge", amount, preflight)
        BY <3>2 DEF BuildCharge
      <4> QED BY <4>1, <4>2
    <3> QED BY <3>1, <3>2
  <2>2. CASE StartPlan
    <3>1. MaxTerms \in Nat \ {0}
      BY ProgramBounds
    <3>2. PICK ends \in {None, now, now + 1}, listed \in BOOLEAN, preflight \in BOOLEAN :
            sim' = IF PlanTermsHold(Cap(MaxTerms), ends, listed) THEN Built("plan", MaxTerms, preflight) ELSE NoAttempt
      BY <2>2 DEF StartPlan
    <3> QED BY <3>1, <3>2
  <2> QED BY <2>1, <2>2
<1> QED BY <1>1, <1>2, SimBegins DEF chainVars

LEMMA OthersCharge ==
  ASSUME ChainTyped, Charges
  PROVE  \E tx : SendsTx(tx)
<1>1. PICK amount \in Amounts \ {0} : txs' = Append(txs, Transaction("charge", amount, 0, 0))
  BY DEF Charges
<1>2. amount \in Nat /\ amount > 0
  BY SimBounds
<1>3. PICK op \in {"charge", "misnamed", "close", "cancel", "subscribe", "plan"}, zero \in Nat :
        op = "charge" /\ zero = 0
  OBVIOUS
<1>4. PICK tx : tx = Transaction(op, amount, zero, zero)
  OBVIOUS
<1>5. tx \in Sendings /\ tx.op = "charge" /\ tx.amount = amount /\ tx.state = "flight"
  BY <1>2, <1>3, <1>4, Leaves
<1> QED BY <1>1, <1>2, <1>3, <1>4, <1>5 DEF Charges, SendsTx

LEMMA LifeBegins == Init => LifeInv /\ NoVerdict
<1> SUFFICES ASSUME Init PROVE LifeInv /\ NoVerdict
  OBVIOUS
<1>1. CancelInit /\ sim = Rest
  BY DEF Init, SimInit
<1>2. CASE scene \notin {"subscriber", "merchant"}
  BY <1>1, <1>2 DEF LifeInv, NoVerdict
<1>3. CASE scene \in {"subscriber", "merchant"}
  <2>0. Running
    BY <1>3 DEF Init
  <2>1. /\ now = 1 /\ auth = 1 /\ purse = Purse /\ txs = <<>> /\ pulls = <<>>
        /\ recent = [acct |-> {acct}, plan |-> {plan}, auth |-> {auth}]
    BY <2>0 DEF Running
  <2>2. Purse \in Nat /\ Period \in Nat \ {0} /\ MaxNow \in Nat \ {0} /\ MaxTerms \in Nat \ {0} /\ MaxTxs \in Nat \ {0}
    BY ProgramBounds, LifecycleBounds
  <2>3. PICK kind \in Kinds, until \in {None, 1 + Period} : acct = [Account(kind, 1, 1, Cap(1), 1) EXCEPT !.until = until]
    BY <2>0 DEF Running, Permissions
  <2>4. kind \in {"subscription", "fixed", "recurring"} /\ until \in Nat /\ until <= MaxNow + Period
    BY <2>2, LifecycleBounds DEF None
  <2>5. acct = [kind |-> kind, terms |-> 1, gen |-> 1, cap |-> 2, start |-> 1, spent |-> 0, until |-> until]
    BY <2>3 DEF Account, Cap
  <2>6. acct \in Accounts
    BY <2>4, <2>5 DEF Accounts
  <2>7. plan \in Offers
    <3>1. PICK ends \in {None, 1} : plan = Offer(1, ends, FALSE, 0)
      BY <2>0 DEF Running
    <3>2. ends \in Nat
      BY DEF None
    <3> QED BY <3>1, <3>2 DEF Offer, Offers
  <2>8. recent \in Nodes /\ recent.acct = {acct} /\ recent.plan = {plan} /\ recent.auth = {auth}
    BY <2>1, <2>6, <2>7 DEF Nodes
  <2>9. txs \in Seq(Sendings) /\ pulls \in Seq(Pulls) /\ DOMAIN txs = {} /\ Len(txs) = 0 /\ Len(pulls) = 0 /\ DOMAIN pulls = {}
    BY <2>1
  <2>10. ChainTyped
    BY <2>1, <2>2, <2>5, <2>6, <2>7, <2>8, <2>9 DEF ChainTyped
  <2>11. RecentTrue
    BY <2>1, <2>4, <2>5, <2>8 DEF RecentTrue
  <2>12. SentInLife
    <3>1. {n \in DOMAIN txs : txs[n].state = "ok"} = {}
      BY <2>9
    <3>2. Cardinality({}) = 0
      BY FS_EmptySet
    <3> QED BY <2>1, <2>2, <2>5, <2>9, <3>1, <3>2 DEF SentInLife
  <2>13. \A a \in recent.acct : InRange(a)
    BY <2>2, <2>4, <2>5, <2>8 DEF InRange, Cap
  <2>14. card = NoCard /\ flow = Idle
    BY <1>1 DEF CancelInit
  <2>15. card \in Cards /\ card.next = "nothing" /\ card.ends = None
    <3>1. PICK ends \in Days, none \in Windows : ends = None /\ none = NoWindow
      BY Begun
    <3>2. card = [next |-> "nothing", action |-> "none", ends |-> ends, window |-> none, pulls |-> 0]
      BY <2>14, <3>1 DEF NoCard
    <3> QED BY <3>1, <3>2 DEF Cards
  <2>16. CancelTyped /\ CardTold /\ FlowTold
    <3>1. flow \in Flows /\ flow.tx = 0 /\ flow.step = "idle"
      BY <2>14, Begun
    <3>2. CancelTyped
      BY <2>9, <2>15, <3>1 DEF CancelTyped
    <3> QED BY <2>15, <3>1, <3>2 DEF CardTold, FlowTold
  <2>17. SimTyped /\ VerdictTrue
    <3>1. sim \in Sims
      BY <1>1, SimBounds DEF Rest, Sims, Codes
    <3> QED BY <1>1, <2>9, <3>1 DEF Rest, SimTyped, VerdictTrue
  <2> QED BY <1>3, <2>1, <2>2, <2>10, <2>11, <2>12, <2>13, <2>16, <2>17 DEF LifeInv, NoVerdict
<1> QED BY <1>2, <1>3

LEMMA LifeGoesOn == LifeInv /\ NoVerdict /\ [Next]_vars => LifeInv' /\ NoVerdict'
<1> SUFFICES ASSUME LifeInv, NoVerdict, [Next]_vars PROVE LifeInv' /\ NoVerdict'
  OBVIOUS
<1>1. scene' = scene
  BY DEF Next, Chain, Subscriber, Merchant, Subscribes, Rehearsal, vars
<1>2. CASE scene \notin {"subscriber", "merchant"}
  <2>1. sim' = sim
    BY <1>2 DEF Next, Chain, Subscriber, Merchant, Subscribes, Rehearsal, vars
  <2> QED BY <1>1, <1>2, <2>1 DEF LifeInv, NoVerdict
<1>3. CASE scene \in {"subscriber", "merchant"}
  <2>0. Life /\ ChainTyped /\ CancelTyped /\ CardTold /\ FlowTold /\ SimTyped /\ VerdictTrue
    BY <1>3 DEF LifeInv, Life
  <2>1. SUFFICES Life' /\ CancelTyped' /\ CardTold' /\ FlowTold' /\ SimTyped' /\ VerdictTrue'
    BY <1>1, <1>3 DEF LifeInv, NoVerdict, Life
  <2>2. ASSUME UNCHANGED chainVars PROVE Life' /\ LifeStep
    <3>1. UNCHANGED <<now, acct, plan, auth, purse, recent, txs, pulls>>
      BY <2>2 DEF chainVars
    <3> QED BY <2>0, <2>2, <3>1 DEF Life, LifeStep, ChainTyped, RecentTrue, SentInLife, InRange, Exists
  <2>3. ASSUME NEW tx, SendsTx(tx) PROVE Life' /\ LifeStep
    BY <2>0, <2>3, SendingStays DEF LifeStep
  <2>4. CASE Chain
    <3>1. Life' /\ LifeStep
      BY <2>0, <2>4, ChainStays DEF Chain
    <3> QED BY <2>0, <2>4, <3>1, PageKept, ToolKept DEF Chain
  <2>5. CASE Subscriber
    <3>1. CASE (Show \/ Click \/ CancelStep) /\ UNCHANGED sim
      <4>1. CancelTyped' /\ CardTold' /\ FlowTold' /\ (UNCHANGED chainVars \/ \E tx : SendsTx(tx))
        BY <2>0, <3>1, PersonMoves
      <4>2. Life' /\ LifeStep
        BY <2>2, <2>3, <4>1
      <4> QED BY <2>0, <3>1, <4>1, <4>2, ToolKept
    <3>2. CASE Charges /\ UNCHANGED cancelVars
      <4>1. Life' /\ LifeStep
        BY <2>0, <2>3, <3>2, OthersCharge
      <4>2. sim' = sim
        BY <3>2 DEF Charges
      <4> QED BY <2>0, <3>2, <4>1, <4>2, PageKept, ToolKept
    <3> QED BY <2>5, <3>1, <3>2 DEF Subscriber
  <2>6. CASE Merchant
    <3>1. UNCHANGED cancelVars
      BY <2>6 DEF Merchant
    <3>2. SimTyped' /\ VerdictTrue' /\ (UNCHANGED chainVars \/ \E tx : SendsTx(tx))
      BY <2>0, <2>6, ToolBegins, SimSends, SimPolls DEF Merchant
    <3>3. Life' /\ LifeStep
      BY <2>2, <2>3, <3>2
    <3> QED BY <2>0, <3>1, <3>2, <3>3, PageKept
  <2>7. CASE UNCHANGED vars
    <3>1. UNCHANGED chainVars /\ UNCHANGED cancelVars /\ sim' = sim
      BY <2>7 DEF vars
    <3>2. Life' /\ LifeStep
      BY <2>2, <3>1
    <3> QED BY <2>0, <3>1, <3>2, PageKept, ToolKept
  <2> QED BY <1>3, <2>4, <2>5, <2>6, <2>7 DEF Next, Subscribes, Rehearsal
<1> QED BY <1>2, <1>3

LEMMA LifeShows == LifeInv => CancelHolds
<1> SUFFICES ASSUME LifeInv, scene \in {"subscriber", "merchant"} PROVE TypeOK /\ GoneIsGone /\ ScheduledHolds
  BY DEF CancelHolds
<1>1. /\ ChainTyped /\ now <= MaxNow /\ SentInLife /\ InRange(acct) /\ CancelTyped /\ FlowTold /\ SimTyped
  BY DEF LifeInv, ChainTyped
<1>2. MaxNow \in Nat /\ Period \in Nat /\ Purse \in Nat /\ ConfirmAttempts \in Nat
  BY ProgramBounds, LifecycleBounds, CancelBounds
<1>3. now \in 1 .. MaxNow /\ purse \in 0 .. Purse /\ Len(txs) <= MaxTxs
  BY <1>1, <1>2 DEF ChainTyped, SentInLife
<1>4. acct.until \in Nat /\ acct.start \in Nat /\ acct.spent \in Nat
  BY <1>1 DEF ChainTyped, Accounts
<1>5. acct.until \in Days /\ acct.start \in Days /\ acct.spent \in 0 .. Purse
  BY <1>1, <1>2, <1>4 DEF InRange, Days
<1>6. card.window \in Windows /\ card.ends \in Days
  BY <1>1 DEF CancelTyped, Cards
<1>7. /\ flow.step \in Steps /\ flow.window \in Windows /\ flow.tx \in Nat /\ flow.tx <= Len(txs)
      /\ flow.attempt \in 0 .. ConfirmAttempts - 1
  BY <1>1 DEF CancelTyped, Flows
<1>8. flow.tx \in 0 .. Len(txs) /\ flow.attempt \in 0 .. ConfirmAttempts
  BY <1>1, <1>2, <1>7 DEF ChainTyped
<1>9. sim.polls \in 0 .. PollAttempts
  BY <1>1 DEF SimTyped, Sims
<1>10. TypeOK
  BY <1>3, <1>5, <1>6, <1>7, <1>8, <1>9 DEF TypeOK
<1>11. GoneIsGone /\ ScheduledHolds
  BY <1>1 DEF FlowTold, GoneIsGone, ScheduledHolds, DateTold
<1> QED BY <1>10, <1>11

THEOREM LifeIsKept == Spec => []LifeInv /\ []NoVerdict
<1>1. LifeInv /\ NoVerdict /\ [Next]_vars => LifeInv' /\ NoVerdict'
  BY LifeGoesOn
<1> QED BY LifeBegins, <1>1, PTL DEF Spec

\* What the cancel page says came of a cancellation is so: a permission it calls gone is
\* gone, and from a stop date it named no charge lands (revoke.tsx, readOnChain).
THEOREM CancelIsTrue == Spec => []CancelHolds
BY LifeIsKept, LifeShows, PTL

\* The verdict of the merchant's tool is what became of its transaction (charge.ts, plan.ts).
THEOREM VerdictIsTrue == Spec => []VerdictTrue
<1>1. LifeInv /\ NoVerdict => VerdictTrue
  <2>1. CASE scene \in {"subscriber", "merchant"}
    BY <2>1 DEF LifeInv
  <2>2. CASE scene \notin {"subscriber", "merchant"}
    BY <2>2 DEF NoVerdict, VerdictTrue, Rest
  <2> QED BY <2>1, <2>2
<1> QED BY LifeIsKept, <1>1, PTL

-----------------------------------------------------------------------------
(***************************************************************************)
(* What the subscribe page says.                                           *)
(***************************************************************************)
\* The newcomer's chain is the same chain.
LEMMA SameRefusals ==
  ASSUME NEW tx
  PROVE  Newcomer!Refusals(tx) = Refusals(tx)
<1>1. Newcomer!Exists = Exists
  BY DEF Newcomer!Exists, Exists
<1>2. \A a, b : Newcomer!OneOf(a, b) = OneOf(a, b)
  BY DEF Newcomer!OneOf, OneOf
<1>3. Newcomer!Left = Left
  BY DEF Newcomer!Left, Left, Newcomer!Spent, Spent, Newcomer!Elapsed, Elapsed
<1>4. Newcomer!ChargeRefusals(tx.amount) = ChargeRefusals(tx.amount)
  BY <1>1, <1>2, <1>3 DEF Newcomer!ChargeRefusals, ChargeRefusals, Newcomer!None, None, Newcomer!NoAccount, NoAccount
<1>5. Newcomer!CloseRefusals = CloseRefusals
  BY <1>1, <1>2 DEF Newcomer!CloseRefusals, CloseRefusals, Newcomer!None, None
<1>6. Newcomer!CancelRefusals = CancelRefusals
  BY <1>1, <1>2 DEF Newcomer!CancelRefusals, CancelRefusals, Newcomer!None, None
<1>7. Newcomer!SubscribeRefusals(tx.terms, tx.gen) = SubscribeRefusals(tx.terms, tx.gen)
  BY <1>1, <1>2 DEF Newcomer!SubscribeRefusals, SubscribeRefusals, Newcomer!None, None, Newcomer!NoAccount, NoAccount
<1>8. Newcomer!OneOf(plan.terms # 0, "exists") = OneOf(plan.terms # 0, "exists")
  BY <1>2
<1> QED BY <1>4, <1>5, <1>6, <1>7, <1>8 DEF Newcomer!Refusals, Refusals

LEMMA SameEffect ==
  ASSUME NEW n
  PROVE  Newcomer!Effect(n) = Effect(n)
<1>1. Newcomer!Spent = Spent /\ Newcomer!Start = Start
  BY DEF Newcomer!Spent, Spent, Newcomer!Elapsed, Elapsed, Newcomer!Start, Start
<1>2. Newcomer!StopDate = StopDate
  BY <1>1 DEF Newcomer!StopDate, StopDate, Newcomer!None, None, Newcomer!Least, Least
<1>3. \A amount : Newcomer!Charged(amount) = Charged(amount)
  BY <1>1 DEF Newcomer!Charged, Charged
<1>4. Newcomer!Absent = Absent
  BY DEF Newcomer!Absent, Absent, Newcomer!Account, Account, Newcomer!None, None
<1>5. \A a, b, c, d, e : Newcomer!Account(a, b, c, d, e) = Account(a, b, c, d, e)
  BY DEF Newcomer!Account, Account, Newcomer!None, None
<1>6. \A a, b, c, d : Newcomer!Offer(a, b, c, d) = Offer(a, b, c, d)
  BY DEF Newcomer!Offer, Offer
<1>7. \A terms : Newcomer!Cap(terms) = Cap(terms)
  BY DEF Newcomer!Cap, Cap
<1> QED BY <1>2, <1>3, <1>4, <1>5, <1>6, <1>7 DEF Newcomer!Effect, Effect, Newcomer!None, None

LEMMA SameChain ==
  Newcomer!Chain => /\ Land \/ Ticks \/ PlanCloses \/ PlanUpdates \/ PlanOpens \/ AuthorityCloses
                    /\ now' = now \/ now < OfferTime
                    /\ UNCHANGED newVars
<1> SUFFICES ASSUME Newcomer!Chain
             PROVE  /\ Land \/ Ticks \/ PlanCloses \/ PlanUpdates \/ PlanOpens \/ AuthorityCloses
                    /\ now' = now \/ now < OfferTime
                    /\ UNCHANGED newVars
  OBVIOUS
<1>1. Newcomer!Seen = Seen /\ Newcomer!Fresh = Fresh
  BY DEF Newcomer!Seen, Seen, Newcomer!Fresh, Fresh
<1>2. Newcomer!Land => Land
  BY <1>1, SameRefusals, SameEffect DEF Newcomer!Land, Land
<1>3. \A a, b, c, d : Newcomer!Offer(a, b, c, d) = Offer(a, b, c, d)
  BY DEF Newcomer!Offer, Offer
<1>4. Newcomer!PlanCloses => PlanCloses
  BY <1>1, <1>3 DEF Newcomer!PlanCloses, PlanCloses, Newcomer!NoPlan, NoPlan, Newcomer!None, None
<1>5. Newcomer!PlanUpdates => PlanUpdates
  BY <1>1, <1>3 DEF Newcomer!PlanUpdates, PlanUpdates, Newcomer!None, None
<1>6. Newcomer!PlanOpens => PlanOpens
  BY <1>1, <1>3 DEF Newcomer!PlanOpens, PlanOpens, Newcomer!None, None
<1>7. Newcomer!AuthorityCloses => AuthorityCloses
  BY <1>1 DEF Newcomer!AuthorityCloses, AuthorityCloses
<1>8. Newcomer!Tick => Ticks /\ now < OfferTime
  BY <1>1 DEF Newcomer!Tick, Ticks
<1>9. CASE Newcomer!Tick
  BY <1>8, <1>9 DEF Newcomer!Chain, newVars
<1>10. CASE Newcomer!Land \/ Newcomer!PlanCloses \/ Newcomer!PlanUpdates \/ Newcomer!PlanOpens \/ Newcomer!AuthorityCloses
  <2>1. now' = now
    BY <1>10 DEF Newcomer!Land, Newcomer!PlanCloses, Newcomer!PlanUpdates, Newcomer!PlanOpens, Newcomer!AuthorityCloses
  <2> QED BY <1>2, <1>4, <1>5, <1>6, <1>7, <1>10, <2>1 DEF Newcomer!Chain, newVars
<1> QED BY <1>9, <1>10 DEF Newcomer!Chain

\* What is read of an offer and its subscriber, and what is shown of it.
LEMMA ReviewTrue ==
  ASSUME ChainTyped, \A p \in recent.plan : p.terms <= MaxTerms,
         NEW p \in recent.plan, NEW a \in recent.acct, NEW g \in recent.auth, NEW clock \in now - 1 .. now + 1,
         NEW fresh, fresh = Newcomer!Review(Newcomer!PlanView(p, a, g), clock)
  PROVE  /\ fresh \in Reviews
         /\ fresh.blocked = "none" =>
              /\ fresh.terms = p.terms /\ fresh.gen = g /\ fresh.ends = p.ends /\ fresh.lists = p.lists
              /\ ~p.sunset /\ a.kind = "absent" /\ (p.ends # None => p.ends >= now)
              /\ g = 0 => purse # NoAccount
<1>1. p \in Offers /\ a \in Accounts /\ g \in Nat /\ now \in Nat /\ clock \in Int /\ MaxTerms \in Nat
  BY ProgramBounds DEF ChainTyped, Nodes
<1>2. p.terms \in 0 .. MaxTerms /\ p.ends \in Nat /\ p.lists \in Nat
  BY <1>1 DEF Offers
<1>3. CASE p.terms = 0
  <2>1. fresh = [terms |-> 0, ends |-> None, lists |-> 0, gen |-> 0, blocked |-> "missing"]
    BY <1>3 DEF Newcomer!Review, Newcomer!PlanView, Newcomer!NoReview, Newcomer!None, None
  <2> QED BY <1>1, <2>1 DEF Reviews, None
<1>4. CASE p.terms # 0
  <2>1. PICK view : /\ view = Newcomer!PlanView(p, a, g)
                    /\ view.plan = p /\ view.subscriber.initId = g
                    /\ view.subscriber.tokenAccount = (purse # NoAccount)
                    /\ view.subscriber.subscribed = (a.kind # "absent")
    BY DEF Newcomer!PlanView, Newcomer!SubscriberState, Newcomer!NoAccount, NoAccount
  <2>2. PICK bounds : bounds = Newcomer!ReadBounds(Newcomer!Instructions(view))
    OBVIOUS
  <2>3. bounds.terms = p.terms /\ bounds.gen = g
    <3>1. CASE g = 0
      <4>1. PICK row : row = [name |-> "subscribe", terms |-> p.terms, gen |-> 0]
        OBVIOUS
      <4>2. Newcomer!Instructions(view) = <<[name |-> "initAuthority"], row>>
        BY <2>1, <3>1, <4>1 DEF Newcomer!Instructions, Newcomer!SubscribeInstruction
      <4> QED BY <2>2, <3>1, <4>1, <4>2 DEF Newcomer!ReadBounds
    <3>2. CASE g # 0
      <4>1. PICK row : row = [name |-> "subscribe", terms |-> p.terms, gen |-> g]
        OBVIOUS
      <4>2. Newcomer!Instructions(view) = <<row>>
        BY <2>1, <3>2, <4>1 DEF Newcomer!Instructions, Newcomer!SubscribeInstruction
      <4> QED BY <2>2, <4>1, <4>2 DEF Newcomer!ReadBounds
    <3> QED BY <3>1, <3>2
  <2>4. PICK blocked : blocked = Newcomer!BlockFor(view, clock)
    OBVIOUS
  <2>5. fresh = [terms |-> p.terms, gen |-> g, ends |-> p.ends, lists |-> p.lists, blocked |-> blocked]
    BY <1>4, <2>1, <2>2, <2>3, <2>4 DEF Newcomer!Review
  <2>6. CASE p.sunset
    <3>1. blocked = "sunset"
      BY <2>1, <2>4, <2>6 DEF Newcomer!BlockFor
    <3> QED BY <1>1, <1>2, <2>5, <3>1 DEF Reviews
  <2>7. CASE ~p.sunset /\ p.ends # None /\ p.ends <= clock
    <3>1. blocked = "ended"
      <4>1. ~(p.ends = None \/ p.ends > clock)
        BY <1>1, <1>2, <2>7
      <4> QED BY <2>1, <2>4, <2>7, <4>1 DEF Newcomer!BlockFor, Newcomer!None, None
    <3> QED BY <1>1, <1>2, <2>5, <3>1 DEF Reviews
  <2>8. CASE ~p.sunset /\ (p.ends = None \/ p.ends > clock)
    <3>1. blocked = IF a.kind # "absent" THEN "subscribed"
                    ELSE IF g = 0 /\ purse = NoAccount THEN "no-token-account" ELSE "none"
      <4>1. ~(p.ends # None /\ p.ends <= clock)
        BY <1>1, <1>2, <2>8
      <4>2. blocked =
              CASE p.sunset -> "sunset"
                [] ~p.sunset /\ p.ends # None /\ p.ends <= clock -> "ended"
                [] ~p.sunset /\ (p.ends = None \/ p.ends > clock) ->
                     IF a.kind # "absent" THEN "subscribed"
                     ELSE IF g = 0 /\ ~(purse # NoAccount) THEN "no-token-account" ELSE "none"
        BY <2>1, <2>4 DEF Newcomer!BlockFor, Newcomer!None, None
      <4> QED BY <2>8, <4>1, <4>2
    <3>2. blocked \in {"subscribed", "no-token-account", "none"}
      BY <3>1
    <3>3. p.ends # None => p.ends >= now
      BY <1>1, <1>2, <2>8
    <3>4. fresh \in Reviews
      BY <1>1, <1>2, <2>5, <3>2 DEF Reviews
    <3>5. fresh.blocked = blocked /\ fresh.terms = p.terms /\ fresh.gen = g /\ fresh.ends = p.ends /\ fresh.lists = p.lists
      BY <2>5
    <3> QED BY <2>8, <3>1, <3>3, <3>4, <3>5
  <2> QED BY <1>1, <1>2, <2>6, <2>7, <2>8
<1> QED BY <1>3, <1>4

\* How an order may end.
LEMMA OrderEnds ==
  ASSUME OfferInv, scene = "newcomer", NEW step \in {"stopped", "failed", "unconfirmed", "done"},
         NEW out, out = Newcomer!Outcome(step)
  PROVE  /\ out \in Orders /\ out.step = step /\ out.tx = order.tx
         /\ out.tx # 0 => out.shown = order.shown
         /\ Newcomer!Idle \in Orders /\ Newcomer!NoReview \in Reviews /\ Newcomer!NoCheck \in Checks
<1>1. Newcomer!NoReview \in Reviews
  BY ProgramBounds DEF Newcomer!NoReview, Reviews, Newcomer!None
<1>2. Newcomer!Idle \in Orders
  BY <1>1, CancelBounds DEF Newcomer!Idle, Orders
<1>3. Newcomer!NoCheck \in Checks
  <2>1. Newcomer!NoPlan \in Offers
    BY DEF Newcomer!NoPlan, Newcomer!Offer, Newcomer!None, Offers
  <2>2. Newcomer!Absent \in Accounts
    BY DEF Newcomer!Absent, Newcomer!Account, Newcomer!None, Accounts
  <2> QED BY <2>1, <2>2 DEF Newcomer!NoCheck, Checks
<1>4. order.tx \in Nat /\ order.shown \in Reviews
  BY DEF OfferInv, Orders
<1>5. PICK shown \in Reviews : shown = IF order.tx = 0 THEN Newcomer!NoReview ELSE order.shown
  BY <1>1, <1>4
<1>6. out = [Newcomer!Idle EXCEPT !.step = step, !.tx = order.tx, !.shown = shown]
  BY <1>5 DEF Newcomer!Outcome
<1>7. out \in Orders /\ out.step = step /\ out.tx = order.tx /\ out.shown = shown
  BY <1>2, <1>4, <1>6 DEF Orders
<1> QED BY <1>1, <1>2, <1>3, <1>5, <1>7

LEMMA OfferBegins == Init => OfferInv
<1> SUFFICES ASSUME Newcomer!Init, scene = "newcomer" PROVE OfferInv
  BY DEF Init, Running, OfferInv
<1>1. /\ now = 1 /\ auth \in {0, 1} /\ purse \in {-1, 1} /\ txs = <<>> /\ pulls = <<>>
      /\ recent = [acct |-> {acct}, plan |-> {plan}, auth |-> {auth}]
      /\ review = Newcomer!NoReview /\ order = Newcomer!Idle /\ checked = Newcomer!NoCheck
  BY DEF Newcomer!Init, Newcomer!NoAccount
<1>2. acct = [kind |-> "absent", terms |-> 0, gen |-> 0, cap |-> 0, start |-> 0, spent |-> 0, until |-> 0]
  BY DEF Newcomer!Init, Newcomer!Absent, Newcomer!Account, Newcomer!None
<1>3. plan = [terms |-> 1, ends |-> 0, sunset |-> FALSE, lists |-> 0]
  BY DEF Newcomer!Init, Newcomer!Offer, Newcomer!None
<1>4. acct \in Accounts /\ plan \in Offers
  <2>1. acct \in Accounts
    BY <1>2 DEF Accounts
  <2>2. plan \in Offers
    BY <1>3 DEF Offers
  <2> QED BY <2>1, <2>2
<1>5. recent \in Nodes /\ recent.acct = {acct} /\ recent.plan = {plan} /\ recent.auth = {auth}
  BY <1>1, <1>4 DEF Nodes
<1>6. txs \in Seq(Sendings) /\ pulls \in Seq(Pulls) /\ DOMAIN txs = {} /\ Len(txs) = 0
  BY <1>1
<1>7. ChainTyped
  BY <1>1, <1>2, <1>4, <1>5, <1>6 DEF ChainTyped, NoAccount
<1>8. /\ now <= OfferTime /\ Len(txs) <= MaxTxs /\ (\A p \in recent.plan : p.terms <= MaxTerms)
  BY <1>1, <1>3, <1>5, <1>6, ProgramBounds, LifecycleBounds
<1>9. Newcomer!NoReview \in Reviews
  BY ProgramBounds DEF Newcomer!NoReview, Reviews, Newcomer!None
<1>10. Newcomer!Idle \in Orders /\ Newcomer!Idle.tx = 0 /\ Newcomer!Idle.step = "idle"
  BY <1>9, CancelBounds DEF Newcomer!Idle, Orders
<1>11. Newcomer!NoCheck \in Checks
  <2>1. Newcomer!NoPlan \in Offers
    BY DEF Newcomer!NoPlan, Newcomer!Offer, Newcomer!None, Offers
  <2>2. Newcomer!Absent \in Accounts
    BY DEF Newcomer!Absent, Newcomer!Account, Newcomer!None, Accounts
  <2> QED BY <2>1, <2>2 DEF Newcomer!NoCheck, Checks
<1>12. ~Exists
  BY <1>2 DEF Exists
<1>13. Newcomer!AgreedTerms /\ CheckedTrue /\ Newcomer!DoneMeansSubscribed
  BY <1>1, <1>10, <1>12 DEF Newcomer!AgreedTerms, CheckedTrue, Newcomer!DoneMeansSubscribed, Newcomer!Exists, Exists
<1> QED BY <1>1, <1>2, <1>5, <1>6, <1>7, <1>8, <1>9, <1>10, <1>11, <1>13 DEF OfferInv

\* What is known of the newcomer's chain and page.
Offering ==
  /\ ChainTyped /\ now <= OfferTime /\ Len(txs) <= MaxTxs
  /\ \A p \in recent.plan : p.terms <= MaxTerms
  /\ \A a \in recent.acct : a.kind # "absent" => Exists
  /\ \A n \in DOMAIN txs : txs[n].op = "subscribe"
  /\ Exists => \E n \in DOMAIN txs : txs[n].op = "subscribe" /\ txs[n].state = "ok" /\ acct.terms = txs[n].terms

\* The page's part: where the order stands.
OrderOk(o, c) ==
  /\ o \in Orders /\ o.tx <= Len(txs) /\ c \in Checks
  /\ o.tx # 0 => txs[o.tx].terms = o.shown.terms /\ txs[o.tx].gen = o.shown.gen
  /\ o.step = "done" => Exists
  /\ o.step \in {"preparing", "signing"} =>
       /\ c.plan.terms = o.shown.terms /\ c.plan.ends = o.shown.ends
       /\ c.plan.lists = o.shown.lists /\ c.auth = o.shown.gen
       /\ ~c.plan.sunset /\ c.acct.kind = "absent"
       /\ c.plan.ends # None => c.plan.ends >= c.at
       /\ c.auth = 0 => purse # NoAccount

LEMMA OfferParts ==
  ASSUME scene = "newcomer"
  PROVE  OfferInv <=> Offering /\ review \in Reviews /\ OrderOk(order, checked)
BY DEF OfferInv, Offering, OrderOk, CheckedTrue, Newcomer!AgreedTerms, Newcomer!DoneMeansSubscribed, Newcomer!Exists,
       Exists

LEMMA ReviewShown ==
  ASSUME Offering, Newcomer!Show
  PROVE  review' \in Reviews
<1>1. PICK view \in Newcomer!PlanViews, clock \in Newcomer!Clocks : review' = Newcomer!Review(view, clock)
  BY DEF Newcomer!Show
<1>2. PICK p \in recent.plan, a \in recent.acct, g \in recent.auth : view = Newcomer!PlanView(p, a, g)
  BY DEF Newcomer!PlanViews
<1>3. clock \in now - 1 .. now + 1
  BY DEF Newcomer!Clocks
<1>4. PICK fresh : fresh = Newcomer!Review(Newcomer!PlanView(p, a, g), clock)
  OBVIOUS
<1>5. fresh \in Reviews
  BY <1>3, <1>4, ReviewTrue DEF Offering
<1> QED BY <1>1, <1>2, <1>4, <1>5

LEMMA OutcomeKeeps ==
  ASSUME OfferInv, scene = "newcomer", NEW step \in {"stopped", "failed", "unconfirmed", "done"},
         step = "done" => Exists, NEW c \in Checks
  PROVE  OrderOk(Newcomer!Outcome(step), c)
<1>1. PICK out : out = Newcomer!Outcome(step)
  OBVIOUS
<1>2. out \in Orders /\ out.step = step /\ out.tx = order.tx /\ (out.tx # 0 => out.shown = order.shown)
  BY <1>1, OrderEnds
<1>3. OrderOk(order, checked)
  BY OfferParts
<1> QED BY <1>1, <1>2, <1>3 DEF OrderOk

LEMMA OrderChecks ==
  ASSUME OfferInv, scene = "newcomer", Newcomer!Check
  PROVE  \E o, c : OrderOk(o, c) /\ order' = o /\ checked' = c
<1>0. Offering /\ OrderOk(order, checked) /\ checked \in Checks /\ Newcomer!NoCheck \in Checks
  BY OfferParts, OrderEnds DEF OrderOk
<1>1. CASE order' = Newcomer!Outcome("failed") /\ checked' = checked
  BY <1>0, <1>1, OutcomeKeeps
<1>2. ASSUME NEW p \in recent.plan, NEW a \in recent.acct, NEW g \in recent.auth, NEW clock \in Newcomer!Clocks,
          order' = Newcomer!Recheck(order.shown, Newcomer!Review(Newcomer!PlanView(p, a, g), clock)),
          checked' = IF order'.step = "preparing" THEN [plan |-> p, acct |-> a, auth |-> g, at |-> now]
                     ELSE Newcomer!NoCheck
      PROVE  \E o, c : OrderOk(o, c) /\ order' = o /\ checked' = c
  <2>1. PICK fresh : fresh = Newcomer!Review(Newcomer!PlanView(p, a, g), clock)
    OBVIOUS
  <2>2. /\ fresh \in Reviews
        /\ fresh.blocked = "none" =>
             /\ fresh.terms = p.terms /\ fresh.gen = g /\ fresh.ends = p.ends /\ fresh.lists = p.lists
             /\ ~p.sunset /\ a.kind = "absent" /\ (p.ends # None => p.ends >= now)
             /\ g = 0 => purse # NoAccount
    BY <1>0, <2>1, ReviewTrue DEF Offering, Newcomer!Clocks
  <2>3. PICK c : c = IF order'.step = "preparing" THEN [plan |-> p, acct |-> a, auth |-> g, at |-> now]
                     ELSE Newcomer!NoCheck
    OBVIOUS
  <2>4. c \in Checks
    <3>1. p \in Offers /\ a \in Accounts /\ g \in Nat /\ now \in Nat
      BY <1>0 DEF Offering, ChainTyped, Nodes
    <3>2. [plan |-> p, acct |-> a, auth |-> g, at |-> now] \in Checks
      BY <3>1 DEF Checks
    <3> QED BY <1>0, <2>3, <3>2
  <2>5. CASE ~(fresh.blocked = "none" /\ order.shown = fresh)
    <3>1. order' = Newcomer!Outcome("stopped")
      BY <1>2, <2>1, <2>5 DEF Newcomer!Recheck, Newcomer!Same
    <3>2. OrderOk(Newcomer!Outcome("stopped"), c)
      BY <2>4, OutcomeKeeps
    <3> QED BY <1>2, <2>3, <3>1, <3>2
  <2>6. CASE fresh.blocked = "none" /\ order.shown = fresh
    <3>1. order' = [order EXCEPT !.step = "preparing"]
      BY <1>2, <2>1, <2>6 DEF Newcomer!Recheck, Newcomer!Same
    <3>2. order' \in Orders /\ order'.step = "preparing" /\ order'.tx = order.tx /\ order'.shown = order.shown
      BY <1>0, <3>1 DEF OrderOk, Orders, Newcomer!Working
    <3>3. c = [plan |-> p, acct |-> a, auth |-> g, at |-> now]
      BY <2>3, <3>2
    <3>4. c.plan = p /\ c.acct = a /\ c.auth = g /\ c.at = now
      BY <3>3
    <3>5. OrderOk(order', c)
      BY <1>0, <2>2, <2>4, <2>6, <3>2, <3>4 DEF OrderOk
    <3> QED BY <1>2, <2>3, <3>5
  <2> QED BY <2>5, <2>6
<1> QED BY <1>1, <1>2 DEF Newcomer!Check

LEMMA OrderMoves ==
  ASSUME OfferInv, scene = "newcomer", Newcomer!Prepare \/ Newcomer!Decline \/ Newcomer!Confirm
  PROVE  \E o, c : OrderOk(o, c) /\ order' = o /\ checked' = c
<1>0. Offering /\ OrderOk(order, checked) /\ checked \in Checks /\ Newcomer!NoCheck \in Checks /\ order \in Orders
  BY OfferParts, OrderEnds DEF OrderOk
<1>1. ASSUME order' = Newcomer!Outcome("failed"), checked' \in {checked, Newcomer!NoCheck}
      PROVE  \E o, c : OrderOk(o, c) /\ order' = o /\ checked' = c
  BY <1>0, <1>1, OutcomeKeeps
<1>2. CASE Newcomer!Prepare
  <2>1. CASE order.step = "preparing" /\ order' = [order EXCEPT !.step = "signing"] /\ checked' = checked
    <3>1. order' \in Orders /\ order'.step = "signing" /\ order'.tx = order.tx /\ order'.shown = order.shown
      BY <1>0, <2>1 DEF Orders, Newcomer!Working
    <3>2. OrderOk(order', checked)
      BY <1>0, <2>1, <3>1 DEF OrderOk
    <3> QED BY <2>1, <3>2
  <2> QED BY <1>1, <1>2, <2>1 DEF Newcomer!Prepare
<1>3. CASE Newcomer!Decline
  BY <1>1, <1>3 DEF Newcomer!Decline
<1>4. CASE Newcomer!Confirm
  <2>1. checked' = checked /\ order.step = "confirming"
    BY <1>4 DEF Newcomer!Confirm
  <2>2. CASE order' = Newcomer!Again
    <3>1. CASE order.attempt + 1 = ConfirmAttempts
      <4>1. order' = Newcomer!Outcome("unconfirmed")
        BY <2>2, <3>1 DEF Newcomer!Again
      <4>2. OrderOk(Newcomer!Outcome("unconfirmed"), checked)
        BY <1>0, OutcomeKeeps
      <4> QED BY <2>1, <4>1, <4>2
    <3>2. CASE order.attempt + 1 # ConfirmAttempts
      <4>1. PICK attempt \in 0 .. ConfirmAttempts - 1 : attempt = order.attempt + 1
        BY <1>0, <3>2, CancelBounds DEF Orders
      <4>2. order' = [order EXCEPT !.attempt = attempt]
        BY <2>2, <3>2, <4>1 DEF Newcomer!Again
      <4>3. order' \in Orders /\ order'.step = order.step /\ order'.tx = order.tx /\ order'.shown = order.shown
        BY <1>0, <4>2 DEF Orders
      <4>4. OrderOk(order', checked)
        BY <1>0, <4>3 DEF OrderOk
      <4> QED BY <2>1, <4>4
    <3> QED BY <3>1, <3>2
  <2>3. ASSUME NEW a \in recent.acct, NEW p \in recent.plan, NEW g \in recent.auth, NEW answer,
            answer = Newcomer!Reconcile("none", Newcomer!ReadAllowance(a, p, g, "current", now)),
            order' = CASE answer.known = "unreadable" -> Newcomer!Outcome("failed")
                       [] answer.known \in {"read", "absent", "notFound"} ->
                            IF Newcomer!Appeared(answer) THEN Newcomer!Outcome("done") ELSE Newcomer!Again
        PROVE  order' \in {Newcomer!Outcome("failed"), Newcomer!Again} \/ (Exists /\ order' = Newcomer!Outcome("done"))
    <3>1. CASE a.kind = "absent"
      <4>1. PICK chain : chain = Newcomer!ReadAllowance(a, p, g, "current", now)
        OBVIOUS
      <4>a. chain.known = "notFound"
        BY <3>1, <4>1 DEF Newcomer!ReadAllowance, Newcomer!NotFound
      <4>b. answer = Newcomer!Reconcile("none", chain)
        BY <2>3, <4>1
      <4>2. answer.known = "notFound"
        BY <4>a, <4>b DEF Newcomer!Reconcile, Newcomer!NotFound
      <4> QED BY <2>3, <4>2 DEF Newcomer!Appeared
    <3>2. CASE a.kind # "absent"
      <4>1. Exists
        BY <1>0, <3>2 DEF Offering
      <4>2. PICK chain : chain = Newcomer!ReadAllowance(a, p, g, "current", now)
        OBVIOUS
      <4>a. chain = Newcomer!Convert(a, p, g, "current", now)
        BY <3>2, <4>2 DEF Newcomer!ReadAllowance
      <4>b. chain.known \in {"read", "unreadable"}
        BY <4>a DEF Newcomer!Convert, Newcomer!Failed, Newcomer!ToAllowance
      <4>c. answer = Newcomer!Reconcile("none", chain)
        BY <2>3, <4>2
      <4>3. answer = chain
        BY <4>b, <4>c DEF Newcomer!Reconcile
      <4> QED BY <2>3, <4>1, <4>b, <4>3 DEF Newcomer!Appeared
    <3> QED BY <3>1, <3>2
  <2>4. \/ order' \in {Newcomer!Outcome("failed"), Newcomer!Again}
        \/ Exists /\ order' = Newcomer!Outcome("done")
    BY <1>4, <2>3 DEF Newcomer!Confirm
  <2>5. CASE Exists /\ order' = Newcomer!Outcome("done")
    <3>1. OrderOk(Newcomer!Outcome("done"), checked)
      BY <1>0, <2>5, OutcomeKeeps
    <3> QED BY <2>1, <2>5, <3>1
  <2> QED BY <1>1, <2>1, <2>2, <2>4, <2>5
<1> QED BY <1>2, <1>3, <1>4

LEMMA OfferSent ==
  ASSUME OfferInv, scene = "newcomer", Newcomer!Sign
  PROVE  Offering' /\ OrderOk(order, checked)'
<1>1. /\ order.step = "signing" /\ Len(txs) < MaxTxs /\ txs' = Append(txs, Newcomer!Signed)
      /\ checked' = Newcomer!NoCheck
      /\ UNCHANGED <<now, acct, plan, auth, purse, recent, pulls>>
  BY DEF Newcomer!Sign
<1>2. PICK step \in {"confirming", "failed"} : order' = [order EXCEPT !.step = step, !.tx = Len(txs) + 1]
  BY DEF Newcomer!Sign
<1>3. Offering /\ OrderOk(order, checked) /\ order \in Orders /\ Newcomer!NoCheck \in Checks
  BY OfferParts, OrderEnds DEF OrderOk
<1>4. PICK op \in {"charge", "misnamed", "close", "cancel", "subscribe", "plan"}, zero \in Nat, terms \in Nat, gen \in Nat :
        op = "subscribe" /\ zero = 0 /\ terms = order.shown.terms /\ gen = order.shown.gen
  <2>1. order.shown.terms \in 0 .. MaxTerms /\ order.shown.gen \in Nat
    BY <1>3 DEF Orders, Reviews
  <2> QED BY <2>1, ProgramBounds
<1>5. PICK tx : tx = Transaction(op, zero, terms, gen)
  OBVIOUS
<1>6. tx \in Sendings /\ tx.op = "subscribe" /\ tx.terms = terms /\ tx.gen = gen
  <2>1. ChainTyped
    BY <1>3 DEF Offering
  <2>2. tx \in Sendings /\ tx.op = op /\ tx.terms = terms /\ tx.gen = gen
    BY <1>5, <2>1, Leaves
  <2> QED BY <1>4, <2>2
<1>7. Newcomer!Signed = tx
  BY <1>4, <1>5 DEF Newcomer!Signed, Newcomer!Transaction, Transaction
<1>8. /\ ChainTyped' /\ Len(txs') = Len(txs) + 1 /\ txs'[Len(txs) + 1] = tx
      /\ \A m \in DOMAIN txs : m \in DOMAIN txs' /\ txs'[m] = txs[m]
      /\ \A m \in DOMAIN txs' : m \in DOMAIN txs \/ m = Len(txs) + 1
  BY <1>1, <1>3, <1>6, <1>7, SendingTyped DEF Offering
<1>9. PICK last \in Nat : last = Len(txs) + 1 /\ last = Len(txs') /\ last <= MaxTxs /\ last # 0
  <2>1. Len(txs) \in Nat /\ MaxTxs \in Nat
    BY <1>3, ProgramBounds DEF Offering, ChainTyped
  <2> QED BY <1>1, <1>8, <2>1
<1>10. \A n \in DOMAIN txs' : txs'[n].op = "subscribe"
  BY <1>3, <1>6, <1>8 DEF Offering
<1>11. Exists' => \E n \in DOMAIN txs' : txs'[n].op = "subscribe" /\ txs'[n].state = "ok" /\ acct'.terms = txs'[n].terms
  <2> SUFFICES ASSUME Exists'
               PROVE  \E n \in DOMAIN txs' : txs'[n].op = "subscribe" /\ txs'[n].state = "ok" /\ acct'.terms = txs'[n].terms
    OBVIOUS
  <2>1. PICK n \in DOMAIN txs : txs[n].op = "subscribe" /\ txs[n].state = "ok" /\ acct.terms = txs[n].terms
    BY <1>1, <1>3 DEF Offering, Exists
  <2>2. n \in DOMAIN txs' /\ txs'[n] = txs[n]
    BY <1>8
  <2> QED BY <1>1, <2>1, <2>2
<1>12. Offering'
  <2>1. UNCHANGED <<now, acct, recent>> /\ Len(txs') <= MaxTxs
    BY <1>1, <1>9
  <2> QED BY <1>3, <1>8, <1>10, <1>11, <2>1 DEF Offering, Exists
<1>13. order' \in Orders /\ order'.step = step /\ order'.tx = last /\ order'.shown = order.shown
  <2>1. order' = [order EXCEPT !.step = step, !.tx = last]
    BY <1>2, <1>9
  <2> QED BY <1>3, <2>1 DEF Orders, Newcomer!Working
<1>14. txs'[last].terms = order'.shown.terms /\ txs'[last].gen = order'.shown.gen
  BY <1>4, <1>6, <1>8, <1>9, <1>13
<1>15. checked' \in Checks /\ order'.tx <= Len(txs')
  BY <1>1, <1>3, <1>9, <1>13
<1>16. order'.step \notin {"done", "preparing", "signing"}
  BY <1>13
<1> QED BY <1>12, <1>13, <1>14, <1>15, <1>16 DEF OrderOk

LEMMA OfferWaits ==
  ASSUME OfferInv, scene = "newcomer", Newcomer!Chain
  PROVE  Offering' /\ OrderOk(order, checked)' /\ review' = review
<1>1. /\ Land \/ Ticks \/ PlanCloses \/ PlanUpdates \/ PlanOpens \/ AuthorityCloses
      /\ now' = now \/ now < OfferTime
      /\ UNCHANGED newVars
  BY SameChain
<1>2. Offering /\ OrderOk(order, checked) /\ order' = order /\ checked' = checked /\ review' = review
  BY <1>1, OfferParts DEF newVars
<1>3. /\ ChainTyped'
      /\ (\E n \in DOMAIN txs : LandsTyped(n)) \/ TimePasses \/ PlanChanges \/ AuthorityGoes
      /\ TimePasses \/ UNCHANGED now
  BY <1>1, <1>2, ChainSteps DEF Offering
<1>4. /\ order \in Orders /\ order.tx \in Nat /\ order.tx <= Len(txs) /\ txs \in Seq(Sendings) /\ now \in Nat /\ OfferTime \in Nat
      /\ acct \in recent.acct /\ plan \in recent.plan /\ MaxTerms \in Nat /\ now <= OfferTime
  BY <1>2, ProgramBounds, LifecycleBounds DEF OrderOk, Orders, Offering, ChainTyped
<1>5. order.tx # 0 => order.tx \in DOMAIN txs
  BY <1>4
<1>6. now' <= OfferTime
  BY <1>1, <1>3, <1>4 DEF TimePasses
<1>7. CASE \E n \in DOMAIN txs : LandsTyped(n)
  <2>1. PICK n \in DOMAIN txs : LandsTyped(n)
    BY <1>7
  <2>2. txs[n].op = "subscribe"
    BY <1>2 DEF Offering
  <2>3. /\ txs' \in Seq(Sendings) /\ Len(txs') = Len(txs) /\ DOMAIN txs' = DOMAIN txs
        /\ \A m \in DOMAIN txs : txs'[m].op = txs[m].op /\ txs'[m].terms = txs[m].terms /\ txs'[m].gen = txs[m].gen
        /\ \A m \in DOMAIN txs : m # n => txs'[m] = txs[m]
        /\ txs[n].state = "flight"
    <3>1. /\ txs' \in Seq(Sendings) /\ Len(txs') = Len(txs)
          /\ \A m \in DOMAIN txs : /\ txs'[m].op = txs[m].op /\ txs'[m].terms = txs[m].terms /\ txs'[m].gen = txs[m].gen
                                   /\ m # n => txs'[m] = txs[m]
          /\ txs[n].state = "flight"
      BY <2>1 DEF LandsTyped, LandsAt, RowsKept
    <3> QED BY <1>4, <3>1
  <2>4. \/ txs'[n].state = "ok" /\ Opens(txs[n])
        \/ Nothing
    BY <2>1, <2>2 DEF LandsTyped, LandsAt, Does
  <2>5. plan' = plan /\ purse' = purse /\ now' = now /\ recent'.acct = recent.acct \cup {acct'} /\ recent'.plan = recent.plan
    BY <1>4, <2>1, <2>4 DEF LandsTyped, LandsAt, Opens, Nothing
  <2>6. Exists => Exists'
    BY <2>4 DEF Opens, Nothing, Exists
  <2>7. \A a \in recent'.acct : a.kind # "absent" => Exists'
    BY <1>2, <2>5, <2>6 DEF Offering, Exists
  <2>8. Exists' => \E m \in DOMAIN txs' : txs'[m].op = "subscribe" /\ txs'[m].state = "ok" /\ acct'.terms = txs'[m].terms
    <3>1. CASE txs'[n].state = "ok" /\ Opens(txs[n])
      BY <2>2, <2>3, <3>1 DEF Opens
    <3>2. CASE Nothing /\ Exists'
      <4>1. Exists /\ acct' = acct
        BY <3>2 DEF Nothing, Exists
      <4>2. PICK m \in DOMAIN txs : txs[m].op = "subscribe" /\ txs[m].state = "ok" /\ acct.terms = txs[m].terms
        BY <1>2, <4>1 DEF Offering
      <4>3. m \in DOMAIN txs' /\ txs'[m] = txs[m]
        BY <2>3, <4>2
      <4> QED BY <4>1, <4>2, <4>3
    <3> QED BY <2>4, <3>1, <3>2
  <2>9. Offering'
    BY <1>2, <1>3, <1>6, <2>3, <2>5, <2>7, <2>8 DEF Offering
  <2>10. OrderOk(order, checked)'
    BY <1>2, <1>5, <2>3, <2>5, <2>6 DEF OrderOk
  <2> QED BY <1>2, <2>9, <2>10
<1>8. CASE TimePasses \/ PlanChanges \/ AuthorityGoes
  <2>1. UNCHANGED <<acct, purse, txs>> /\ recent'.acct \subseteq recent.acct
    BY <1>4, <1>8 DEF TimePasses, PlanChanges, AuthorityGoes
  <2>2. \A p \in recent'.plan : p.terms <= MaxTerms
    <3>1. plan.terms \in Nat /\ \A p \in recent.plan : p.terms <= MaxTerms
      BY <1>2 DEF Offering, ChainTyped, Offers
    <3>2. CASE PlanChanges
      <4>1. plan'.terms <= MaxTerms /\ recent'.plan = recent.plan \cup {plan'}
        BY <1>4, <3>1, <3>2 DEF PlanChanges
      <4> QED BY <3>1, <4>1
    <3>3. CASE TimePasses \/ AuthorityGoes
      <4>1. recent'.plan \subseteq recent.plan
        BY <1>4, <3>3 DEF TimePasses, AuthorityGoes
      <4> QED BY <3>1, <4>1
    <3> QED BY <1>8, <3>2, <3>3
  <2>3. Offering'
    BY <1>2, <1>3, <1>6, <2>1, <2>2 DEF Offering, Exists
  <2>4. OrderOk(order, checked)'
    BY <1>2, <2>1 DEF OrderOk, Exists
  <2> QED BY <1>2, <2>3, <2>4
<1> QED BY <1>3, <1>7, <1>8

LEMMA OfferGoesOn == OfferInv /\ [Next]_vars => OfferInv'
<1> SUFFICES ASSUME OfferInv, [Next]_vars, scene' = "newcomer" PROVE OfferInv'
  BY DEF OfferInv
<1>1. scene = "newcomer"
  BY DEF Next, Chain, Subscriber, Merchant, Subscribes, Rehearsal, vars
<1>2. Offering /\ review \in Reviews /\ OrderOk(order, checked)
  BY <1>1, OfferParts
<1>3. SUFFICES Offering' /\ review' \in Reviews /\ OrderOk(order, checked)'
  BY DEF OfferInv, Offering, OrderOk, CheckedTrue, Newcomer!AgreedTerms, Newcomer!DoneMeansSubscribed,
         Newcomer!Exists, Exists
<1>4. ASSUME UNCHANGED chainVars
      PROVE  Offering' /\ (\A o, c : OrderOk(o, c) /\ order' = o /\ checked' = c => OrderOk(order, checked)')
  <2>1. UNCHANGED <<now, acct, plan, auth, purse, recent, txs, pulls>>
    BY <1>4 DEF chainVars
  <2> QED BY <1>2, <2>1 DEF Offering, ChainTyped, OrderOk, Exists
<1>5. CASE Newcomer!Show
  BY <1>2, <1>4, <1>5, ReviewShown DEF Newcomer!Show, Newcomer!chainVars, chainVars
<1>6. CASE Newcomer!Click
  <2>1. /\ order' = [Newcomer!Idle EXCEPT !.step = "checking", !.shown = review] /\ review' = Newcomer!NoReview
        /\ UNCHANGED chainVars /\ checked' = checked
    BY <1>6 DEF Newcomer!Click, Newcomer!chainVars, chainVars
  <2>2. Newcomer!Idle \in Orders /\ Newcomer!NoReview \in Reviews /\ Newcomer!Idle.tx = 0
    BY <1>1, OrderEnds DEF Newcomer!Idle
  <2>3. order' \in Orders /\ order'.step = "checking" /\ order'.tx = 0
    BY <1>2, <2>1, <2>2 DEF Orders, Newcomer!Working
  <2>4. OrderOk(order', checked)
    BY <1>2, <2>3 DEF OrderOk, Offering, ChainTyped
  <2> QED BY <1>4, <2>1, <2>2, <2>4
<1>7. CASE Newcomer!Check
  BY <1>1, <1>2, <1>4, <1>7, OrderChecks DEF Newcomer!Check, Newcomer!chainVars, chainVars
<1>8. CASE Newcomer!Prepare \/ Newcomer!Decline \/ Newcomer!Confirm
  BY <1>1, <1>2, <1>4, <1>8, OrderMoves
     DEF Newcomer!Prepare, Newcomer!Decline, Newcomer!Confirm, Newcomer!chainVars, chainVars
<1>9. CASE Newcomer!Sign
  BY <1>1, <1>2, <1>9, OfferSent DEF Newcomer!Sign
<1>10. CASE Newcomer!Chain
  BY <1>1, <1>2, <1>10, OfferWaits
<1>11. CASE UNCHANGED vars
  BY <1>2, <1>4, <1>11 DEF vars, newVars
<1>12. Newcomer!Next \/ UNCHANGED vars
  BY <1>1 DEF Next, Chain, Subscriber, Merchant, Subscribes, Rehearsal
<1> QED BY <1>5, <1>6, <1>7, <1>8, <1>9, <1>10, <1>11, <1>12 DEF Newcomer!Next, Newcomer!Subscriber

LEMMA OfferShows == OfferInv => SubscribeHolds
<1> SUFFICES ASSUME OfferInv, scene = "newcomer" PROVE Newcomer!ReviewHolds
  BY DEF SubscribeHolds
<1>1. Offering /\ review \in Reviews /\ OrderOk(order, checked)
  BY OfferParts
<1>2. Newcomer!TypeOK
  <2>1. now \in 1 .. OfferTime /\ Len(txs) <= MaxTxs
    BY <1>1, LifecycleBounds DEF Offering, ChainTyped
  <2>2. review.terms \in 0 .. MaxTerms
    BY <1>1 DEF Reviews
  <2>3. order \in Orders /\ order.tx <= Len(txs)
    BY <1>1 DEF OrderOk
  <2>4. order.tx \in 0 .. Len(txs)
    BY <1>1, <2>3 DEF Orders, Offering, ChainTyped
  <2> QED BY <2>1, <2>2, <2>3, <2>4 DEF Newcomer!TypeOK, Orders
<1>3. Newcomer!AgreedTerms /\ Newcomer!DoneMeansSubscribed
  BY DEF OfferInv
<1>4. Newcomer!ReadyMeansAccepted
  <2> SUFFICES ASSUME order.step = "signing", checked = [plan |-> plan, acct |-> acct, auth |-> auth, at |-> now]
               PROVE  Newcomer!SubscribeRefusals(order.shown.terms, order.shown.gen) = {}
    BY DEF Newcomer!ReadyMeansAccepted
  <2>1. checked.plan = plan /\ checked.acct = acct /\ checked.auth = auth /\ checked.at = now
    OBVIOUS
  <2>2. /\ plan.terms = order.shown.terms /\ auth = order.shown.gen /\ ~plan.sunset /\ acct.kind = "absent"
        /\ plan.ends # None => plan.ends >= now
        /\ auth = 0 => purse # NoAccount
    BY <1>1, <2>1 DEF OrderOk
  <2>3. plan.ends \in Nat /\ now \in Nat
    BY <1>1 DEF Offering, ChainTyped, Offers
  <2>4. ~(plan.ends # None /\ now > plan.ends)
    BY <2>2, <2>3
  <2>5. \A condition, code : ~condition => Newcomer!OneOf(condition, code) = {}
    BY DEF Newcomer!OneOf
  <2> QED BY <2>2, <2>4, <2>5 DEF Newcomer!SubscribeRefusals, Newcomer!Exists, Newcomer!None, None,
                                  Newcomer!NoAccount, NoAccount
<1> QED BY <1>2, <1>3, <1>4 DEF Newcomer!ReviewHolds

\* A newcomer ends up with what their screen showed: an offer found unchanged is one the
\* program takes, and only a subscription that exists is called done (subscribe.tsx).
THEOREM SubscribeIsTrue == Spec => []SubscribeHolds
BY OfferBegins, OfferGoesOn, OfferShows, PTL DEF Spec

\* Where nobody looks at the permission, nothing is shown.
PageRests == scene \notin {"subscriber", "merchant"} => card = NoCard

\* What a card says of later charges is true of all that land: "never", and no renewal
\* after the date it names (revoke.tsx's card over view.ts).
THEOREM CardIsTrue == Spec => []CardHolds
<1>1. Init => PageRests
  BY DEF Init, CancelInit, PageRests
<1>2. PageRests /\ [Next]_vars => PageRests'
  BY DEF PageRests, Next, Chain, Subscriber, Merchant, Subscribes, Rehearsal, vars, cancelVars
<1>3. LifeInv /\ PageRests => CardHolds
  <2> SUFFICES ASSUME LifeInv, PageRests PROVE CardHolds
    OBVIOUS
  <2>1. CASE scene \in {"subscriber", "merchant"}
    BY <2>1 DEF LifeInv, CardTold, DateTold, CardHolds
  <2>2. CASE scene \notin {"subscriber", "merchant"}
    BY <2>2 DEF PageRests, NoCard, CardHolds
  <2> QED BY <2>1, <2>2
<1> QED BY LifeIsKept, <1>1, <1>2, <1>3, PTL DEF Spec

-----------------------------------------------------------------------------
(***************************************************************************)
(* The figures of the confirmation. What they add up to first: sums over   *)
(* the charges, by the least place where they would go wrong.              *)
(***************************************************************************)
\* What holds of 0, and of a number's successor when of the number, holds of them all.
LEMMA Upward ==
  ASSUME NEW S, 0 \in S, \A n \in Nat : n \in S => n + 1 \in S
  PROVE  \A n \in Nat : n \in S
<1> SUFFICES ASSUME Nat \ S # {} PROVE FALSE
  OBVIOUS
<1>1. Nat \ S \subseteq Nat
  OBVIOUS
<1>2. PICK x \in Nat \ S : \A y \in Nat \ S : ~(<<y, x>> \in OpToRel(<, Nat))
  BY <1>1, WFMin, NatLessThanWellFounded, Zenon
<1>3. x \in Nat /\ x # 0
  OBVIOUS
<1>4. PICK y \in Nat : y + 1 = x /\ y < x
  BY <1>3
<1>5. y \in Nat \ S
  BY <1>2, <1>4
<1>6. <<y, x>> \in OpToRel(<, Nat)
  BY <1>3, <1>4, Zenon DEF OpToRel
<1> QED BY <1>2, <1>5, <1>6

\* The sums up to each place.
Sums(amounts, m, s) ==
  s = [n \in 0 .. m |-> IF n = 0 THEN 0 ELSE s[n - 1] + amounts[n]]

LEMMA SumsExist ==
  ASSUME NEW amounts \in Seq(Nat), NEW m \in Nat
  PROVE  m <= Len(amounts) => \E s \in [0 .. m -> Nat] : Sums(amounts, m, s)
<1> DEFINE S == {k \in Nat : k <= Len(amounts) => \E s \in [0 .. k -> Nat] : Sums(amounts, k, s)}
<1>0. Len(amounts) \in Nat /\ \A n \in 1 .. Len(amounts) : amounts[n] \in Nat
  OBVIOUS
<1>1. 0 \in S
  <2>1. PICK s : s = [n \in 0 .. 0 |-> 0]
    OBVIOUS
  <2>2. s \in [0 .. 0 -> Nat] /\ \A n \in 0 .. 0 : n = 0 /\ s[n] = 0
    BY <2>1
  <2>3. Sums(amounts, 0, s)
    BY <2>1, <2>2 DEF Sums
  <2> QED BY <2>2, <2>3
<1>2. ASSUME NEW k \in Nat, k \in S PROVE k + 1 \in S
  <2> SUFFICES ASSUME k + 1 <= Len(amounts)
               PROVE  \E s \in [0 .. k + 1 -> Nat] : Sums(amounts, k + 1, s)
    OBVIOUS
  <2>0. k <= Len(amounts)
    BY <1>0
  <2>1. PICK s \in [0 .. k -> Nat] : Sums(amounts, k, s)
    BY <1>2, <2>0, Zenon
  <2>2. PICK more : more = [n \in 0 .. k + 1 |-> IF n = k + 1 THEN s[k] + amounts[k + 1] ELSE s[n]]
    OBVIOUS
  <2>3. s[k] \in Nat /\ amounts[k + 1] \in Nat
    BY <1>0, <2>1
  <2>4. \A n \in 0 .. k + 1 : n = k + 1 \/ n \in 0 .. k
    OBVIOUS
  <2>5. more \in [0 .. k + 1 -> Nat]
    BY <2>1, <2>2, <2>3, <2>4
  <2>6. ASSUME NEW n \in 0 .. k + 1
        PROVE  more[n] = IF n = 0 THEN 0 ELSE more[n - 1] + amounts[n]
    <3>1. CASE n = k + 1
      <4>1. n - 1 = k /\ k \in 0 .. k + 1 /\ k # k + 1 /\ n # 0
        BY <3>1
      <4> QED BY <2>2, <3>1, <4>1
    <3>2. CASE n \in 0 .. k
      <4>1. n # k + 1 /\ (n # 0 => n - 1 \in 0 .. k /\ n - 1 \in 0 .. k + 1 /\ n - 1 # k + 1)
        BY <3>2
      <4>2. more[n] = s[n] /\ (n # 0 => more[n - 1] = s[n - 1])
        BY <2>2, <4>1
      <4>3. s[n] = IF n = 0 THEN 0 ELSE s[n - 1] + amounts[n]
        BY <2>1, <3>2 DEF Sums
      <4> QED BY <4>2, <4>3
    <3> QED BY <2>4, <3>1, <3>2
  <2>7. Sums(amounts, k + 1, more)
    BY <2>2, <2>6 DEF Sums
  <2> QED BY <2>5, <2>7
<1> HIDE DEF S
<1>3. m \in S
  BY <1>1, <1>2, Upward
<1> QED BY <1>3 DEF S

\* Of the running sums of a sequence, Total is the last.
LEMMA TotalIs ==
  ASSUME NEW amounts \in Seq(Nat)
  PROVE  \E s \in [0 .. Len(amounts) -> Nat] :
           /\ s[0] = 0 /\ \A n \in 1 .. Len(amounts) : s[n] = s[n - 1] + amounts[n]
           /\ Total(amounts) = s[Len(amounts)]
<1> DEFINE s == CHOOSE s : s = [n \in 0 .. Len(amounts) |-> IF n = 0 THEN 0 ELSE s[n - 1] + amounts[n]]
<1>0. Len(amounts) \in Nat
  OBVIOUS
<1>1. PICK t \in [0 .. Len(amounts) -> Nat] :
        t = [n \in 0 .. Len(amounts) |-> IF n = 0 THEN 0 ELSE t[n - 1] + amounts[n]]
  <2>1. PICK len \in Nat : len = Len(amounts)
    BY <1>0
  <2>2. len <= Len(amounts)
    BY <2>1
  <2>3. \E t \in [0 .. len -> Nat] : Sums(amounts, len, t)
    BY <2>1, <2>2, SumsExist, Zenon
  <2> QED BY <2>1, <2>3, Zenon DEF Sums
<1>2. s = [n \in 0 .. Len(amounts) |-> IF n = 0 THEN 0 ELSE s[n - 1] + amounts[n]]
  <2>1. \E r : r = [n \in 0 .. Len(amounts) |-> IF n = 0 THEN 0 ELSE r[n - 1] + amounts[n]]
    BY <1>1, Zenon
  <2> QED BY <2>1, Zenon
<1>3. Total(amounts) = s[Len(amounts)]
  BY Zenon DEF Total
<1> HIDE DEF s
<1>4. /\ \A n \in 0 .. Len(amounts) : s[n] = IF n = 0 THEN 0 ELSE s[n - 1] + amounts[n]
      /\ s[0] = 0 /\ \A n \in 1 .. Len(amounts) : s[n] = s[n - 1] + amounts[n]
  <2>1. \A n \in 0 .. Len(amounts) : s[n] = IF n = 0 THEN 0 ELSE s[n - 1] + amounts[n]
    BY <1>2, Zenon
  <2>2. 0 \in 0 .. Len(amounts) /\ \A n \in 1 .. Len(amounts) : n \in 0 .. Len(amounts) /\ n # 0
    BY <1>0
  <2>3. s[0] = 0
    BY <2>1, <2>2
  <2>4. ASSUME NEW n \in 1 .. Len(amounts) PROVE s[n] = s[n - 1] + amounts[n]
    BY <2>1, <2>2, Zenon
  <2> QED BY <2>1, <2>3, <2>4
<1>5. \A n \in Nat : n <= Len(amounts) => s[n] \in Nat
  <2> DEFINE S == {k \in Nat : k <= Len(amounts) => s[k] \in Nat}
  <2>1. 0 \in S
    BY <1>4
  <2>2. ASSUME NEW k \in Nat, k \in S PROVE k + 1 \in S
    <3> SUFFICES ASSUME k + 1 <= Len(amounts) PROVE s[k + 1] \in Nat
      OBVIOUS
    <3>1. s[k] \in Nat /\ k + 1 \in 1 .. Len(amounts) /\ k + 1 - 1 = k
      BY <1>0, <2>2
    <3>2. s[k + 1] = s[k] + amounts[k + 1]
      BY <1>4, <3>1
    <3>3. amounts[k + 1] \in Nat
      BY <3>1
    <3> QED BY <3>1, <3>2, <3>3
  <2> HIDE DEF S
  <2>3. \A n \in Nat : n \in S
    BY <2>1, <2>2, Upward
  <2> QED BY <2>3 DEF S
<1>6. s \in [0 .. Len(amounts) -> Nat]
  BY <1>0, <1>2, <1>5
<1> QED BY <1>3, <1>4, <1>6

LEMMA TotalNat == ASSUME NEW amounts \in Seq(Nat) PROVE Total(amounts) \in Nat
<1>1. Len(amounts) \in 0 .. Len(amounts)
  OBVIOUS
<1> QED BY <1>1, TotalIs

LEMMA TotalAppend ==
  ASSUME NEW amounts \in Seq(Nat), NEW amount \in Nat
  PROVE  Total(Append(amounts, amount)) = Total(amounts) + amount
<1> DEFINE longer == Append(amounts, amount)
<1>0. /\ Len(amounts) \in Nat /\ longer \in Seq(Nat) /\ Len(longer) = Len(amounts) + 1
      /\ longer[Len(amounts) + 1] = amount /\ \A n \in 1 .. Len(amounts) : longer[n] = amounts[n]
  OBVIOUS
<1>1. PICK s \in [0 .. Len(amounts) -> Nat] :
           /\ s[0] = 0 /\ \A n \in 1 .. Len(amounts) : s[n] = s[n - 1] + amounts[n]
           /\ Total(amounts) = s[Len(amounts)]
  BY TotalIs
<1>2. PICK t \in [0 .. Len(longer) -> Nat] :
           /\ t[0] = 0 /\ \A n \in 1 .. Len(longer) : t[n] = t[n - 1] + longer[n]
           /\ Total(longer) = t[Len(longer)]
  BY <1>0, TotalIs
<1> HIDE DEF longer
<1>3. t[Len(amounts)] = s[Len(amounts)]
  <2> DEFINE S == {k \in Nat : k <= Len(amounts) => t[k] = s[k]}
  <2>1. 0 \in S
    BY <1>1, <1>2
  <2>2. ASSUME NEW k \in Nat, k \in S PROVE k + 1 \in S
    <3> SUFFICES ASSUME k + 1 <= Len(amounts) PROVE t[k + 1] = s[k + 1]
      OBVIOUS
    <3>1. t[k] = s[k] /\ k + 1 \in 1 .. Len(amounts) /\ k + 1 \in 1 .. Len(longer) /\ k + 1 - 1 = k
      BY <1>0, <2>2
    <3>2. s[k + 1] = s[k] + amounts[k + 1] /\ t[k + 1] = t[k] + longer[k + 1]
      BY <1>1, <1>2, <3>1
    <3> QED BY <1>0, <3>1, <3>2
  <2> HIDE DEF S
  <2>3. \A n \in Nat : n \in S
    BY <2>1, <2>2, Upward
  <2>4. Len(amounts) <= Len(amounts)
    BY <1>0
  <2> QED BY <1>0, <2>3, <2>4, Zenon DEF S
<1>4. t[Len(amounts) + 1] = t[Len(amounts)] + amount
  <2>1. PICK last \in 1 .. Len(longer) : last = Len(amounts) + 1 /\ last - 1 = Len(amounts)
    BY <1>0
  <2>2. t[last] = t[last - 1] + longer[last]
    BY <1>2
  <2> QED BY <1>0, <2>1, <2>2
<1> QED BY <1>0, <1>1, <1>2, <1>3, <1>4 DEF longer

LEMMA TotalZero ==
  ASSUME NEW amounts \in Seq(Nat), \A n \in DOMAIN amounts : amounts[n] = 0
  PROVE  Total(amounts) = 0
<1>0. Len(amounts) \in Nat /\ DOMAIN amounts = 1 .. Len(amounts)
  OBVIOUS
<1>1. PICK s \in [0 .. Len(amounts) -> Nat] :
           /\ s[0] = 0 /\ \A n \in 1 .. Len(amounts) : s[n] = s[n - 1] + amounts[n]
           /\ Total(amounts) = s[Len(amounts)]
  BY TotalIs
<1> DEFINE S == {k \in Nat : k <= Len(amounts) => s[k] = 0}
<1>2. 0 \in S
  BY <1>1
<1>3. ASSUME NEW k \in Nat, k \in S PROVE k + 1 \in S
  <2> SUFFICES ASSUME k + 1 <= Len(amounts) PROVE s[k + 1] = 0
    OBVIOUS
  <2>1. s[k] = 0 /\ k + 1 \in 1 .. Len(amounts) /\ k + 1 - 1 = k
    BY <1>0, <1>3
  <2>2. s[k + 1] = s[k] + amounts[k + 1]
    BY <1>1, <2>1
  <2> QED BY <1>0, <2>1, <2>2
<1> HIDE DEF S
<1>4. \A n \in Nat : n \in S
  BY <1>2, <1>3, Upward
<1> QED BY <1>0, <1>1, <1>4 DEF S

\* What each charge counts for.
Counted(from, until, told) ==
  [n \in DOMAIN pulls |-> IF Within(n, from, until, told) THEN pulls[n].amount ELSE 0]

LEMMA ChargesTyped ==
  ASSUME NEW charges \in Seq(Pulls)
  PROVE  /\ DOMAIN charges = 1 .. Len(charges) /\ Len(charges) \in Nat
         /\ \A n \in DOMAIN charges : charges[n].amount \in Nat /\ charges[n].at \in Nat
<1>1. DOMAIN charges = 1 .. Len(charges) /\ Len(charges) \in Nat /\ \A n \in DOMAIN charges : charges[n] \in Pulls
  OBVIOUS
<1> QED BY <1>1 DEF Pulls

LEMMA CountedIs ==
  ASSUME pulls \in Seq(Pulls), NEW from, NEW until, NEW told
  PROVE  /\ Counted(from, until, told) \in Seq(Nat)
         /\ Len(Counted(from, until, told)) = Len(pulls)
         /\ Pulled(from, until, told) = Total(Counted(from, until, told))
<1>1. DOMAIN pulls = 1 .. Len(pulls) /\ Len(pulls) \in Nat /\ \A n \in DOMAIN pulls : pulls[n].amount \in Nat
  BY ChargesTyped
<1>2. \A n \in DOMAIN pulls : (IF Within(n, from, until, told) THEN pulls[n].amount ELSE 0) \in Nat
  BY <1>1
<1>3. Counted(from, until, told) \in [1 .. Len(pulls) -> Nat]
  BY <1>1, <1>2 DEF Counted
<1> QED BY <1>1, <1>3 DEF Pulled, Counted

LEMMA PulledNat ==
  ASSUME pulls \in Seq(Pulls), NEW from, NEW until, NEW told
  PROVE  Pulled(from, until, told) \in Nat
BY CountedIs, TotalNat

LEMMA PulledNone ==
  ASSUME pulls \in Seq(Pulls), NEW from, NEW until, NEW told,
         \A n \in DOMAIN pulls : ~Within(n, from, until, told)
  PROVE  Pulled(from, until, told) = 0
<1>1. \A n \in DOMAIN Counted(from, until, told) : Counted(from, until, told)[n] = 0
  BY DEF Counted
<1> QED BY <1>1, CountedIs, TotalZero

LEMMA PulledSame ==
  ASSUME pulls' = pulls, NEW from, NEW until, NEW told
  PROVE  Pulled(from, until, told)' = Pulled(from, until, told)
BY DEF Pulled, Within

\* A charge adds its amount to every sum it falls in, and nothing to the others.
LEMMA PulledGrows ==
  ASSUME pulls \in Seq(Pulls), now \in Nat, NEW amount \in Nat, pulls' = Append(pulls, [at |-> now, amount |-> amount]),
         NEW from \in Nat, NEW until \in Nat, NEW told \in Nat
  PROVE  Pulled(from, until, told)' =
           Pulled(from, until, told) + IF told <= Len(pulls) /\ from <= now /\ now < until THEN amount ELSE 0
<1> DEFINE more == IF told <= Len(pulls) /\ from <= now /\ now < until THEN amount ELSE 0
<1>1. /\ [at |-> now, amount |-> amount] \in Pulls /\ pulls' \in Seq(Pulls) /\ Len(pulls') = Len(pulls) + 1
      /\ DOMAIN pulls = 1 .. Len(pulls) /\ DOMAIN pulls' = 1 .. Len(pulls) + 1 /\ Len(pulls) \in Nat
      /\ \A n \in 1 .. Len(pulls) : pulls'[n] = pulls[n]
      /\ pulls'[Len(pulls) + 1] = [at |-> now, amount |-> amount]
  BY DEF Pulls
<1>2. more \in Nat
  OBVIOUS
<1>3. Counted(from, until, told)' \in Seq(Nat) /\ Pulled(from, until, told)' = Total(Counted(from, until, told)')
  <2>1. ASSUME NEW n \in DOMAIN pulls' PROVE pulls'[n].amount \in Nat
    BY <1>1, ChargesTyped
  <2>2. \A n \in DOMAIN pulls' : (IF Within(n, from, until, told)' THEN pulls'[n].amount ELSE 0) \in Nat
    BY <2>1
  <2>3. Counted(from, until, told)' \in [1 .. Len(pulls) + 1 -> Nat]
    BY <1>1, <2>2 DEF Counted
  <2>4. Counted(from, until, told)' \in Seq(Nat)
    BY <1>1, <2>3
  <2> QED BY <2>4 DEF Pulled, Counted
<1>4. Counted(from, until, told) \in Seq(Nat) /\ Len(Counted(from, until, told)) = Len(pulls)
  BY CountedIs
<1>5. Counted(from, until, told)' = Append(Counted(from, until, told), more)
  <2>1. PICK last \in DOMAIN pulls' : last = Len(pulls) + 1 /\ pulls'[last] = [at |-> now, amount |-> amount]
    BY <1>1
  <2>2. Counted(from, until, told)'[last] = more
    <3>1. pulls'[last].at = now /\ pulls'[last].amount = amount
      BY <2>1
    <3>2. last > told <=> told <= Len(pulls)
      BY <1>1, <2>1
    <3>3. Within(last, from, until, told)' <=> last > told /\ now >= from /\ now < until
      BY <3>1 DEF Within
    <3>4. Counted(from, until, told)'[last] = IF Within(last, from, until, told)' THEN amount ELSE 0
      BY <3>1 DEF Counted
    <3> QED BY <3>2, <3>3, <3>4
  <2>3. ASSUME NEW n \in 1 .. Len(pulls) PROVE Counted(from, until, told)'[n] = Counted(from, until, told)[n]
    <3>1. n \in DOMAIN pulls /\ n \in DOMAIN pulls' /\ pulls'[n] = pulls[n]
      BY <1>1
    <3> QED BY <3>1 DEF Counted, Within
  <2>4. DOMAIN (Counted(from, until, told)') = 1 .. Len(pulls) + 1
    BY <1>1 DEF Counted
  <2> HIDE DEF more
  <2>5. Append(Counted(from, until, told), more) \in Seq(Nat)
    BY <1>2, <1>4
  <2>6. /\ DOMAIN Append(Counted(from, until, told), more) = 1 .. Len(pulls) + 1
        /\ Append(Counted(from, until, told), more)[Len(pulls) + 1] = more
        /\ \A n \in 1 .. Len(pulls) : Append(Counted(from, until, told), more)[n] = Counted(from, until, told)[n]
    BY <1>1, <1>2, <1>4
  <2>7. \A n \in 1 .. Len(pulls) + 1 : n = Len(pulls) + 1 \/ n \in 1 .. Len(pulls)
    BY <1>1
  <2>8. ASSUME NEW f \in Seq(Nat), NEW g \in Seq(Nat), DOMAIN f = DOMAIN g, \A n \in DOMAIN f : f[n] = g[n]
        PROVE  f = g
    BY <2>8
  <2>9. PICK f \in Seq(Nat), g \in Seq(Nat) : f = Counted(from, until, told)' /\ g = Append(Counted(from, until, told), more)
    BY <1>3, <2>5
  <2>10. DOMAIN f = 1 .. Len(pulls) + 1 /\ DOMAIN g = 1 .. Len(pulls) + 1
    BY <2>4, <2>6, <2>9
  <2>11. ASSUME NEW n \in 1 .. Len(pulls) + 1 PROVE f[n] = g[n]
    <3>1. CASE n = Len(pulls) + 1
      BY <2>1, <2>2, <2>6, <2>9, <3>1
    <3>2. CASE n \in 1 .. Len(pulls)
      BY <2>3, <2>6, <2>9, <3>2
    <3> QED BY <2>7, <3>1, <3>2
  <2>12. f = g
    BY <2>8, <2>10, <2>11
  <2> QED BY <2>9, <2>12
<1>6. Pulled(from, until, told) = Total(Counted(from, until, told))
  BY CountedIs
<1> HIDE DEF more
<1>7. Total(Append(Counted(from, until, told), more)) = Total(Counted(from, until, told)) + more
  BY <1>2, <1>4, TotalAppend
<1> QED BY <1>3, <1>5, <1>6, <1>7 DEF more

-----------------------------------------------------------------------------
\* The periods of a subscription, one after the other from 1 on.
LEMMA GridSteps ==
  ASSUME NEW x \in Nat, NEW y \in Nat, OnGrid(x), OnGrid(y), x < y
  PROVE  x + Period <= y
<1>0. Period \in Nat \ {0}
  BY ProgramBounds
<1>1. PICK k \in Nat, j \in Nat : x = 1 + k * Period /\ y = 1 + j * Period
  BY DEF OnGrid
<1>2. k < j
  <2> SUFFICES ASSUME j <= k PROVE FALSE
    BY <1>1
  <2>1. PICK d \in Nat : k = j + d
    BY <1>1
  <2>2. k * Period = j * Period + d * Period /\ d * Period \in Nat /\ j * Period \in Nat
    BY <1>0, <1>1, <2>1
  <2> QED BY <1>1, <2>2
<1>3. PICK d \in Nat : j = k + 1 + d
  BY <1>1, <1>2
<1>4. j * Period = k * Period + Period + d * Period /\ d * Period \in Nat /\ k * Period \in Nat
  BY <1>0, <1>1, <1>3
<1> QED BY <1>0, <1>1, <1>4

LEMMA GridNext ==
  ASSUME NEW x \in Nat, OnGrid(x), NEW m \in Nat
  PROVE  x + m * Period \in Nat /\ OnGrid(x + m * Period)
<1>0. Period \in Nat \ {0}
  BY ProgramBounds
<1>1. PICK k \in Nat : x = 1 + k * Period
  BY DEF OnGrid
<1>2. (k + m) * Period = k * Period + m * Period /\ k * Period \in Nat /\ m * Period \in Nat /\ (k + m) * Period \in Nat
  BY <1>0, <1>1
<1>3. \A q \in Nat : q <= q * Period
  BY <1>0
<1>4. k + m <= (k + m) * Period
  BY <1>1, <1>3
<1>5. PICK y \in Nat, q \in Nat : y = x + m * Period /\ q = k + m /\ y = 1 + q * Period /\ q <= y
  BY <1>1, <1>2, <1>4
<1> QED BY <1>5 DEF OnGrid

\* The period the clock is in, counted from an earlier one's beginning.
LEMMA PeriodHere ==
  ASSUME NEW start \in Nat, OnGrid(start), NEW time \in Nat, start <= time
  PROVE  \E elapsed \in Nat, from \in Nat :
           /\ elapsed = (time - start) \div Period /\ from = start + elapsed * Period
           /\ OnGrid(from) /\ from <= time /\ time < from + Period
           /\ elapsed = 0 => from = start
           /\ elapsed # 0 => start + Period <= from
<1>0. Period \in Nat \ {0}
  BY ProgramBounds
<1>1. PICK run \in Nat : run = time - start
  OBVIOUS
<1>2. run \div Period \in Nat /\ run = Period * (run \div Period) + (run % Period) /\ run % Period \in 0 .. Period - 1
  BY <1>0
<1>3. PICK elapsed \in Nat : elapsed = run \div Period
  BY <1>2
<1>4. Period * elapsed = elapsed * Period /\ elapsed * Period \in Nat
  BY <1>0
<1>5. PICK from \in Nat : from = start + elapsed * Period
  BY <1>4
<1>6. OnGrid(from)
  BY <1>5, GridNext
<1>7. from <= time /\ time < from + Period
  BY <1>0, <1>1, <1>2, <1>3, <1>4, <1>5
<1>8. elapsed = 0 => from = start
  BY <1>0, <1>5
<1>9. elapsed # 0 => start + Period <= from
  <2> SUFFICES ASSUME elapsed # 0 PROVE Period <= elapsed * Period
    BY <1>0, <1>4, <1>5
  <2>1. PICK m \in Nat : elapsed = m + 1
    OBVIOUS
  <2>2. elapsed * Period = m * Period + Period /\ m * Period \in Nat
    BY <1>0, <2>1
  <2> QED BY <1>0, <2>2
<1> QED BY <1>1, <1>3, <1>5, <1>6, <1>7, <1>8, <1>9

\* Two periods that hold the same instant are the same one.
LEMMA SamePeriod ==
  ASSUME NEW x \in Nat, NEW y \in Nat, NEW time \in Nat, OnGrid(x), OnGrid(y),
         x <= time, time < x + Period, y <= time, time < y + Period
  PROVE  x = y
<1>0. Period \in Nat
  BY ProgramBounds
<1>1. ~(x < y) /\ ~(y < x)
  BY <1>0, GridSteps
<1> QED BY <1>1

-----------------------------------------------------------------------------
(***************************************************************************)
(* What was charged in a period never passes the cap, and the permission   *)
(* counts it.                                                              *)
(***************************************************************************)
\* What is known of the figures, beside what is on the screen.
Charging ==
  /\ \A n \in DOMAIN pulls : pulls[n].at <= now
  /\ \A a \in recent.acct : a.kind = "subscription" => PeriodTrue(a)
  /\ SpentTrue

\* The figures of a version of the permission, for the period the clock is in.
LEMMA PeriodIs ==
  ASSUME ChainTyped, NEW a \in Accounts, OnGrid(a.start), a.start <= now
  PROVE  \E elapsed \in Nat, from \in Nat :
           /\ elapsed = (now - a.start) \div Period /\ from = a.start + elapsed * Period
           /\ OnGrid(from) /\ from <= now /\ now < from + Period
           /\ elapsed = 0 => from = a.start
           /\ elapsed # 0 => a.start + Period <= from
           /\ PeriodTrue(a) <=> /\ a.cap = Cap(1)
                                /\ (IF elapsed = 0 THEN a.spent ELSE 0) <= Pulled(from, from + Period, 0)
                                /\ Pulled(from, from + Period, 0) <= Cap(1)
<1>1. a.start \in Nat /\ now \in Nat
  BY DEF ChainTyped, Accounts
<1>2. PICK elapsed \in Nat, from \in Nat :
           /\ elapsed = (now - a.start) \div Period /\ from = a.start + elapsed * Period
           /\ OnGrid(from) /\ from <= now /\ now < from + Period
           /\ elapsed = 0 => from = a.start
           /\ elapsed # 0 => a.start + Period <= from
  BY <1>1, PeriodHere
<1>3. PeriodTrue(a) <=> /\ a.cap = Cap(1)
                        /\ (IF elapsed = 0 THEN a.spent ELSE 0) <= Pulled(from, from + Period, 0)
                        /\ Pulled(from, from + Period, 0) <= Cap(1)
  BY <1>2 DEF PeriodTrue
<1> QED BY <1>2, <1>3

\* Nothing was charged in a period that begins after the last charge's.
LEMMA LaterEmpty ==
  ASSUME ChainTyped, NEW x \in Nat, NEW from \in Nat, x <= from, \A n \in DOMAIN pulls : pulls[n].at < x
  PROVE  Pulled(from, from + Period, 0) = 0
<1>1. \A n \in DOMAIN pulls : pulls[n].at \in Nat
  BY ChargesTyped DEF ChainTyped
<1>2. \A n \in DOMAIN pulls : ~Within(n, from, from + Period, 0)
  BY <1>1 DEF Within
<1> QED BY <1>2, PulledNone DEF ChainTyped

SpentWell ==
  /\ ChainTyped /\ acct.kind = "subscription" /\ SpentTrue
  /\ OnGrid(acct.start) /\ acct.cap = Cap(1)

LEMMA PeriodOf == SpentWell => PeriodTrue(acct)
<1> SUFFICES ASSUME ChainTyped, acct.kind = "subscription", SpentTrue,
                    OnGrid(acct.start), acct.cap = Cap(1)
             PROVE  PeriodTrue(acct)
  BY DEF SpentWell
<1>1. acct \in Accounts /\ acct.start <= now /\ acct.start \in Nat /\ Period \in Nat \ {0} /\ acct.spent \in Nat
  BY ProgramBounds DEF ChainTyped, Accounts
<1>2. /\ Pulled(acct.start, acct.start + Period, 0) = acct.spent /\ acct.spent <= Cap(1)
      /\ \A n \in DOMAIN pulls : pulls[n].at < acct.start + Period
  BY DEF SpentTrue, Exists
<1>3. PICK elapsed \in Nat, from \in Nat :
           /\ elapsed = 0 => from = acct.start
           /\ elapsed # 0 => acct.start + Period <= from
           /\ PeriodTrue(acct) <=> /\ acct.cap = Cap(1)
                                   /\ (IF elapsed = 0 THEN acct.spent ELSE 0) <= Pulled(from, from + Period, 0)
                                   /\ Pulled(from, from + Period, 0) <= Cap(1)
  BY <1>1, PeriodIs
<1>4. CASE elapsed = 0
  BY <1>1, <1>2, <1>3, <1>4
<1>5. CASE elapsed # 0
  <2>1. PICK x \in Nat : x = acct.start + Period
    BY <1>1
  <2>2. Pulled(from, from + Period, 0) = 0
    BY <1>2, <1>3, <1>5, <2>1, LaterEmpty
  <2>3. 0 <= Cap(1)
    BY DEF Cap
  <2> QED BY <1>3, <1>5, <2>2, <2>3
<1> QED BY <1>4, <1>5

LEMMA PeriodNext == SpentWell' => PeriodTrue(acct)'
BY PeriodOf, PTL

\* A charge that lands fits what the cap leaves of its period.
LEMMA ChargeFits ==
  ASSUME ChainTyped, NEW tx \in Sendings, Takes(tx), acct.kind = "subscription", Charging,
         NEW x \in Nat, OnGrid(x), x <= now, now < x + Period
  PROVE  /\ x = Start /\ acct'.start = x /\ acct'.spent <= Cap(1)
         /\ acct'.spent = Pulled(x, x + Period, 0) + tx.amount
<1>1. /\ acct \in Accounts /\ acct.start <= now /\ acct.start \in Nat /\ Period \in Nat \ {0} /\ acct.spent \in Nat
      /\ now \in Nat /\ tx.amount \in Nat
  BY ProgramBounds DEF ChainTyped, Accounts, Sendings
<1>2. PeriodTrue(acct) /\ OnGrid(acct.start) /\ acct.cap = Cap(1)
  BY DEF Charging, ChainTyped, PeriodTrue
<1>3. PICK elapsed \in Nat, from \in Nat :
           /\ elapsed = (now - acct.start) \div Period /\ from = acct.start + elapsed * Period
           /\ OnGrid(from) /\ from <= now /\ now < from + Period
           /\ elapsed = 0 => from = acct.start
           /\ elapsed # 0 => acct.start + Period <= from
  BY <1>1, <1>2, PeriodHere
<1>4. Elapsed = elapsed /\ Start = from
  BY <1>3 DEF Elapsed, Start
<1>5. x = from
  BY <1>1, <1>3, SamePeriod
<1>6. /\ Pulled(acct.start, acct.start + Period, 0) = acct.spent
      /\ \A n \in DOMAIN pulls : pulls[n].at < acct.start + Period
  BY DEF Charging, SpentTrue, Exists
<1>7. Pulled(x, x + Period, 0) = Spent
  <2>1. CASE elapsed = 0
    BY <1>3, <1>4, <1>5, <1>6, <2>1 DEF Spent
  <2>2. CASE elapsed # 0
    <3>1. PICK end \in Nat : end = acct.start + Period
      BY <1>1
    <3>2. Pulled(x, x + Period, 0) = 0
      BY <1>3, <1>5, <1>6, <2>2, <3>1, LaterEmpty
    <3> QED BY <1>4, <2>2, <3>2 DEF Spent
  <2> QED BY <2>1, <2>2
<1>8. acct'.start = Start /\ acct'.spent = Spent + tx.amount /\ acct'.spent <= Cap(1)
  BY <1>2 DEF Takes
<1> QED BY <1>4, <1>5, <1>7, <1>8

LEMMA GridStays == ASSUME NEW x, OnGrid(x) PROVE OnGrid(x)'
BY DEF OnGrid

\* The chain's figures, over one step.
LEMMA ChargingStays ==
  ASSUME Life, Life', LifeStep, Charging
  PROVE  Charging'
<1>0. /\ ChainTyped /\ ChainTyped' /\ pulls \in Seq(Pulls) /\ now \in Nat /\ recent.acct \subseteq Accounts
      /\ acct \in Accounts /\ acct \in recent.acct /\ Period \in Nat \ {0} /\ Cap(1) = 2 /\ (Cap(1))' = 2
      /\ \A a \in recent.acct : a.start <= now
  BY SMTT(40), ProgramBounds DEF Life, ChainTyped, Nodes, Cap
<1>1. /\ \A n \in DOMAIN pulls : pulls[n].at <= now
      /\ \A a \in recent.acct : a.kind = "subscription" => PeriodTrue(a)
      /\ SpentTrue
  BY DEF Charging
<1>2. \A n \in DOMAIN pulls : pulls[n].at \in Nat
  BY <1>0, ChargesTyped
\* the permission's own figures are as they were, and nothing was charged
<1>3. ASSUME pulls' = pulls, now' = now, acct'.kind = "subscription" => SpentTrue',
             \A a \in recent'.acct : a.kind = "subscription" =>
                \E b \in recent.acct : b.kind = "subscription" /\ a.start = b.start /\ a.spent = b.spent /\ a.cap = b.cap
      PROVE  Charging'
  <2>1. ASSUME NEW a \in recent'.acct, a.kind = "subscription" PROVE PeriodTrue(a)'
    <3>1. PICK b \in recent.acct : b.kind = "subscription" /\ a.start = b.start /\ a.spent = b.spent /\ a.cap = b.cap
      BY <1>3, <2>1
    <3>2. PeriodTrue(b)
      BY <1>1, <3>1
    <3> QED BY <1>3, <3>1, <3>2, PulledSame DEF PeriodTrue, OnGrid, Cap
  <2>2. \A n \in DOMAIN pulls' : pulls'[n].at <= now'
    BY <1>1, <1>3
  <2>3. SpentTrue'
    BY <1>3 DEF SpentTrue
  <2> QED BY <2>1, <2>2, <2>3 DEF Charging
<1>a. \A a \in recent.acct : a.kind # "absent" /\ Exists => a.kind = acct.kind
  BY DEF Life, RecentTrue
<1>4. ASSUME NEW n \in DOMAIN txs, LandsTyped(n) PROVE Charging'
  <2>0. /\ now' = now /\ recent'.acct = recent.acct \cup {acct'} /\ txs[n] \in Sendings
        /\ \/ txs[n].op = "charge" /\ Takes(txs[n])
           \/ Closes(txs[n]) \/ Cancels(txs[n]) \/ MakesPlan(txs[n]) \/ Nothing
    BY <1>4, LandsInLife DEF LandsTyped
  <2>1. CASE Takes(txs[n]) /\ acct.kind = "subscription"
    <3>1. PICK tx \in Sendings : tx = txs[n]
      BY <2>0
    <3>2. /\ Takes(tx) /\ acct'.kind = "subscription" /\ acct'.cap = acct.cap /\ tx.amount \in Nat
          /\ acct'.spent <= acct.cap
          /\ pulls' = Append(pulls, [at |-> now, amount |-> tx.amount])
      BY <2>1, <3>1 DEF Takes, Sendings
    <3>3. PeriodTrue(acct) /\ OnGrid(acct.start) /\ acct.cap = Cap(1)
      BY <1>0, <1>1, <2>1 DEF PeriodTrue
    <3>4. ASSUME NEW x \in Nat, OnGrid(x), x <= now, now < x + Period
          PROVE  /\ Pulled(x, x + Period, 0)' = acct'.spent /\ Pulled(x, x + Period, 0) <= Pulled(x, x + Period, 0)'
                 /\ acct'.start = x /\ acct'.spent <= 2
      <4>1. acct'.start = x /\ acct'.spent = Pulled(x, x + Period, 0) + tx.amount /\ acct'.spent <= 2
        BY <1>0, <2>1, <3>1, <3>2, <3>4, ChargeFits
      <4>2. PICK until \in Nat : until = x + Period
        BY <1>0
      <4>3. Pulled(x, until, 0)' = Pulled(x, until, 0) + IF 0 <= Len(pulls) /\ x <= now /\ now < until THEN tx.amount ELSE 0
        BY <1>0, <3>2, PulledGrows
      <4>4. Len(pulls) \in Nat /\ Pulled(x, until, 0) \in Nat
        BY <1>0, PulledNat
      <4> QED BY <3>2, <3>4, <4>1, <4>2, <4>3, <4>4
    <3>5. PICK from \in Nat : OnGrid(from) /\ from <= now /\ now < from + Period
      BY <1>0, <3>3, PeriodIs
    <3>6. acct'.start = from /\ Pulled(from, from + Period, 0)' = acct'.spent /\ acct'.spent <= 2
      BY <3>4, <3>5
    <3>7. \A m \in DOMAIN pulls' : pulls'[m].at <= now
      <4>1. [at |-> now, amount |-> tx.amount] \in Pulls
        BY <1>0, <3>2 DEF Pulls
      <4>2. ASSUME NEW m \in DOMAIN pulls' PROVE pulls'[m].at <= now
        <5>1. pulls'[m] = [at |-> now, amount |-> tx.amount] \/ (m \in DOMAIN pulls /\ pulls'[m] = pulls[m])
          BY <1>0, <3>2, <4>1
        <5>2. CASE pulls'[m] = [at |-> now, amount |-> tx.amount]
          BY <1>0, <5>2
        <5> QED BY <1>1, <5>1, <5>2
      <4> QED BY <4>2
    <3>8. SpentTrue'
      <4>1. \A m \in DOMAIN pulls' : pulls'[m].at < from + Period
        <5>1. \A m \in DOMAIN pulls' : pulls'[m].at \in Nat
          BY <1>0, ChargesTyped DEF ChainTyped
        <5> QED BY <1>0, <3>5, <3>7, <5>1
      <4>2. Pulled(acct.start, acct.start + Period, 0)' = acct'.spent
        BY <3>6 DEF Pulled, Within
      <4> QED BY <3>2, <3>6, <4>1, <4>2 DEF SpentTrue
    <3>9. PeriodTrue(acct)'
      <4>1. OnGrid(acct.start)' /\ acct'.cap = (Cap(1))'
        BY <1>0, <3>2, <3>3, <3>5, <3>6 DEF OnGrid
      <4>2. SpentWell'
        BY <1>0, <3>2, <3>8, <4>1 DEF SpentWell
      <4> QED BY <4>2, PeriodNext
    <3>10. ASSUME NEW a \in recent.acct, a.kind = "subscription" PROVE PeriodTrue(a)'
      <4>1. a \in Accounts /\ a.start <= now /\ PeriodTrue(a) /\ OnGrid(a.start) /\ a.spent \in Nat
        BY <1>0, <1>1, <3>10 DEF PeriodTrue, Accounts
      <4>2. PICK elapsed \in Nat, x \in Nat :
           /\ elapsed = (now - a.start) \div Period /\ x = a.start + elapsed * Period
           /\ OnGrid(x) /\ x <= now /\ now < x + Period
           /\ PeriodTrue(a) <=> /\ a.cap = Cap(1)
                                /\ (IF elapsed = 0 THEN a.spent ELSE 0) <= Pulled(x, x + Period, 0)
                                /\ Pulled(x, x + Period, 0) <= Cap(1)
        BY <1>0, <4>1, PeriodIs
      <4>3. /\ Pulled(x, x + Period, 0)' = acct'.spent /\ Pulled(x, x + Period, 0) <= Pulled(x, x + Period, 0)'
            /\ acct'.spent <= 2
        BY <3>4, <4>2
      <4>4. Pulled(x, x + Period, 0) \in Nat /\ acct'.spent \in Nat
        BY <1>0, PulledNat DEF ChainTyped, Accounts
      <4>5. (IF elapsed = 0 THEN a.spent ELSE 0) <= Pulled(x, x + Period, 0)' /\ Pulled(x, x + Period, 0)' <= 2
        BY <4>1, <4>2, <4>3, <4>4
      <4>6. OnGrid(a.start)' /\ a.cap = (Cap(1))'
        BY <1>0, <4>1, <4>2 DEF OnGrid
      <4> QED BY <1>0, <2>0, <4>2, <4>5, <4>6 DEF PeriodTrue
    <3> QED BY <2>0, <3>7, <3>8, <3>9, <3>10 DEF Charging
  <2>2. CASE Takes(txs[n]) /\ acct.kind # "subscription"
    <3>1. /\ Exists /\ acct'.kind = acct.kind /\ acct'.kind # "subscription"
          /\ pulls' = Append(pulls, [at |-> now, amount |-> txs[n].amount])
      BY <2>2 DEF Takes
    <3>2. \A a \in recent'.acct : a.kind # "subscription"
      BY <1>a, <2>0, <2>2, <3>1
    <3>3. [at |-> now, amount |-> txs[n].amount] \in Pulls
      BY <1>0, <2>0 DEF Pulls, Sendings
    <3>4. ASSUME NEW m \in DOMAIN pulls' PROVE pulls'[m].at <= now
      <4>1. pulls'[m] = [at |-> now, amount |-> txs[n].amount] \/ (m \in DOMAIN pulls /\ pulls'[m] = pulls[m])
        BY <1>0, <3>1, <3>3
      <4>2. CASE pulls'[m] = [at |-> now, amount |-> txs[n].amount]
        BY <1>0, <4>2
      <4> QED BY <1>1, <4>1, <4>2
    <3> QED BY <2>0, <3>1, <3>2, <3>4 DEF Charging, SpentTrue
  <2>3. CASE Closes(txs[n])
    <3>1. pulls' = pulls /\ acct'.kind = "absent"
      BY <2>3 DEF Closes, Absent, Account
    <3> QED BY <1>3, <2>0, <3>1
  <2>4. CASE Cancels(txs[n]) \/ MakesPlan(txs[n]) \/ Nothing
    <3>1. /\ pulls' = pulls /\ acct'.kind = acct.kind /\ acct'.start = acct.start
          /\ acct'.spent = acct.spent /\ acct'.cap = acct.cap
      BY <2>4 DEF Cancels, MakesPlan, Nothing
    <3>2. SpentTrue'
      BY <1>1, <3>1 DEF SpentTrue, Exists, Pulled, Within
    <3> QED BY <1>0, <1>3, <2>0, <3>1, <3>2
  <2> QED BY <2>0, <2>1, <2>2, <2>3, <2>4
<1>5. CASE TimePasses
  <2>1. now' = now + 1 /\ UNCHANGED <<acct, pulls>> /\ recent'.acct = {acct}
    BY <1>5 DEF TimePasses
  <2>2. SpentTrue'
    BY <1>1, <2>1 DEF SpentTrue, Exists, Pulled, Within
  <2>3. ASSUME acct.kind = "subscription" PROVE PeriodTrue(acct)'
    <3>1. OnGrid(acct.start) /\ acct.cap = Cap(1)
      BY <1>0, <1>1, <2>3 DEF PeriodTrue
    <3>2. SpentWell'
      BY <1>0, <2>1, <2>2, <2>3, <3>1 DEF SpentWell, OnGrid
    <3> QED BY <3>2, PeriodNext
  <2>4. \A a \in recent'.acct : a.kind = "subscription" => PeriodTrue(a)'
    BY <2>1, <2>3 DEF PeriodTrue, OnGrid, Pulled, Within
  <2>5. \A n \in DOMAIN pulls' : pulls'[n].at <= now'
    BY <1>0, <1>1, <1>2, <2>1
  <2> QED BY <2>2, <2>4, <2>5 DEF Charging
<1>6. ASSUME UNCHANGED <<now, acct, pulls>>, recent'.acct = recent.acct PROVE Charging'
  <2>1. SpentTrue'
    BY <1>1, <1>6 DEF SpentTrue, Exists, Pulled, Within
  <2> QED BY <1>0, <1>3, <1>6, <2>1
<1> QED BY <1>4, <1>5, <1>6 DEF LifeStep, PlanChanges, AuthorityGoes, SendsTx, chainVars

-----------------------------------------------------------------------------
(***************************************************************************)
(* The windows that were shown, and the cancellation that was agreed to.   *)
(***************************************************************************)
\* A window that was shown stays true, whatever is charged or cancelled after it.
LEMMA WindowStays ==
  ASSUME Life, LifeStep, Charging, NEW w \in Windows, WindowTrue(w)
  PROVE  WindowTrue(w)'
<1> SUFFICES ASSUME w # NoWindow PROVE WindowTrue(w)'
  BY DEF WindowTrue, NoWindow
<1>0. /\ ChainTyped /\ pulls \in Seq(Pulls) /\ Len(pulls) \in Nat /\ now \in Nat /\ Period \in Nat \ {0} /\ Cap(1) = 2
      /\ acct.kind = "subscription" => PeriodTrue(acct)
  BY ProgramBounds DEF Life, ChainTyped, Cap, Charging
<1>1. /\ Exists => acct.kind = "subscription"
      /\ OnGrid(w.from) /\ w.ends = w.from + Period /\ w.told <= Len(pulls)
      /\ Cap(1) <= w.left + w.charged
      /\ w.charged + Pulled(w.from, w.ends, w.told) <= Pulled(w.from, w.ends, 0)
      /\ Pulled(w.from, w.ends, 0) <= Cap(1)
  BY DEF WindowTrue
<1>2. PICK from \in Nat, ends \in Nat, told \in Nat, charged \in Nat :
        from = w.from /\ ends = w.ends /\ told = w.told /\ charged = w.charged
  BY ProgramBounds, LifecycleBounds DEF Windows, Days
<1>3. /\ ends = from + Period /\ Pulled(from, ends, told) \in Nat /\ Pulled(from, ends, 0) \in Nat
      /\ charged + Pulled(from, ends, told) <= Pulled(from, ends, 0) /\ Pulled(from, ends, 0) <= 2
  BY <1>0, <1>1, <1>2, PulledNat
<1>4. ASSUME /\ Exists' => acct'.kind = "subscription"
             /\ Len(pulls) <= Len(pulls')
             /\ charged + Pulled(from, ends, told)' <= Pulled(from, ends, 0)'
             /\ Pulled(from, ends, 0)' <= 2,
             Len(pulls') \in Nat
      PROVE  WindowTrue(w)'
  <2>1. OnGrid(w.from)' /\ (Cap(1))' = 2 /\ w.told <= Len(pulls')
    BY <1>0, <1>1, <1>2, <1>4 DEF OnGrid, Cap
  <2>2. Pulled(w.from, w.ends, w.told)' = Pulled(from, ends, told)' /\ Pulled(w.from, w.ends, 0)' = Pulled(from, ends, 0)'
    BY <1>2
  <2> QED BY <1>0, <1>1, <1>2, <1>4, <2>1, <2>2 DEF WindowTrue
<1>5. ASSUME pulls' = pulls, Exists' => acct'.kind = "subscription" PROVE WindowTrue(w)'
  <2>1. Pulled(from, ends, told)' = Pulled(from, ends, told) /\ Pulled(from, ends, 0)' = Pulled(from, ends, 0)
    BY <1>5, PulledSame
  <2> QED BY <1>0, <1>3, <1>4, <1>5, <2>1
<1>6. ASSUME NEW n \in DOMAIN txs, LandsTyped(n) PROVE WindowTrue(w)'
  <2>0. /\ txs[n] \in Sendings
        /\ \/ txs[n].op = "charge" /\ Takes(txs[n])
           \/ Closes(txs[n]) \/ Cancels(txs[n]) \/ MakesPlan(txs[n]) \/ Nothing
    BY <1>6, LandsInLife
  <2>1. CASE Takes(txs[n])
    <3>1. PICK tx \in Sendings : tx = txs[n]
      BY <2>0
    <3>2. /\ Takes(tx) /\ Exists /\ acct'.kind = acct.kind /\ tx.amount \in Nat
          /\ pulls' = Append(pulls, [at |-> now, amount |-> tx.amount])
      BY <2>1, <3>1 DEF Takes, Sendings
    <3>3. acct.kind = "subscription" /\ PeriodTrue(acct)
      BY <1>0, <1>1, <3>2
    <3>4. PICK more \in Nat : more = IF from <= now /\ now < ends THEN tx.amount ELSE 0
      BY <3>2
    <3>5. /\ Pulled(from, ends, told)' = Pulled(from, ends, told) + more
          /\ Pulled(from, ends, 0)' = Pulled(from, ends, 0) + more
      <4>1. told <= Len(pulls) /\ 0 <= Len(pulls)
        BY <1>0, <1>1, <1>2
      <4>2. /\ Pulled(from, ends, told)' = Pulled(from, ends, told) + IF told <= Len(pulls) /\ from <= now /\ now < ends THEN tx.amount ELSE 0
            /\ Pulled(from, ends, 0)' = Pulled(from, ends, 0) + IF 0 <= Len(pulls) /\ from <= now /\ now < ends THEN tx.amount ELSE 0
        BY <1>0, <3>2, PulledGrows
      <4> QED BY <3>4, <4>1, <4>2
    <3>6. Pulled(from, ends, 0) + more <= 2
      <4>1. CASE from <= now /\ now < ends
        <5>1. acct'.spent <= Cap(1) /\ acct'.spent = Pulled(from, from + Period, 0) + tx.amount
          BY <1>0, <1>1, <1>2, <1>3, <3>2, <3>3, <4>1, ChargeFits
        <5> QED BY <1>0, <1>3, <3>4, <4>1, <5>1
      <4>2. CASE ~(from <= now /\ now < ends)
        BY <1>3, <3>4, <4>2
      <4> QED BY <4>1, <4>2
    <3>7. Len(pulls') = Len(pulls) + 1
      <4>1. [at |-> now, amount |-> tx.amount] \in Pulls
        BY <1>0, <3>2 DEF Pulls
      <4> QED BY <1>0, <3>2, <4>1
    <3> QED BY SMTT(40), <1>0, <1>3, <1>4, <3>2, <3>3, <3>5, <3>6, <3>7
  <2>2. CASE Closes(txs[n])
    BY <1>5, <2>2 DEF Closes, Absent, Account, Exists
  <2>3. CASE Cancels(txs[n]) \/ MakesPlan(txs[n]) \/ Nothing
    BY <1>1, <1>5, <2>3 DEF Cancels, MakesPlan, Nothing, Exists
  <2> QED BY <2>0, <2>1, <2>2, <2>3
<1>7. ASSUME UNCHANGED <<acct, pulls>> PROVE WindowTrue(w)'
  BY <1>1, <1>5, <1>7 DEF Exists
<1> QED BY <1>6, <1>7 DEF LifeStep, TimePasses, PlanChanges, AuthorityGoes, SendsTx, chainVars

\* What follows from the landing of a cancellation that was agreed to with a window.
StopOf(n, w) ==
  w # NoWindow /\ txs[n].op = "cancel" /\ txs[n].state = "ok" /\ txs[n].at < w.ends =>
    /\ Exists => acct.until # None /\ acct.until <= w.ends
    /\ NoPullsFrom(w.ends, 0)

LEMMA StopIs == StopKept <=> \A n \in DOMAIN txs : flow.tx = n => StopOf(n, flow.window)
BY DEF StopKept, StopOf

LEMMA StopStays ==
  ASSUME Life, LifeStep, Charging, NEW w \in Windows, WindowTrue(w), NEW n \in DOMAIN txs, StopOf(n, w)
  PROVE  StopOf(n, w)'
<1> SUFFICES ASSUME w # NoWindow PROVE StopOf(n, w)'
  BY DEF StopOf, NoWindow
<1>0. /\ ChainTyped /\ pulls \in Seq(Pulls) /\ Len(pulls) \in Nat /\ now \in Nat \ {0} /\ Period \in Nat \ {0}
      /\ txs \in Seq(Sendings) /\ acct.until \in Nat /\ acct.start \in Nat /\ acct.start <= now /\ plan.ends \in Nat
      /\ acct.kind = "subscription" => PeriodTrue(acct)
  <2>1. ChainTyped /\ (acct.kind = "subscription" => PeriodTrue(acct))
    BY DEF Life, ChainTyped, Charging
  <2>2. acct \in Accounts /\ plan \in Offers /\ acct.start <= now /\ now \in Nat \ {0}
    BY <2>1 DEF ChainTyped
  <2>3. acct.until \in Nat /\ acct.start \in Nat /\ plan.ends \in Nat
    BY <2>2 DEF Accounts, Offers
  <2>4. pulls \in Seq(Pulls) /\ Len(pulls) \in Nat /\ txs \in Seq(Sendings)
    BY <2>1 DEF ChainTyped
  <2> QED BY <2>1, <2>2, <2>3, <2>4, ProgramBounds
<1>1. PICK ends \in Nat, from \in Nat : ends = w.ends /\ from = w.from /\ ends = from + Period /\ OnGrid(from)
  BY SMTT(40), ProgramBounds, LifecycleBounds DEF Windows, Days, WindowTrue
<1>2. ASSUME UNCHANGED <<acct, pulls>>, txs'[n] = txs[n] PROVE StopOf(n, w)'
  BY <1>2 DEF StopOf, NoPullsFrom, Exists, NoWindow
<1>3. ASSUME NEW m \in DOMAIN txs, LandsTyped(m), m # n PROVE StopOf(n, w)'
  <2>0. /\ txs'[n] = txs[n] /\ txs[m] \in Sendings
        /\ \/ txs[m].op = "charge" /\ Takes(txs[m])
           \/ Closes(txs[m]) \/ Cancels(txs[m]) \/ MakesPlan(txs[m]) \/ Nothing
    BY <1>3, LandsInLife DEF LandsTyped, LandsAt, RowsKept
  <2>1. SUFFICES ASSUME txs[n].op = "cancel", txs[n].state = "ok", txs[n].at < ends
                 PROVE  (Exists' => acct'.until # None /\ acct'.until <= ends) /\ NoPullsFrom(ends, 0)'
    BY <1>1, <2>0 DEF StopOf, NoPullsFrom
  <2>2. (Exists => acct.until # None /\ acct.until <= ends) /\ NoPullsFrom(ends, 0)
    BY <1>1, <2>1 DEF StopOf
  <2>3. CASE Takes(txs[m])
    <3>1. /\ Exists /\ acct'.until = acct.until /\ now < acct.until
          /\ pulls' = Append(pulls, [at |-> now, amount |-> txs[m].amount])
      BY <2>2, <2>3 DEF Takes
    <3>2. [at |-> now, amount |-> txs[m].amount] \in Pulls /\ now < ends
      <4>1. txs[m].amount \in Nat
        BY <2>0 DEF Sendings
      <4> QED BY <1>0, <2>2, <3>1, <4>1 DEF Pulls
    <3>3. ASSUME NEW k \in DOMAIN pulls', k > 0 PROVE pulls'[k].at < ends
      <4>1. pulls'[k] = [at |-> now, amount |-> txs[m].amount] \/ (k \in DOMAIN pulls /\ pulls'[k] = pulls[k])
        BY <1>0, <3>1, <3>2
      <4>2. CASE pulls'[k] = [at |-> now, amount |-> txs[m].amount]
        BY <3>2, <4>2
      <4> QED BY <2>2, <3>3, <4>1, <4>2 DEF NoPullsFrom
    <3> QED BY <2>2, <3>1, <3>3 DEF NoPullsFrom
  <2>4. CASE Closes(txs[m])
    BY <2>2, <2>4 DEF Closes, Absent, Account, Exists, NoPullsFrom
  <2>5. CASE Cancels(txs[m])
    BY <2>2, <2>5 DEF Cancels
  <2>6. CASE MakesPlan(txs[m]) \/ Nothing
    BY <2>2, <2>6 DEF MakesPlan, Nothing, Exists, NoPullsFrom
  <2> QED BY <2>0, <2>3, <2>4, <2>5, <2>6
<1>4. ASSUME LandsTyped(n) PROVE StopOf(n, w)'
  <2>1. SUFFICES ASSUME txs'[n].op = "cancel", txs'[n].state = "ok", txs'[n].at < ends
                 PROVE  (Exists' => acct'.until # None /\ acct'.until <= ends) /\ NoPullsFrom(ends, 0)'
    BY <1>1 DEF StopOf, NoPullsFrom
  <2>2. txs'[n].at = now /\ txs[n].op = "cancel" /\ Cancels(txs[n])
    BY <1>4, <2>1 DEF LandsTyped, LandsAt, RowsKept, Does
  <2>3. /\ Exists /\ acct'.until = StopDate /\ pulls' = pulls /\ now < ends
    BY <2>1, <2>2 DEF Cancels
  <2>4. \A k \in DOMAIN pulls : pulls[k].at \in Nat /\ pulls[k].at <= now
    BY <1>0, ChargesTyped DEF Charging
  <2>5. NoPullsFrom(ends, 0)'
    BY <1>0, <2>3, <2>4 DEF NoPullsFrom
  <2>6. PeriodTrue(acct) /\ OnGrid(acct.start)
    BY <1>0, <2>3 DEF WindowTrue, PeriodTrue
  <2>7. PICK start \in Nat : start = Start /\ OnGrid(start) /\ start <= now
    BY <1>0, <2>6, PeriodHere DEF Start, Elapsed
  <2>8. start + Period <= ends
    BY <1>0, <1>1, <2>3, <2>7, GridSteps, GridNext
  <2>9. StopDate # 0 /\ StopDate <= ends
    BY <1>0, <2>3, <2>7, <2>8 DEF StopDate, Least, None
  <2> QED BY <2>3, <2>5, <2>9 DEF None
<1>5. ASSUME NEW tx, SendsTx(tx) PROVE StopOf(n, w)'
  <2>1. tx \in Sendings /\ txs' = Append(txs, tx) /\ UNCHANGED <<acct, pulls>>
    BY <1>5 DEF SendsTx
  <2> QED BY <1>0, <1>2, <2>1
<1>6. ASSUME UNCHANGED <<acct, pulls, txs>> PROVE StopOf(n, w)'
  BY <1>2, <1>6
<1> QED BY <1>3, <1>4, <1>5, <1>6 DEF LifeStep, TimePasses, PlanChanges, AuthorityGoes, chainVars

\* A window read from any version of the permission that a node may answer is true.
LEMMA WindowRead ==
  ASSUME Life, Charging, NEW answer \in Answers, answer.known = "read"
  PROVE  WindowTrue(Window(answer))
<1>1. PICK row \in Rows, a \in recent.acct, p \in recent.plan, g \in recent.auth, form \in Forms :
        answer = Reconcile(row, ReadAllowance(a, p, g, form, now))
  BY DEF Answers
<1>2. PICK chain : chain = ReadAllowance(a, p, g, form, now)
  OBVIOUS
<1>3. a.kind # "absent" /\ chain.known = "read"
  <2>1. answer = Reconcile(row, chain)
    BY <1>1, <1>2
  <2>2. chain.known \in {"notFound", "unreadable", "read"}
    BY <1>2 DEF ReadAllowance, NotFound, Convert, Failed, ToAllowance
  <2>3. chain.known # "notFound"
    BY <2>1 DEF Reconcile, NotFound
  <2>4. chain.known # "unreadable"
    BY <2>1 DEF Reconcile
  <2> QED BY <1>2, <2>2, <2>3, <2>4 DEF ReadAllowance, NotFound
<1>4. \E status : chain = [ToAllowance(a, now) EXCEPT !.status = status]
  <2>1. chain = Convert(a, p, g, form, now)
    BY <1>2, <1>3 DEF ReadAllowance
  <2>2. \/ chain = ToAllowance(a, now)
        \/ chain = [ToAllowance(a, now) EXCEPT !.status = "revoked"]
    BY <1>3, <2>1 DEF Convert, Failed
  <2>3. ToAllowance(a, now) = [ToAllowance(a, now) EXCEPT !.status = DeriveStatus(a, now)]
    BY DEF ToAllowance
  <2> QED BY <2>2, <2>3
<1>5. DOMAIN chain = {"known", "kind", "status", "cap", "used", "started", "ends", "at"}
  BY <1>4 DEF ToAllowance
<1>6. answer = chain \/ answer = [chain EXCEPT !.status = "paused"]
  BY <1>1, <1>2, <1>3 DEF Reconcile
<1>7. /\ chain.kind = a.kind /\ chain.cap = a.cap /\ chain.at = now
      /\ chain.used = (IF a.kind = "fixed" THEN 0 ELSE a.spent)
      /\ chain.started = (IF a.kind = "fixed" THEN None ELSE a.start)
  BY <1>4 DEF ToAllowance
<1>8. /\ answer.kind = chain.kind /\ answer.cap = chain.cap /\ answer.at = chain.at
      /\ answer.used = chain.used /\ answer.started = chain.started
  BY <1>5, <1>6
<1>9. SUFFICES ASSUME answer.kind = "subscription", Window(answer) = CancelWindow(answer, now)
               PROVE  WindowTrue(CancelWindow(answer, now))
  BY <1>7, <1>8 DEF Window, WindowTrue
<1>10. a.kind = "subscription" /\ answer.cap = a.cap /\ answer.used = a.spent /\ answer.started = a.start
  BY <1>7, <1>8, <1>9
<1>11. /\ ChainTyped /\ a \in Accounts /\ a.start <= now /\ a.start \in Nat /\ a.spent \in Nat /\ now \in Nat
       /\ pulls \in Seq(Pulls) /\ Len(pulls) \in Nat /\ Period \in Nat \ {0}
       /\ PeriodTrue(a) /\ OnGrid(a.start) /\ (Exists => acct.kind = "subscription")
  <2>1. ChainTyped /\ RecentTrue
    BY DEF Life
  <2>2. a \in Accounts /\ a.start <= now /\ now \in Nat /\ pulls \in Seq(Pulls) /\ Len(pulls) \in Nat
    BY <2>1 DEF ChainTyped, Nodes
  <2>3. PeriodTrue(a) /\ OnGrid(a.start)
    BY <1>10 DEF Charging, PeriodTrue
  <2>4. Exists => acct.kind = "subscription"
    BY <1>10, <2>1 DEF RecentTrue
  <2>5. a.start \in Nat /\ a.spent \in Nat
    BY <2>2 DEF Accounts
  <2> QED BY <2>1, <2>2, <2>3, <2>4, <2>5, ProgramBounds
<1>12. PICK elapsed \in Nat, from \in Nat :
           /\ elapsed = (now - a.start) \div Period /\ from = a.start + elapsed * Period
           /\ OnGrid(from) /\ from <= now /\ now < from + Period
           /\ PeriodTrue(a) <=> /\ a.cap = Cap(1)
                                /\ (IF elapsed = 0 THEN a.spent ELSE 0) <= Pulled(from, from + Period, 0)
                                /\ Pulled(from, from + Period, 0) <= Cap(1)
  BY <1>11, PeriodIs
<1>13. PICK charged \in Nat, ends \in Nat : charged = (IF elapsed = 0 THEN a.spent ELSE 0) /\ ends = from + Period
  BY <1>11
<1>14. PICK left \in Nat : left = (IF a.cap - charged > 0 THEN a.cap - charged ELSE 0) /\ a.cap <= left + charged
  <2>1. a.cap \in Nat
    BY <1>11 DEF Accounts
  <2> QED BY <2>1
<1>15. CancelWindow(answer, now) =
         [ends |-> ends, from |-> from, charged |-> charged, left |-> left, told |-> Len(pulls)]
  <2> DEFINE elapsed1 == (IF now > answer.started THEN now - answer.started ELSE 0) \div Period
             charged1 == IF elapsed1 = 0 THEN answer.used ELSE 0
             left1 == answer.cap - charged1
  <2>1. elapsed1 = elapsed
    <3>1. (IF now > answer.started THEN now - answer.started ELSE 0) = now - a.start
      BY <1>10, <1>11
    <3> QED BY <3>1, <1>12
  <2>2. charged1 = charged
    BY <2>1, <1>10, <1>13
  <2>3. (IF left1 > 0 THEN left1 ELSE 0) = left
    BY <2>2, <1>10, <1>14
  <2>4. answer.started + elapsed1 * Period = from
    BY <2>1, <1>10, <1>12
  <2> HIDE DEF elapsed1
  <2>5. CancelWindow(answer, now) =
          [ends |-> (answer.started + elapsed1 * Period) + Period, from |-> answer.started + elapsed1 * Period,
           charged |-> charged1, left |-> IF left1 > 0 THEN left1 ELSE 0, told |-> Len(pulls)]
    BY DEF CancelWindow, elapsed1
  <2> QED BY <2>2, <2>3, <2>4, <2>5, <1>13
<1>16. PICK w : w = [ends |-> ends, from |-> from, charged |-> charged, left |-> left, told |-> Len(pulls)]
  OBVIOUS
<1>17. Pulled(from, ends, Len(pulls)) = 0 /\ Pulled(from, ends, 0) \in Nat
  <2>1. \A n \in DOMAIN pulls : ~Within(n, from, ends, Len(pulls))
    BY <1>11 DEF Within
  <2> QED BY <1>11, <2>1, PulledNone, PulledNat
<1>18. WindowTrue(w)
  <2>1. w.ends = ends /\ w.from = from /\ w.charged = charged /\ w.left = left /\ w.told = Len(pulls)
    BY <1>16
  <2>2. /\ Cap(1) <= left + charged /\ charged <= Pulled(from, ends, 0) /\ Pulled(from, ends, 0) <= Cap(1)
    BY <1>11, <1>12, <1>13, <1>14
  <2>3. charged + Pulled(from, ends, Len(pulls)) <= Pulled(from, ends, 0)
    BY <1>17, <2>2
  <2>4. Len(pulls) <= Len(pulls)
    BY <1>11
  <2> QED BY <1>11, <1>12, <1>13, <2>1, <2>2, <2>3, <2>4 DEF WindowTrue
<1> QED BY <1>15, <1>16, <1>18

\* What a cancellation was agreed to with goes with it from step to step.
LEMMA FlowKeeps ==
  ASSUME Life, CancelTyped, Check \/ Prepare \/ Decline \/ Confirm
  PROVE  flow'.window \in {NoWindow, flow.window} /\ flow'.tx = flow.tx
<1>1. ASSUME NEW step PROVE Outcome(step).window \in {NoWindow, flow.window} /\ Outcome(step).tx = flow.tx
  BY DEF Outcome, Idle
<1>2. ASSUME NEW ends PROVE Scheduled(ends).window \in {NoWindow, flow.window} /\ Scheduled(ends).tx = flow.tx
  BY DEF Scheduled, Outcome, Idle
<1>3. flow \in Flows
  BY DEF CancelTyped
<1>4. \A answer \in Answers : answer.known \in {"notFound", "absent", "unreadable", "read"}
  BY Told DEF AnswerTrue
<1>5. CASE Check
  <2>1. CASE flow' = Outcome("failed")
    BY <1>1, <2>1
  <2>2. ASSUME NEW answer \in Answers, NEW clock \in Clocks,
          flow' =
            CASE GoneFrom(answer) -> Outcome("gone")
              [] answer.known = "unreadable" -> Outcome("failed")
              [] answer.known = "read" ->
                   IF RevokeAction(answer, clock) = "wait"
                   THEN Scheduled(answer.ends)
                   ELSE [flow EXCEPT !.step = "preparing", !.kind = answer.kind,
                           !.ends = answer.ends, !.action = RevokeAction(answer, clock)]
        PROVE  flow'.window \in {NoWindow, flow.window} /\ flow'.tx = flow.tx
    <3>1. CASE GoneFrom(answer)
      <4>1. flow' = Outcome("gone")
        BY <2>2, <3>1 DEF GoneFrom
      <4> QED BY <1>1, <4>1
    <3>2. CASE answer.known = "unreadable"
      <4>1. flow' = Outcome("failed")
        BY <2>2, <3>2 DEF GoneFrom
      <4> QED BY <1>1, <4>1
    <3>3. CASE answer.known = "read"
      <4>1. \/ flow' = Scheduled(answer.ends)
            \/ flow' = [flow EXCEPT !.step = "preparing", !.kind = answer.kind,
                           !.ends = answer.ends, !.action = RevokeAction(answer, clock)]
        BY <2>2, <3>3 DEF GoneFrom
      <4> QED BY <1>2, <1>3, <4>1 DEF Flows
    <3> QED BY <1>4, <3>1, <3>2, <3>3 DEF GoneFrom
  <2> QED BY <1>5, <2>1, <2>2 DEF Check
<1>6. CASE Prepare
  <2>1. flow' = Outcome("failed") \/ flow' = [flow EXCEPT !.step = "signing", !.ends = None]
    BY <1>6 DEF Prepare
  <2> QED BY <1>1, <1>3, <2>1 DEF Flows
<1>7. CASE Decline
  BY <1>1, <1>7 DEF Decline
<1>8. CASE Confirm
  <2>1. Again.window \in {NoWindow, flow.window} /\ Again.tx = flow.tx
    BY <1>1, <1>3 DEF Again, Flows
  <2>2. CASE flow' = Outcome("failed")
    BY <1>1, <2>2
  <2>3. ASSUME NEW answer \in Answers,
          flow' =
            CASE GoneFrom(answer) -> Outcome("done")
              [] answer.known = "unreadable" -> Outcome("failed")
              [] answer.known = "read" ->
                   IF flow.action = "cancel" /\ answer.ends # None
                   THEN Scheduled(answer.ends) ELSE Again
        PROVE  flow'.window \in {NoWindow, flow.window} /\ flow'.tx = flow.tx
    <3>1. CASE GoneFrom(answer)
      <4>1. flow' = Outcome("done")
        BY <2>3, <3>1 DEF GoneFrom
      <4> QED BY <1>1, <4>1
    <3>2. CASE answer.known = "unreadable"
      <4>1. flow' = Outcome("failed")
        BY <2>3, <3>2 DEF GoneFrom
      <4> QED BY <1>1, <4>1
    <3>3. CASE answer.known = "read"
      <4>1. flow' = Scheduled(answer.ends) \/ flow' = Again
        BY <2>3, <3>3 DEF GoneFrom
      <4> QED BY <1>2, <2>1, <4>1
    <3> QED BY <1>4, <3>1, <3>2, <3>3 DEF GoneFrom
  <2> QED BY <1>8, <2>2, <2>3 DEF Confirm
<1> QED BY <1>5, <1>6, <1>7, <1>8

Figures == Charging /\ WindowTrue(card.window) /\ WindowTrue(flow.window) /\ StopKept

LEMMA FiguresAre ==
  FigureInv <=> IF scene \in {"subscriber", "merchant"} THEN Figures ELSE card = NoCard /\ flow = Idle
BY DEF FigureInv, Figures, Charging

LEMMA NoneShown == WindowTrue(NoWindow) /\ WindowTrue(NoWindow)'
BY DEF WindowTrue, NoWindow

\* The page and the chain under it, when what is on the page stays.
LEMMA PageStays ==
  ASSUME Life, Life', LifeStep, CancelTyped, Figures, UNCHANGED cancelVars
  PROVE  Figures'
<1>1. card' = card /\ flow' = flow /\ card.window \in Windows /\ flow.window \in Windows
  BY DEF cancelVars, CancelTyped, Cards, Flows
<1>2. Charging /\ WindowTrue(card.window) /\ WindowTrue(flow.window) /\ StopKept
  BY DEF Figures
<1>3. PICK w \in Windows, v \in Windows : w = card.window /\ v = flow.window
  BY <1>1
<1>4. WindowTrue(w)' /\ WindowTrue(v)'
  BY <1>2, <1>3, WindowStays
<1>5. WindowTrue(card.window)' /\ WindowTrue(flow.window)'
  BY <1>1, <1>3, <1>4 DEF WindowTrue, Pulled, Within
<1>6. StopKept'
  <2>1. ASSUME NEW n \in DOMAIN txs', flow.tx = n PROVE StopOf(n, v)'
    <3>1. CASE n \in DOMAIN txs
      <4>1. StopOf(n, v)
        BY <1>2, <1>3, <2>1, <3>1, StopIs
      <4> QED BY <1>2, <1>3, <3>1, <4>1, StopStays
    <3>2. CASE n \notin DOMAIN txs
      <4>1. n \in Nat /\ n > Len(txs)
        BY <3>2 DEF Life, ChainTyped
      <4> QED BY <2>1, <4>1 DEF CancelTyped, Life, ChainTyped
    <3> QED BY <3>1, <3>2
  <2> QED BY <1>1, <1>3, <2>1 DEF StopKept, StopOf
<1>7. Charging'
  BY <1>2, ChargingStays
<1> QED BY <1>5, <1>6, <1>7 DEF Figures

-----------------------------------------------------------------------------
LEMMA SameFigures ==
  ASSUME Charging, UNCHANGED chainVars
  PROVE  /\ Charging' /\ \A w : WindowTrue(w) => WindowTrue(w)'
         /\ \A n, w : StopOf(n, w) => StopOf(n, w)'
<1>1. UNCHANGED <<now, acct, recent, pulls, txs>>
  BY DEF chainVars
<1>2. Charging'
  <2>1. \A a \in recent'.acct : a.kind = "subscription" => PeriodTrue(a)'
    BY <1>1 DEF Charging, PeriodTrue, OnGrid, Cap, Pulled, Within
  <2>2. SpentTrue'
    BY <1>1 DEF Charging, SpentTrue, Exists, Pulled, Within
  <2> QED BY <1>1, <2>1, <2>2 DEF Charging
<1>3. ASSUME NEW w, WindowTrue(w) PROVE WindowTrue(w)'
  BY <1>1, <1>3 DEF WindowTrue, Exists, OnGrid, Cap, Pulled, Within, NoWindow
<1>4. ASSUME NEW n, NEW w, StopOf(n, w) PROVE StopOf(n, w)'
  BY <1>1, <1>4 DEF StopOf, Exists, NoPullsFrom, NoWindow
<1> QED BY <1>2, <1>3, <1>4

LEMMA PersonSees ==
  ASSUME Life, CancelTyped, Figures, Show \/ Click \/ Check \/ Prepare \/ Decline \/ Confirm
  PROVE  Figures'
<1>1. Charging /\ WindowTrue(card.window) /\ WindowTrue(flow.window) /\ StopKept
  BY DEF Figures
<1>2. UNCHANGED chainVars
  BY DEF Show, Click, Check, Prepare, Decline, Confirm
<1>3. /\ Charging' /\ \A w : WindowTrue(w) => WindowTrue(w)'
      /\ \A n, w : StopOf(n, w) => StopOf(n, w)'
  BY <1>1, <1>2, SameFigures
<1>4. txs' = txs
  BY <1>2 DEF chainVars
<1>5. ASSUME NEW w, WindowTrue(w)', card'.window = w PROVE WindowTrue(card.window)'
  BY <1>5 DEF WindowTrue
<1>6. ASSUME NEW v, WindowTrue(v)', flow'.window = v PROVE WindowTrue(flow.window)'
  BY <1>6 DEF WindowTrue
<1>7. CASE Show
  <2>1. PICK answer \in Answers : card' = Card(answer)
    BY <1>7 DEF Show
  <2>2. WindowTrue(Card(answer).window)
    <3>1. CASE answer.known = "read"
      <4>1. Card(answer).window = Window(answer)
        BY <3>1 DEF Card
      <4> QED BY <1>1, <3>1, <4>1, WindowRead
    <3>2. CASE answer.known # "read"
      <4>1. answer.known \in {"notFound", "absent", "unreadable"}
        BY <3>2, Told DEF AnswerTrue
      <4>2. Card(answer).window = NoWindow
        BY <4>1 DEF Card, NoCard
      <4> QED BY <4>2, NoneShown
    <3> QED BY <3>1, <3>2
  <2>3. PICK w : w = Card(answer).window
    OBVIOUS
  <2>4. WindowTrue(w)' /\ card'.window = w
    BY <1>3, <2>1, <2>2, <2>3
  <2>5. PICK v : v = flow.window
    OBVIOUS
  <2>6. WindowTrue(v)' /\ flow' = flow /\ flow'.window = v
    BY <1>1, <1>3, <1>7, <2>5 DEF Show
  <2>7. StopKept'
    <3>1. \A n \in DOMAIN txs : flow.tx = n => StopOf(n, v)'
      BY <1>1, <1>3, <2>5, StopIs
    <3> QED BY <1>4, <2>5, <2>6, <3>1 DEF StopKept, StopOf
  <2> QED BY <1>3, <1>5, <1>6, <2>4, <2>6, <2>7 DEF Figures
<1>8. CASE Click
  <2>1. flow' = [Idle EXCEPT !.step = "checking", !.window = card.window] /\ card' = NoCard
    BY <1>8 DEF Click
  <2>2. PICK v : v = card.window
    OBVIOUS
  <2>3. flow'.window = v /\ flow'.tx = 0 /\ card'.window = NoWindow /\ WindowTrue(v)'
    BY <1>1, <1>3, <2>1, <2>2 DEF Idle, NoCard
  <2>4. PICK w : w = NoWindow
    OBVIOUS
  <2>5. WindowTrue(w)' /\ card'.window = w
    BY <2>3, <2>4, NoneShown DEF WindowTrue, NoWindow
  <2>6. StopKept'
    <3>1. \A n \in DOMAIN txs' : n # 0
      BY <1>4 DEF Life, ChainTyped
    <3> QED BY <2>3, <3>1 DEF StopKept
  <2> QED BY <1>3, <1>5, <1>6, <2>3, <2>5, <2>6 DEF Figures
<1>9. CASE Check \/ Prepare \/ Decline \/ Confirm
  <2>1. flow'.window \in {NoWindow, flow.window} /\ flow'.tx = flow.tx /\ card' = card
    BY <1>9, FlowKeeps DEF Check, Prepare, Decline, Confirm
  <2>2. PICK w, v : w = card.window /\ v = flow'.window
    OBVIOUS
  <2>3. WindowTrue(v)
    BY <1>1, <2>1, <2>2, NoneShown
  <2>4. WindowTrue(v)' /\ flow'.window = v
    BY <1>3, <2>2, <2>3
  <2>5. WindowTrue(w)' /\ card'.window = w
    BY <1>1, <1>3, <2>1, <2>2
  <2>6. StopKept'
    <3>1. ASSUME NEW n \in DOMAIN txs, flow.tx = n PROVE StopOf(n, v)'
      <4>1. StopOf(n, flow.window)
        BY <1>1, <3>1, StopIs
      <4>2. StopOf(n, NoWindow)
        BY DEF StopOf
      <4> QED BY <1>3, <2>1, <2>2, <4>1, <4>2
    <3> QED BY <1>4, <2>1, <2>2, <3>1 DEF StopKept, StopOf
  <2> QED BY <1>3, <1>5, <1>6, <2>4, <2>5, <2>6 DEF Figures
<1> QED BY <1>7, <1>8, <1>9

LEMMA SignSees ==
  ASSUME Life, CancelTyped, Figures, Sign
  PROVE  Figures'
<1>1. Charging /\ WindowTrue(card.window) /\ WindowTrue(flow.window) /\ StopKept
  BY DEF Figures
<1>2. PICK step \in {"confirming", "failed"} :
        /\ flow' = [flow EXCEPT !.step = step, !.tx = Len(txs) + 1]
        /\ txs' = Append(txs, Transaction(flow.action, 0, 0, 0)) /\ card' = card
        /\ UNCHANGED <<now, acct, plan, auth, purse, payee, recent, pulls>>
  BY DEF Sign
<1>3. flow'.window = flow.window /\ flow'.tx = Len(txs) + 1
  BY <1>2 DEF CancelTyped, Flows
<1>4. Charging'
  <2>1. \A a \in recent'.acct : a.kind = "subscription" => PeriodTrue(a)'
    BY <1>1, <1>2 DEF Charging, PeriodTrue, OnGrid, Cap, Pulled, Within
  <2>2. SpentTrue'
    BY <1>1, <1>2 DEF Charging, SpentTrue, Exists, Pulled, Within
  <2> QED BY <1>1, <1>2, <2>1, <2>2 DEF Charging
<1>5. WindowTrue(card.window)' /\ WindowTrue(flow.window)'
  BY <1>1, <1>2, <1>3 DEF WindowTrue, Exists, OnGrid, Cap, Pulled, Within, NoWindow
<1>6. StopKept'
  <2>1. txs' = Append(txs, Transaction(flow.action, 0, 0, 0)) /\ txs \in Seq(Sendings)
    BY <1>2 DEF Life, ChainTyped
  <2>2. PICK tx : tx = Transaction(flow.action, 0, 0, 0)
    OBVIOUS
  <2>3. txs'[Len(txs) + 1] = tx
    BY <2>1, <2>2
  <2>4. tx.state = "flight"
    BY <2>2 DEF Transaction
  <2> QED BY <1>3, <2>3, <2>4 DEF StopKept
<1> QED BY <1>4, <1>5, <1>6 DEF Figures

LEMMA FiguresBegin == Init => FigureInv
<1> SUFFICES ASSUME Init PROVE FigureInv
  OBVIOUS
<1>1. card = NoCard /\ flow = Idle /\ NoCard.window = NoWindow /\ Idle.window = NoWindow /\ Idle.tx = 0
  BY DEF Init, CancelInit, NoCard, Idle
<1>2. CASE scene \notin {"subscriber", "merchant"}
  BY <1>1, <1>2, FiguresAre
<1>3. CASE scene \in {"subscriber", "merchant"}
  <2>0. Running
    BY <1>3 DEF Init
  <2>1. /\ now = 1 /\ pulls = <<>> /\ txs = <<>>
        /\ recent = [acct |-> {acct}, plan |-> {plan}, auth |-> {auth}]
    BY <2>0 DEF Running
  <2>2. PICK kind \in Kinds, until \in {None, 1 + Period} : acct = [Account(kind, 1, 1, Cap(1), 1) EXCEPT !.until = until]
    BY <2>0 DEF Running, Permissions
  <2>3. acct.start = 1 /\ acct.spent = 0 /\ acct.cap = 2 /\ Cap(1) = 2 /\ recent.acct = {acct}
    BY <2>1, <2>2 DEF Account, Cap
  <2>4. OnGrid(acct.start)
    <3>1. PICK zero \in Nat, one \in Nat : zero = 0 /\ one = 1 /\ one = 1 + zero * Period /\ zero \in 0 .. one
      BY ProgramBounds
    <3> QED BY <2>3, <3>1 DEF OnGrid
  <2>5. ChainTyped
    BY <1>3, LifeBegins DEF LifeInv
  <2>6. pulls \in Seq(Pulls) /\ DOMAIN pulls = {}
    BY <2>1
  <2>7. SpentTrue
    <3>1. Pulled(acct.start, acct.start + Period, 0) = 0
      BY <2>6, PulledNone
    <3> QED BY <2>3, <2>6, <3>1 DEF SpentTrue
  <2>8. acct.kind = "subscription" => PeriodTrue(acct)
    BY <2>3, <2>4, <2>5, <2>7, PeriodOf DEF SpentWell
  <2>9. Charging
    BY <2>3, <2>6, <2>7, <2>8 DEF Charging
  <2>10. StopKept
    BY <2>1 DEF StopKept
  <2> QED BY <1>1, <1>3, <2>9, <2>10, NoneShown, FiguresAre DEF Figures
<1> QED BY <1>2, <1>3

LEMMA FiguresGoOn == LifeInv /\ LifeInv' /\ FigureInv /\ [Next]_vars => FigureInv'
<1> SUFFICES ASSUME LifeInv, LifeInv', FigureInv, [Next]_vars PROVE FigureInv'
  OBVIOUS
<1>1. scene' = scene
  BY DEF Next, Chain, Subscriber, Merchant, Subscribes, Rehearsal, vars
<1>2. CASE scene \notin {"subscriber", "merchant"}
  <2>1. UNCHANGED cancelVars
    BY <1>2 DEF Next, Chain, Subscriber, Merchant, Subscribes, Rehearsal, vars
  <2> QED BY <1>1, <1>2, <2>1 DEF FigureInv, cancelVars
<1>3. CASE scene \in {"subscriber", "merchant"}
  <2>0. Life /\ CancelTyped /\ Life' /\ Figures
    BY <1>1, <1>3, FiguresAre DEF LifeInv, Life
  <2>1. SUFFICES Figures'
    BY <1>1, <1>3 DEF FigureInv, Figures, Charging
  <2>2. ASSUME UNCHANGED chainVars, UNCHANGED cancelVars PROVE Figures'
    BY <2>0, <2>2, PageStays DEF LifeStep
  <2>3. ASSUME NEW tx, SendsTx(tx), UNCHANGED cancelVars PROVE Figures'
    BY <2>0, <2>3, PageStays DEF LifeStep
  <2>4. CASE Chain
    BY <2>0, <2>4, ChainStays, PageStays DEF Chain
  <2>5. CASE Subscriber
    <3>1. CASE Show \/ Click \/ Check \/ Prepare \/ Decline \/ Confirm
      BY <2>0, <3>1, PersonSees
    <3>2. CASE Sign
      BY <2>0, <3>2, SignSees
    <3>3. CASE Charges /\ UNCHANGED cancelVars
      BY <2>0, <2>3, <3>3, OthersCharge DEF Life
    <3> QED BY <2>5, <3>1, <3>2, <3>3 DEF Subscriber, CancelStep
  <2>6. CASE Merchant
    <3>1. UNCHANGED cancelVars
      BY <2>6 DEF Merchant
    <3>2. UNCHANGED chainVars \/ \E tx : SendsTx(tx)
      BY <1>3, <2>0, <2>6, ToolBegins, SimSends, SimPolls DEF Merchant, LifeInv, Life
    <3> QED BY <2>2, <2>3, <3>1, <3>2
  <2>7. CASE UNCHANGED vars
    <3>1. UNCHANGED chainVars /\ UNCHANGED cancelVars
      BY <2>7 DEF vars
    <3> QED BY <2>2, <3>1
  <2> QED BY <1>3, <2>4, <2>5, <2>6, <2>7 DEF Next, Subscribes, Rehearsal
<1> QED BY <1>2, <1>3

LEMMA AgreedIs ==
  ASSUME ChainTyped, NEW w \in Windows, WindowTrue(w), w # NoWindow
  PROVE  Agreed(w)
<1>1. /\ Cap(1) <= w.left + w.charged
      /\ w.charged + Pulled(w.from, w.ends, w.told) <= Pulled(w.from, w.ends, 0)
      /\ Pulled(w.from, w.ends, 0) <= Cap(1)
  BY DEF WindowTrue
<1>2. /\ Pulled(w.from, w.ends, w.told) \in Nat /\ Pulled(w.from, w.ends, 0) \in Nat /\ Cap(1) \in Nat
      /\ w.left \in Nat /\ w.charged \in Nat
  <2>1. w.left \in Nat /\ w.charged \in Nat
    BY ProgramBounds, LifecycleBounds DEF Windows, Cap
  <2> QED BY <2>1, PulledNat DEF ChainTyped, Cap
<1> QED BY <1>1, <1>2 DEF Agreed

LEMMA WindowsHold == LifeInv /\ FigureInv => WindowHolds
<1> SUFFICES ASSUME LifeInv, FigureInv PROVE WindowHolds
  OBVIOUS
<1>1. CASE scene \notin {"subscriber", "merchant"}
  <2>1. card.window = NoWindow /\ flow.window = NoWindow
    BY <1>1 DEF FigureInv, NoCard, Idle
  <2> QED BY <2>1 DEF WindowHolds
<1>2. CASE scene \in {"subscriber", "merchant"}
  <2>1. ChainTyped /\ CancelTyped /\ Figures
    BY <1>2, FiguresAre DEF LifeInv
  <2>2. card.window \in Windows /\ flow.window \in Windows
    BY <2>1 DEF CancelTyped, Cards, Flows
  <2>3. card.window # NoWindow => Agreed(card.window)
    BY <2>1, <2>2, AgreedIs DEF Figures
  <2>4. flow.window # NoWindow => Agreed(flow.window)
    BY <2>1, <2>2, AgreedIs DEF Figures
  <2> QED BY <2>1, <2>3, <2>4 DEF WindowHolds, Figures, StopKept
<1> QED BY <1>1, <1>2

\* No figure or date on the screen is less than what the merchant may still take: the card's,
\* the confirmation's (view.ts, cancelWindow), and the stop date once a cancellation landed.
THEOREM FiguresAreTrue == Spec => []FiguresHold
<1>1. LifeInv /\ FigureInv /\ CardHolds => FiguresHold
  BY WindowsHold DEF FiguresHold
<1> QED BY LifeIsKept, CardIsTrue, FiguresBegin, FiguresGoOn, <1>1, PTL DEF Spec
=============================================================================
