--------------------------- MODULE Notifier_proofs --------------------------
(***************************************************************************)
(* Notifier, proved for every number of refusals, charges, browsers and    *)
(* indexers, every scan limit and every number of faults: what a claim     *)
(* stands for, how often a push goes out, and what it may name.            *)
(***************************************************************************)
EXTENDS Notifier, TLAPS

-----------------------------------------------------------------------------
(* The inductive invariant.                                                *)

\* A pass has a job in hand while it sends and settles it, an answer while it settles.
Control ==
  \A n \in Indexer :
    /\ job[n] # NoJob <=> pc[n] \in {"send", "settle"}
    /\ answer[n] # "none" <=> pc[n] = "settle"

\* Nobody can claim the job: it is claimed, or its subscription is gone for good.
Guarded(j) == j \in claims \/ j[2] \notin subs

\* A job in hand is one indexer's, and stays so until that indexer is done with it.
HeldAlone ==
  \A n \in Indexer : job[n] # NoJob =>
    Guarded(job[n]) /\ \A m \in Indexer : job[m] = job[n] => m = n

\* The answer in hand is what became of the push.
AnswersTrue ==
  \A n \in Indexer :
    /\ answer[n] = "delivered" => buzzed[job[n]] > 0
    /\ answer[n] = "refused" => job[n] \in lost

\* Past the refresh, a pass holds no charge that every node knew closed when it began.
StillOpen ==
  \A n \in Indexer :
    /\ closedAt[n] \cap (open \cup behind) = {}
    /\ pc[n] \in {"deliver", "send", "settle"} => \A j \in jobs[n] : j[1] \notin closedAt[n]

NInv ==
  TypeOK /\ Control /\ HeldAlone /\ AnswersTrue /\ ClaimsWereSent /\ StillOpen /\ NoPushForClosed

\* Where no answer is lost: a job still to be sent, or to be tried again, has not gone out,
\* and one that went out cannot be claimed again.
NotYet ==
  \A n \in Indexer : pc[n] = "send" \/ answer[n] = "unreachable" => buzzed[job[n]] = 0
BuzzedGuarded == \A j \in Job : buzzed[j] > 0 => Guarded(j)

OInv == NotYet /\ BuzzedGuarded /\ AtMostOnce

-----------------------------------------------------------------------------
(* Helpers.                                                                *)

\* An occasion is a refusal or a charge, never both; no job is the absence of one.
LEMMA JobFacts ==
  /\ NoJob \notin Job
  /\ \A j \in Job : j[1] \in Refusal \cup Charge /\ j[2] \in Browser
  /\ Refusal \cap Charge = {}
BY NotifierAssumption DEF NoJob, Job, Refusal, Charge, Browser

\* The rows of a scan are of subscriptions there are, and its limit only takes some away.
LEMMA ScanRows ==
  ASSUME TypeOK
  PROVE  /\ Limited(RefusalRows) \subseteq Job
         /\ \A j \in Limited(RefusalRows) : j[1] \in Refusal
         /\ Limited((due \ expired) \X subs) \subseteq Job
<1>1. \A rows : Limited(rows) \subseteq rows
  BY DEF Limited
<1>2. RefusalRows \subseteq (stored \ expired) \X subs
  BY DEF RefusalRows
<1>3. (stored \ expired) \X subs \subseteq Refusal \X Browser
      /\ (due \ expired) \X subs \subseteq Job
  BY DEF TypeOK, Job
<1>4. Refusal \X Browser \subseteq Job
  BY DEF Job
<1>5. \A j \in Refusal \X Browser : j[1] \in Refusal
  OBVIOUS
<1>6. QED
  BY <1>1, <1>2, <1>3, <1>4, <1>5

(***************************************************************************)
(* Types, and where a pass is.                                             *)
(***************************************************************************)
LEMMA TypeInit == Init => TypeOK /\ Control
BY NotifierAssumption DEF Init, TypeOK, Control, Answers, NoJob

LEMMA TypeStep == TypeOK /\ Control /\ [Next]_vars => TypeOK'
<1> SUFFICES ASSUME TypeOK, Control, [Next]_vars PROVE TypeOK'
  OBVIOUS
<1> USE DEF TypeOK
<1>1. ASSUME NEW n \in Indexer, NEW r \in Refusal, StoreRefusal(n, r)
      PROVE  TypeOK'
  BY <1>1 DEF StoreRefusal, Run, db, past
<1>2. ASSUME NEW o \in Refusal \cup Charge, Expire(o)
      PROVE  TypeOK'
  BY <1>2 DEF Expire, db, pass, past
<1>3. ASSUME NEW c \in Charge, ComesDue(c) \/ Closes(c) \/ NodesCatchUp(c)
      PROVE  TypeOK'
  BY <1>3 DEF ComesDue, Closes, NodesCatchUp, world, db, pass, past
<1>4. ASSUME NEW b \in Browser, Unsubscribe(b)
      PROVE  TypeOK'
  BY <1>4 DEF Unsubscribe, world, pass, past
<1>5. ASSUME NEW n \in Indexer, Timer(n)
      PROVE  TypeOK'
  BY <1>5 DEF Timer, Run, world, db, past
<1>6. ASSUME NEW n \in Indexer, Scan(n)
      PROVE  TypeOK'
  <2>1. jobs' \in [Indexer -> SUBSET Job]
    BY <1>6, ScanRows DEF Scan
  <2>2. QED
    BY <1>6, <2>1 DEF Scan, world, db, past
<1>7. ASSUME NEW n \in Indexer, Refresh(n)
      PROVE  TypeOK'
  <2>1. jobs' \in [Indexer -> SUBSET Job] /\ due' \subseteq Charge
    BY <1>7 DEF Refresh
  <2>2. QED
    BY <1>7, <2>1 DEF Refresh, world, past
<1>8. ASSUME NEW n \in Indexer, NEW j \in Job, Skip(n, j) \/ Claim(n, j)
      PROVE  TypeOK'
  BY <1>8 DEF Skip, Claim, world, db, past
<1>9. ASSUME NEW n \in Indexer, NEW said \in Answers \ {"none"}, Send(n, said)
      PROVE  TypeOK'
  <2>1. job[n] \in Job
    BY <1>9 DEF Send, Control
  <2>2. lost' \subseteq Job /\ buzzed' \in [Job -> 0 .. 2]
    BY <1>9, <2>1 DEF Send
  <2>3. /\ pc' = [pc EXCEPT ![n] = "settle"] /\ answer' = [answer EXCEPT ![n] = said]
        /\ UNCHANGED <<world, db, again, jobs, job, gone, closedAt, faults>>
    BY <1>9 DEF Send
  <2>4. QED
    BY <2>2, <2>3 DEF world, db
<1>10. ASSUME NEW n \in Indexer, Settle(n)
       PROVE  TypeOK'
  <2>1. job[n] \in Job
    BY <1>10 DEF Settle, Control
  <2>2. job[n][2] \in Browser
    BY <2>1, JobFacts
  <2>3. subs' \subseteq Browser /\ claims' \subseteq Job /\ gone' \in [Indexer -> SUBSET Browser]
    BY <1>10, <2>2 DEF Settle
  <2>4. QED
    BY <1>10, <2>3 DEF Settle, world, past, Answers
<1>11. ASSUME NEW n \in Indexer, PassDone(n)
       PROVE  TypeOK'
  BY <1>11 DEF PassDone, world, db, past
<1>12. ASSUME NEW n \in Indexer, PassFails(n) \/ Crash(n)
       PROVE  TypeOK'
  <2>1. Drop(n)
    BY <1>12 DEF PassFails, Crash
  <2>2. lost' \subseteq Job
    BY <2>1 DEF Drop
  <2>3. faults' \in 0 .. MaxFaults
    BY <1>12, NotifierAssumption DEF PassFails, Crash, Fault
  <2>4. again' \in [Indexer -> BOOLEAN]
    BY <1>12 DEF PassFails, Crash
  <2>5. QED
    BY <2>1, <2>2, <2>3, <2>4 DEF Drop, world, db, Answers
<1>13. CASE UNCHANGED vars
  BY <1>13 DEF vars, world, db, pass, past
<1>14. QED
  BY <1>1, <1>2, <1>3, <1>4, <1>5, <1>6, <1>7, <1>8, <1>9, <1>10, <1>11, <1>12, <1>13
     DEF Next, World, Working, Deliver

\* The steps that touch a claim, a job in hand, or what is said of one.
Notable ==
  \/ \E b \in Browser : Unsubscribe(b)
  \/ \E n \in Indexer :
       \/ \E j \in Job : Claim(n, j)
       \/ \E said \in Answers \ {"none"} : Send(n, said)
       \/ Settle(n) \/ PassFails(n) \/ Crash(n)

\* Every other step leaves all of that alone, and no pass begins or ends a send.
Quiet ==
  /\ UNCHANGED <<claims, subs, job, answer, buzzed, lost>>
  /\ \A n \in Indexer : pc'[n] = pc[n] \/ {pc[n], pc'[n]} \cap {"send", "settle"} = {}

LEMMA QuietStep ==
  ASSUME TypeOK, Control, [Next]_vars, ~Notable
  PROVE  Quiet
<1> USE DEF TypeOK, Quiet
<1>1. ASSUME NEW n \in Indexer, NEW r \in Refusal, StoreRefusal(n, r)
      PROVE  Quiet
  BY <1>1 DEF StoreRefusal, Run, db, past
<1>2. ASSUME NEW o \in Refusal \cup Charge, Expire(o)
      PROVE  Quiet
  BY <1>2 DEF Expire, db, pass, past
<1>3. ASSUME NEW c \in Charge, ComesDue(c) \/ Closes(c) \/ NodesCatchUp(c)
      PROVE  Quiet
  BY <1>3 DEF ComesDue, Closes, NodesCatchUp, db, pass, past
<1>4. ASSUME NEW n \in Indexer, Timer(n)
      PROVE  Quiet
  BY <1>4 DEF Timer, Run, db, past
<1>5. ASSUME NEW n \in Indexer, Scan(n)
      PROVE  Quiet
  <2>1. pc[n] = "scan" /\ pc'[n] \in {"deliver", "refresh"}
        /\ \A m \in Indexer : m # n => pc'[m] = pc[m]
    BY <1>5 DEF Scan
  <2>2. UNCHANGED <<claims, subs, job, answer, buzzed, lost>>
    BY <1>5 DEF Scan, db, past
  <2>3. QED
    BY <2>1, <2>2
<1>6. ASSUME NEW n \in Indexer, Refresh(n)
      PROVE  Quiet
  <2>1. pc[n] = "refresh" /\ pc' = [pc EXCEPT ![n] = "deliver"]
        /\ UNCHANGED <<claims, subs, job, answer, buzzed, lost>>
    BY <1>6 DEF Refresh, past
  <2>2. QED
    BY <2>1
<1>7. ASSUME NEW n \in Indexer, NEW j \in Job, Skip(n, j)
      PROVE  Quiet
  BY <1>7 DEF Skip, db, past
<1>8. ASSUME NEW n \in Indexer, PassDone(n)
      PROVE  Quiet
  BY <1>8 DEF PassDone, db, past
<1>9. CASE UNCHANGED vars
  BY <1>9 DEF vars, db, pass, past
<1>10. QED
  BY <1>1, <1>2, <1>3, <1>4, <1>5, <1>6, <1>7, <1>8, <1>9
     DEF Next, World, Working, Deliver, Notable

\* Giving up what a pass holds: the job in hand is lost, nothing else of it is known.
LEMMA DropStep ==
  ASSUME TypeOK, Control, NEW n \in Indexer, PassFails(n) \/ Crash(n)
  PROVE  /\ pc' = [pc EXCEPT ![n] = "idle"] /\ jobs' = [jobs EXCEPT ![n] = {}]
         /\ job' = [job EXCEPT ![n] = NoJob] /\ answer' = [answer EXCEPT ![n] = "none"]
         /\ closedAt' = [closedAt EXCEPT ![n] = {}]
         /\ lost' = IF job[n] = NoJob THEN lost ELSE lost \cup {job[n]}
         /\ UNCHANGED <<claims, subs, buzzed, open, behind>>
<1>1. Drop(n)
  BY DEF PassFails, Crash
<1>2. QED
  BY <1>1 DEF Drop, world, db

LEMMA ControlStep == TypeOK /\ Control /\ [Next]_vars => Control'
<1> SUFFICES ASSUME TypeOK, Control, [Next]_vars PROVE Control'
  OBVIOUS
<1> USE DEF TypeOK, Control
<1>1. CASE ~Notable
  <2>1. Quiet
    BY <1>1, QuietStep
  <2>2. QED
    BY <2>1 DEF Quiet
<1>2. ASSUME NEW b \in Browser, Unsubscribe(b)
      PROVE  Control'
  BY <1>2 DEF Unsubscribe, pass
<1>3. ASSUME NEW n \in Indexer, NEW j \in Job, Claim(n, j)
      PROVE  Control'
  BY <1>3, JobFacts DEF Claim
<1>4. ASSUME NEW n \in Indexer, NEW said \in Answers \ {"none"}, Send(n, said)
      PROVE  Control'
  BY <1>4 DEF Send
<1>5. ASSUME NEW n \in Indexer, Settle(n)
      PROVE  Control'
  BY <1>5 DEF Settle
<1>6. ASSUME NEW n \in Indexer, PassFails(n) \/ Crash(n)
      PROVE  Control'
  BY <1>6, DropStep
<1>7. QED
  BY <1>1, <1>2, <1>3, <1>4, <1>5, <1>6 DEF Notable

(***************************************************************************)
(* What a claim stands for.                                                *)
(***************************************************************************)

\* A claim goes only with its subscription, or with the job of the indexer that made it,
\* and a subscription that is gone does not come back.
LEMMA GuardStays ==
  ASSUME TypeOK, Control, [Next]_vars, NEW j \in Job, Guarded(j)
  PROVE  Guarded(j)' \/ \E n \in Indexer : Settle(n) /\ answer[n] = "unreachable" /\ job[n] = j
<1> USE DEF TypeOK, Guarded
<1>1. CASE UNCHANGED <<claims, subs>>
  BY <1>1
<1>2. ASSUME NEW b \in Browser, Unsubscribe(b)
      PROVE  Guarded(j)'
  BY <1>2 DEF Unsubscribe
<1>3. ASSUME NEW n \in Indexer, NEW i \in Job, Claim(n, i)
      PROVE  Guarded(j)'
  BY <1>3 DEF Claim
<1>4. ASSUME NEW n \in Indexer, Settle(n)
      PROVE  Guarded(j)' \/ (answer[n] = "unreachable" /\ job[n] = j)
  BY <1>4 DEF Settle
<1>5. ASSUME NEW n \in Indexer, PassFails(n) \/ Crash(n)
      PROVE  UNCHANGED <<claims, subs>>
  BY <1>5 DEF PassFails, Crash, Drop, db
<1>6. ASSUME NEW n \in Indexer, NEW said \in Answers \ {"none"}, Send(n, said)
      PROVE  UNCHANGED <<claims, subs>>
  BY <1>6 DEF Send, db
<1>7. CASE ~Notable
  BY <1>7, QuietStep DEF Quiet
<1>8. QED
  BY <1>1, <1>2, <1>3, <1>4, <1>5, <1>6, <1>7 DEF Notable

LEMMA HeldAloneStep == TypeOK /\ Control /\ HeldAlone /\ [Next]_vars => HeldAlone'
<1> SUFFICES ASSUME TypeOK, Control, HeldAlone, [Next]_vars PROVE HeldAlone'
  OBVIOUS
<1> USE DEF TypeOK, HeldAlone, Guarded
<1>1. CASE ~Notable
  BY <1>1, QuietStep DEF Quiet
<1>2. ASSUME NEW b \in Browser, Unsubscribe(b)
      PROVE  HeldAlone'
  BY <1>2 DEF Unsubscribe, pass
<1>3. ASSUME NEW n \in Indexer, NEW j \in Job, Claim(n, j)
      PROVE  HeldAlone'
  <2>1. /\ j \notin claims /\ j[2] \in subs
        /\ job' = [job EXCEPT ![n] = j] /\ claims' = claims \cup {j} /\ subs' = subs
    BY <1>3 DEF Claim
  <2>2. \A m \in Indexer : job[m] # j
    BY <2>1, JobFacts
  <2>3. QED
    BY <2>1, <2>2
<1>4. ASSUME NEW n \in Indexer, NEW said \in Answers \ {"none"}, Send(n, said)
      PROVE  HeldAlone'
  BY <1>4 DEF Send, db
<1>5. ASSUME NEW n \in Indexer, Settle(n)
      PROVE  HeldAlone'
  <2>1. job' = [job EXCEPT ![n] = NoJob]
    BY <1>5 DEF Settle
  <2>2. \A j : Guarded(j) => j = job[n] \/ Guarded(j)'
    BY <1>5 DEF Settle
  <2>3. job[n] # NoJob
    BY <1>5 DEF Settle, Control
  <2>4. QED
    BY <2>1, <2>2, <2>3
<1>6. ASSUME NEW n \in Indexer, PassFails(n) \/ Crash(n)
      PROVE  HeldAlone'
  BY <1>6, DropStep
<1>7. QED
  BY <1>1, <1>2, <1>3, <1>4, <1>5, <1>6 DEF Notable

\* What a send does to what is known of the job in hand, and of the others.
LEMMA SendStep ==
  ASSUME TypeOK, Control, NEW n \in Indexer, NEW said \in Answers \ {"none"}, Send(n, said)
  PROVE  /\ job[n] \in Job /\ pc[n] = "send" /\ pc' = [pc EXCEPT ![n] = "settle"]
         /\ answer' = [answer EXCEPT ![n] = said]
         /\ UNCHANGED <<job, jobs, claims, subs, open, behind, closedAt>>
         /\ \A j \in Job : j # job[n] => buzzed'[j] = buzzed[j]
         /\ buzzed[job[n]] > 0 => buzzed'[job[n]] > 0
         /\ said = "delivered" => buzzed'[job[n]] > 0
         /\ ~LostAnswers =>
              buzzed'[job[n]] = IF said = "delivered" /\ buzzed[job[n]] = 0 THEN 1
                                ELSE IF said = "delivered" THEN 2 ELSE buzzed[job[n]]
         /\ lost' = IF said = "refused" THEN lost \cup {job[n]} ELSE lost
<1> USE DEF TypeOK
<1>1. job[n] \in Job /\ pc[n] = "send"
  BY DEF Send, Control
<1>2. buzzed \in [Job -> 0 .. 2]
  OBVIOUS
<1>3. PICK arrives \in BOOLEAN :
        /\ said = "delivered" => arrives
        /\ arrives => said = "delivered" \/ (said = "unreachable" /\ LostAnswers)
        /\ buzzed' = IF arrives THEN [buzzed EXCEPT ![job[n]] = IF @ = 2 THEN 2 ELSE @ + 1]
                     ELSE buzzed
  BY DEF Send
<1>4. /\ buzzed'[job[n]] = IF arrives THEN IF buzzed[job[n]] = 2 THEN 2 ELSE buzzed[job[n]] + 1
                           ELSE buzzed[job[n]]
      /\ \A j \in Job : j # job[n] => buzzed'[j] = buzzed[j]
  BY <1>1, <1>2, <1>3
<1>5. buzzed[job[n]] \in 0 .. 2
  BY <1>1, <1>2
<1>6. /\ buzzed[job[n]] > 0 => buzzed'[job[n]] > 0
      /\ said = "delivered" => buzzed'[job[n]] > 0
      /\ ~LostAnswers =>
           buzzed'[job[n]] = IF said = "delivered" /\ buzzed[job[n]] = 0 THEN 1
                             ELSE IF said = "delivered" THEN 2 ELSE buzzed[job[n]]
  BY <1>3, <1>4, <1>5
<1>7. QED
  BY <1>1, <1>4, <1>6 DEF Send, world, db

\* Nothing that was lost is found again, and no push is taken back.
LEMMA SentStays ==
  ASSUME TypeOK, Control, [Next]_vars
  PROVE  lost \subseteq lost' /\ \A j \in Job : buzzed[j] > 0 => buzzed'[j] > 0
<1> USE DEF TypeOK
<1>1. CASE UNCHANGED <<lost, buzzed>>
  BY <1>1
<1>2. CASE ~Notable
  BY <1>2, QuietStep DEF Quiet
<1>3. ASSUME NEW b \in Browser, Unsubscribe(b)
      PROVE  UNCHANGED <<lost, buzzed>>
  BY <1>3 DEF Unsubscribe, past
<1>4. ASSUME NEW n \in Indexer, (\E j \in Job : Claim(n, j)) \/ Settle(n)
      PROVE  UNCHANGED <<lost, buzzed>>
  <2>1. UNCHANGED past
    BY <1>4 DEF Claim, Settle
  <2>2. QED
    BY <2>1 DEF past
<1>5. ASSUME NEW n \in Indexer, NEW said \in Answers \ {"none"}, Send(n, said)
      PROVE  lost \subseteq lost' /\ \A j \in Job : buzzed[j] > 0 => buzzed'[j] > 0
  BY <1>5, SendStep
<1>6. ASSUME NEW n \in Indexer, PassFails(n) \/ Crash(n)
      PROVE  lost \subseteq lost' /\ buzzed' = buzzed
  BY <1>6, DropStep
<1>7. QED
  BY <1>1, <1>2, <1>3, <1>4, <1>5, <1>6 DEF Notable

LEMMA AnswersStep == TypeOK /\ Control /\ AnswersTrue /\ [Next]_vars => AnswersTrue'
<1> SUFFICES ASSUME TypeOK, Control, AnswersTrue, [Next]_vars,
                    NEW m \in Indexer
             PROVE  /\ answer'[m] = "delivered" => buzzed'[job'[m]] > 0
                    /\ answer'[m] = "refused" => job'[m] \in lost'
  BY DEF AnswersTrue
<1> USE DEF TypeOK
<1>1. answer[m] # "none" => job[m] \in Job
  BY DEF Control
<1>2. lost \subseteq lost' /\ \A j \in Job : buzzed[j] > 0 => buzzed'[j] > 0
  BY SentStays
<1>3. CASE answer'[m] = answer[m] /\ job'[m] = job[m]
  BY <1>1, <1>2, <1>3 DEF AnswersTrue
<1>4. CASE answer'[m] = "none"
  BY <1>4
<1>5. CASE ~Notable
  BY <1>3, <1>5, QuietStep DEF Quiet
<1>6. ASSUME NEW b \in Browser, Unsubscribe(b)
      PROVE  answer'[m] = answer[m] /\ job'[m] = job[m]
  BY <1>6 DEF Unsubscribe, pass
<1>7. ASSUME NEW n \in Indexer, NEW j \in Job, Claim(n, j)
      PROVE  answer'[m] = answer[m] /\ (job'[m] = job[m] \/ answer'[m] = "none")
  BY <1>7 DEF Claim, Control
<1>8. ASSUME NEW n \in Indexer, NEW said \in Answers \ {"none"}, Send(n, said)
      PROVE  \/ answer'[m] = answer[m] /\ job'[m] = job[m]
             \/ /\ answer'[m] = "delivered" => buzzed'[job'[m]] > 0
                /\ answer'[m] = "refused" => job'[m] \in lost'
  BY <1>8, SendStep
<1>9. ASSUME NEW n \in Indexer, Settle(n)
      PROVE  (answer'[m] = answer[m] /\ job'[m] = job[m]) \/ answer'[m] = "none"
  BY <1>9 DEF Settle
<1>10. ASSUME NEW n \in Indexer, PassFails(n) \/ Crash(n)
       PROVE  (answer'[m] = answer[m] /\ job'[m] = job[m]) \/ answer'[m] = "none"
  BY <1>10, DropStep
<1>11. QED
  BY <1>3, <1>4, <1>5, <1>6, <1>7, <1>8, <1>9, <1>10 DEF Notable

LEMMA ClaimsStep ==
  ASSUME TypeOK, Control, AnswersTrue, ClaimsWereSent, [Next]_vars
  PROVE  ClaimsWereSent'
<1> SUFFICES ASSUME NEW j \in claims'
             PROVE  Settled(j)' \/ \E n \in Indexer : job'[n] = j
  BY DEF ClaimsWereSent
<1> USE DEF TypeOK
<1>1. ASSUME j \in Job, Settled(j)
      PROVE  Settled(j)'
  BY <1>1, SentStays DEF Settled
<1>2. CASE j \in claims /\ \A n \in Indexer : job[n] = j => job'[n] = j
  BY <1>1, <1>2 DEF ClaimsWereSent
<1>3. CASE ~Notable
  BY <1>2, <1>3, QuietStep DEF Quiet
<1>4. ASSUME NEW b \in Browser, Unsubscribe(b)
      PROVE  j \in claims /\ UNCHANGED job
  BY <1>4 DEF Unsubscribe, pass
<1>5. ASSUME NEW n \in Indexer, NEW i \in Job, Claim(n, i)
      PROVE  (\E m \in Indexer : job'[m] = j)
             \/ (j \in claims /\ \A m \in Indexer : job[m] = j => job'[m] = j)
  <2>1. pc[n] = "deliver" /\ job' = [job EXCEPT ![n] = i] /\ claims' = claims \cup {i}
    BY <1>5 DEF Claim
  <2>2. job[n] = NoJob
    BY <2>1 DEF Control
  <2>3. j \in claims => j # NoJob
    BY JobFacts
  <2>4. QED
    BY <2>1, <2>2, <2>3
<1>6. ASSUME NEW n \in Indexer, NEW said \in Answers \ {"none"}, Send(n, said)
      PROVE  j \in claims /\ UNCHANGED job
  BY <1>6, SendStep
<1>7. ASSUME NEW n \in Indexer, Settle(n)
      PROVE  Settled(j)' \/ \E m \in Indexer : job'[m] = j
  <2>1. j \in claims /\ \A m \in Indexer : m # n => job'[m] = job[m]
    BY <1>7 DEF Settle
  <2>2. ASSUME job[n] = j
        PROVE  answer[n] \in {"delivered", "refused"}
    <3>1. answer[n] \in {"delivered", "gone", "refused", "unreachable"}
      BY <1>7 DEF Settle, Control, Answers
    <3>2. answer[n] = "gone" => j \notin claims'
      BY <1>7, <2>2 DEF Settle
    <3>3. answer[n] = "unreachable" => j \notin claims'
      BY <1>7, <2>2 DEF Settle
    <3>4. QED
      BY <3>1, <3>2, <3>3
  <2>3. job[n] = j => Settled(j)
    BY <2>2 DEF AnswersTrue, Settled
  <2>4. QED
    BY <1>1, <2>1, <2>3 DEF ClaimsWereSent
<1>8. ASSUME NEW n \in Indexer, PassFails(n) \/ Crash(n)
      PROVE  Settled(j)' \/ \E m \in Indexer : job'[m] = j
  <2>1. j \in claims /\ j \in Job /\ \A m \in Indexer : m # n => job'[m] = job[m]
    BY <1>8, DropStep
  <2>2. job[n] = j => j \in lost'
    BY <1>8, <2>1, DropStep, JobFacts
  <2>3. QED
    BY <1>1, <2>1, <2>2 DEF ClaimsWereSent, Settled
<1>9. QED
  BY <1>2, <1>3, <1>4, <1>5, <1>6, <1>7, <1>8 DEF Notable

(***************************************************************************)
(* What a push may name.                                                   *)
(***************************************************************************)

\* What every node knows to be closed stays so.
LEMMA ClosedStays == [Next]_vars => open' \cup behind' \subseteq open \cup behind
<1>1. ASSUME NEW n \in Indexer, NEW r \in Refusal, StoreRefusal(n, r) \/ Timer(n)
      PROVE  open' = open /\ behind' = behind
  BY <1>1 DEF StoreRefusal, Timer, world
<1>2. ASSUME NEW o \in Refusal \cup Charge, Expire(o)
      PROVE  open' = open /\ behind' = behind
  BY <1>2 DEF Expire
<1>3. ASSUME NEW c \in Charge, ComesDue(c) \/ Closes(c) \/ NodesCatchUp(c)
      PROVE  open' \cup behind' \subseteq open \cup behind
  BY <1>3 DEF ComesDue, Closes, NodesCatchUp, world
<1>4. ASSUME NEW b \in Browser, Unsubscribe(b)
      PROVE  open' = open /\ behind' = behind
  BY <1>4 DEF Unsubscribe, world
<1>5. ASSUME NEW n \in Indexer, Working(n) \/ Timer(n) \/ Crash(n)
      PROVE  UNCHANGED world
  BY <1>5 DEF Working, Timer, Deliver, Scan, Refresh, Skip, Claim, Send, Settle, PassDone, PassFails,
              Crash, Drop
<1>6. QED
  BY <1>1, <1>2, <1>3, <1>4, <1>5 DEF Next, World, world, vars

\* A pass goes on: what it holds and what it calls closed are what they were.
Onward(m) ==
  /\ closedAt'[m] = closedAt[m] /\ jobs'[m] \subseteq jobs[m]
  /\ pc'[m] \in {"deliver", "send", "settle"} => pc[m] \in {"deliver", "send", "settle"}
  /\ job'[m] = job[m] \/ job'[m] = NoJob \/ (pc[m] = "deliver" /\ job'[m] \in jobs[m])

LEMMA StillOpenStep ==
  ASSUME TypeOK, Control, StillOpen, NoPushForClosed, [Next]_vars
  PROVE  StillOpen' /\ NoPushForClosed'
<1> DEFINE Good(m) == /\ closedAt'[m] \cap (open' \cup behind') = {}
                      /\ pc'[m] \in {"deliver", "send", "settle"} =>
                           \A j \in jobs'[m] : j[1] \notin closedAt'[m]
                      /\ job'[m] # NoJob => job'[m][1] \notin closedAt'[m]
<1> SUFFICES ASSUME NEW m \in Indexer
             PROVE  Good(m)
  BY DEF StillOpen, NoPushForClosed
<1> USE DEF TypeOK
<1>1. /\ closedAt[m] \cap (open \cup behind) = {} /\ open' \cup behind' \subseteq open \cup behind
      /\ pc[m] \in {"deliver", "send", "settle"} => \A j \in jobs[m] : j[1] \notin closedAt[m]
      /\ job[m] # NoJob => job[m][1] \notin closedAt[m] /\ pc[m] \in {"send", "settle"}
  BY ClosedStays DEF StillOpen, NoPushForClosed, Control
<1>2. CASE Onward(m)
  BY <1>1, <1>2 DEF Onward
<1>3. ASSUME NEW n \in Indexer, Timer(n) \/ \E r \in Refusal : StoreRefusal(n, r)
      PROVE  Onward(m)
  <2>1. Run(n) /\ UNCHANGED <<closedAt, jobs, job>>
    BY <1>3 DEF Timer, StoreRefusal
  <2>2. QED
    BY <2>1 DEF Run, Onward
<1>4. CASE \/ \E o \in Refusal \cup Charge : Expire(o)
           \/ \E c \in Charge : ComesDue(c) \/ Closes(c) \/ NodesCatchUp(c)
           \/ \E b \in Browser : Unsubscribe(b)
           \/ UNCHANGED vars
  <2>1. UNCHANGED pass
    BY <1>4 DEF Expire, ComesDue, Closes, NodesCatchUp, Unsubscribe, vars
  <2>2. Onward(m)
    BY <2>1 DEF Onward, pass
  <2>3. QED
    BY <1>2, <2>2
<1>5. ASSUME NEW n \in Indexer, Scan(n)
      PROVE  Good(m)
  <2>1. CASE m # n
    <3>1. Onward(m)
      BY <1>5, <2>1 DEF Scan, Onward
    <3>2. QED
      BY <1>2, <3>1
  <2>2. CASE m = n
    <3> DEFINE unsent == Limited((due \ expired) \X subs) \ claims
    <3>1. /\ closedAt'[m] = Charge \ (open \cup behind) /\ open' = open /\ behind' = behind /\ job' = job /\ pc[m] = "scan"
          /\ jobs'[m] = Limited(RefusalRows) \cup unsent
          /\ pc'[m] = IF unsent = {} THEN "deliver" ELSE "refresh"
      BY <1>5, <2>2 DEF Scan, world
    <3>2. job'[m] = NoJob
      BY <3>1, <1>1
    <3>3. pc'[m] = "deliver" => \A j \in jobs'[m] : j[1] \in Refusal
      BY <3>1, ScanRows
    <3>4. QED
      BY <3>1, <3>2, <3>3, JobFacts
  <2>3. QED
    BY <2>1, <2>2
<1>6. ASSUME NEW n \in Indexer, Refresh(n)
      PROVE  Good(m)
  <2>1. CASE m # n
    <3>1. Onward(m)
      BY <1>6, <2>1 DEF Refresh, Onward
    <3>2. QED
      BY <1>2, <3>1
  <2>2. CASE m = n
    <3>1. /\ closedAt' = closedAt /\ job' = job /\ pc[m] = "refresh"
          /\ \A j \in jobs'[m] : j[1] \in Charge => j[1] \in open \cup behind
      BY <1>6, <2>2 DEF Refresh, ReadOpen
    <3>2. closedAt[m] \subseteq Charge
      OBVIOUS
    <3>3. QED
      BY <1>1, <3>1, <3>2
  <2>3. QED
    BY <2>1, <2>2
<1>7. ASSUME NEW n \in Indexer, NEW j \in Job, Skip(n, j)
      PROVE  Onward(m)
  BY <1>7 DEF Skip, Onward
<1>8. ASSUME NEW n \in Indexer, NEW j \in Job, Claim(n, j)
      PROVE  Onward(m)
  BY <1>8 DEF Claim, IsNext, Onward
<1>9. ASSUME NEW n \in Indexer, NEW said \in Answers \ {"none"}, Send(n, said)
      PROVE  Onward(m)
  BY <1>9, SendStep DEF Onward
<1>10. ASSUME NEW n \in Indexer, Settle(n)
       PROVE  Onward(m)
  BY <1>10 DEF Settle, Onward
<1>11. ASSUME NEW n \in Indexer, PassDone(n)
       PROVE  Good(m)
  BY <1>1, <1>11 DEF PassDone
<1>12. ASSUME NEW n \in Indexer, PassFails(n) \/ Crash(n)
       PROVE  Good(m)
  BY <1>1, <1>12, DropStep
<1> HIDE DEF Good
<1>13. QED
  BY <1>2, <1>3, <1>4, <1>5, <1>6, <1>7, <1>8, <1>9, <1>10, <1>11, <1>12
     DEF Next, World, Working, Deliver

(***************************************************************************)
(* How often a push goes out.                                              *)
(***************************************************************************)
LEMMA OnceStep ==
  ASSUME ~LostAnswers, TypeOK, Control, HeldAlone, OInv, [Next]_vars
  PROVE  OInv'
<1> USE DEF TypeOK
<1>1. ASSUME UNCHANGED buzzed
      PROVE  AtMostOnce'
  BY <1>1 DEF OInv, AtMostOnce
<1>2. CASE ~Notable
  <2>1. Quiet
    BY <1>2, QuietStep
  <2>2. NotYet'
    BY <2>1 DEF Quiet, OInv, NotYet
  <2>3. BuzzedGuarded'
    BY <2>1 DEF Quiet, OInv, BuzzedGuarded, Guarded
  <2>4. QED
    BY <1>1, <2>1, <2>2, <2>3 DEF Quiet, OInv
<1>3. ASSUME NEW b \in Browser, Unsubscribe(b)
      PROVE  OInv'
  BY <1>3 DEF Unsubscribe, pass, past, OInv, AtMostOnce, NotYet, BuzzedGuarded, Guarded
<1>4. ASSUME NEW n \in Indexer, NEW j \in Job, Claim(n, j)
      PROVE  OInv'
  <2>1. /\ j \notin claims /\ j[2] \in subs /\ pc[n] = "deliver"
        /\ job' = [job EXCEPT ![n] = j] /\ claims' = claims \cup {j}
        /\ pc' = [pc EXCEPT ![n] = "send"]
        /\ UNCHANGED <<subs, answer, buzzed>>
    BY <1>4 DEF Claim, past
  <2>2. buzzed[j] = 0
    BY <2>1 DEF OInv, BuzzedGuarded, Guarded
  <2>3. answer[n] = "none"
    BY <2>1 DEF Control
  <2>4. NotYet'
    BY <2>1, <2>2, <2>3 DEF OInv, NotYet
  <2>5. BuzzedGuarded'
    BY <2>1 DEF OInv, BuzzedGuarded, Guarded
  <2>6. QED
    BY <1>1, <2>1, <2>4, <2>5 DEF OInv
<1>5. ASSUME NEW n \in Indexer, NEW said \in Answers \ {"none"}, Send(n, said)
      PROVE  OInv'
  <2>1. buzzed[job[n]] = 0
    BY <1>5 DEF Send, OInv, NotYet
  <2>2. /\ job[n] \in Job /\ pc' = [pc EXCEPT ![n] = "settle"]
        /\ answer' = [answer EXCEPT ![n] = said]
        /\ UNCHANGED <<job, claims, subs>>
        /\ \A j \in Job : j # job[n] => buzzed'[j] = buzzed[j]
        /\ buzzed'[job[n]] = IF said = "delivered" THEN 1 ELSE 0
    BY <1>5, <2>1, SendStep
  <2>3. job[n] # NoJob
    BY <2>2, JobFacts
  <2>4. Guarded(job[n]) /\ \A m \in Indexer : m # n => job[m] # job[n]
    BY <2>3 DEF HeldAlone
  <2>5. NotYet'
    <3> SUFFICES ASSUME NEW m \in Indexer, pc'[m] = "send" \/ answer'[m] = "unreachable"
                 PROVE  buzzed'[job'[m]] = 0
      BY DEF NotYet
    <3>1. CASE m = n
      BY <2>2, <3>1
    <3>2. CASE m # n
      <4>1. pc[m] = "send" \/ answer[m] = "unreachable"
        BY <2>2, <3>2
      <4>2. job[m] \in Job
        BY <4>1 DEF Control
      <4>3. QED
        BY <2>2, <2>4, <3>2, <4>1, <4>2 DEF OInv, NotYet
    <3>3. QED
      BY <3>1, <3>2
  <2>6. BuzzedGuarded'
    BY <2>2, <2>4 DEF OInv, BuzzedGuarded, Guarded
  <2>7. AtMostOnce'
    BY <2>2 DEF OInv, AtMostOnce
  <2>8. QED
    BY <2>5, <2>6, <2>7 DEF OInv
<1>6. ASSUME NEW n \in Indexer, Settle(n)
      PROVE  OInv'
  <2>1. /\ buzzed' = buzzed /\ job[n] # NoJob
        /\ job' = [job EXCEPT ![n] = NoJob] /\ answer' = [answer EXCEPT ![n] = "none"]
        /\ pc' = [pc EXCEPT ![n] = "deliver"]
    BY <1>6 DEF Settle, past, Control
  <2>2. NotYet'
    BY <2>1 DEF OInv, NotYet
  <2>3. \A j : Guarded(j) => (answer[n] = "unreachable" /\ j = job[n]) \/ Guarded(j)'
    BY <1>6 DEF Settle, Guarded
  <2>4. answer[n] = "unreachable" => buzzed[job[n]] = 0
    BY DEF OInv, NotYet
  <2>5. BuzzedGuarded'
    BY <2>1, <2>3, <2>4 DEF OInv, BuzzedGuarded
  <2>6. QED
    BY <1>1, <2>1, <2>2, <2>5 DEF OInv
<1>7. ASSUME NEW n \in Indexer, PassFails(n) \/ Crash(n)
      PROVE  OInv'
  <2>1. /\ UNCHANGED <<buzzed, claims, subs>>
        /\ job' = [job EXCEPT ![n] = NoJob] /\ answer' = [answer EXCEPT ![n] = "none"]
        /\ pc' = [pc EXCEPT ![n] = "idle"]
    BY <1>7, DropStep
  <2>2. NotYet' /\ BuzzedGuarded'
    BY <2>1 DEF OInv, NotYet, BuzzedGuarded, Guarded
  <2>3. QED
    BY <1>1, <2>1, <2>2 DEF OInv
<1>8. QED
  BY <1>2, <1>3, <1>4, <1>5, <1>6, <1>7 DEF Notable

(***************************************************************************)
(* The theorems.                                                           *)
(***************************************************************************)
LEMMA NInvInit == Init => NInv
<1> SUFFICES ASSUME Init PROVE NInv
  OBVIOUS
<1>1. TypeOK /\ Control
  BY TypeInit
<1>2. HeldAlone /\ AnswersTrue /\ StillOpen /\ NoPushForClosed /\ ClaimsWereSent
  BY DEF Init, HeldAlone, AnswersTrue, StillOpen, NoPushForClosed, ClaimsWereSent
<1>3. QED
  BY <1>1, <1>2 DEF NInv

LEMMA NInvStep == NInv /\ [Next]_vars => NInv'
BY TypeStep, ControlStep, HeldAloneStep, AnswersStep, ClaimsStep, StillOpenStep DEF NInv

\* NInv holds in every state that two or more overlapping indexers, failing passes and
\* crashes can reach.
THEOREM Invariance == Spec => []NInv
BY NInvInit, NInvStep, PTL DEF Spec

\* "No retry is blocked by a push never sent": a claim is the job of a pass, or stands for a
\* push that went out, was refused for good, or died with its process (notify.ts:299).
THEOREM ClaimsSafe == Spec => []ClaimsHold
<1>1. NInv => ClaimsHold
  BY DEF NInv, ClaimsHold
<1>2. QED
  BY <1>1, Invariance, PTL

\* "The chain first": whatever the cache said, no push names a charge of a permission that was
\* closed when the pass began (notify.ts:255).
THEOREM ChainFirst == Spec => []NoPushForClosed
<1>1. NInv => NoPushForClosed
  BY DEF NInv
<1>2. QED
  BY <1>1, Invariance, PTL

\* At most one push per browser and occasion, however many indexers overlap, fail or crash, as
\* long as the push service says so when it has accepted one (notify.ts:29).
THEOREM OncePerOccasion ==
  ASSUME ~LostAnswers
  PROVE  Spec => []AtMostOnce
<1>1. Init => OInv
  BY DEF Init, OInv, NotYet, BuzzedGuarded, AtMostOnce
<1>2. NInv /\ OInv /\ [Next]_vars => OInv'
  BY OnceStep DEF NInv
<1>3. OInv => AtMostOnce
  BY DEF OInv
<1>4. QED
  BY <1>1, <1>2, <1>3, Invariance, PTL DEF Spec

\* A run asked for during a pass is taken back only by the pass that follows it at once, or by
\* a crash (notify.ts:368).
THEOREM RunKept == Spec => RunNotLost
<1>1. TypeOK /\ [Next]_vars => [\A n \in Indexer : again[n] /\ ~again'[n] =>
                                   pc'[n] = "scan" \/ faults' > faults]_vars
  <2> SUFFICES ASSUME TypeOK, Next, NEW n \in Indexer, again[n], ~again'[n]
               PROVE  pc'[n] = "scan" \/ faults' > faults
    OBVIOUS
  <2> USE DEF TypeOK
  <2>1. again' # again
    OBVIOUS
  <2>2. CASE World \/ \E m \in Indexer : Timer(m)
    <3>1. \E m \in Indexer : Run(m)
      BY <2>1, <2>2 DEF World, Timer, StoreRefusal, Expire, ComesDue, Closes, NodesCatchUp, Unsubscribe, pass
    <3>2. again' = again \/ \E m \in Indexer : again' = [again EXCEPT ![m] = TRUE]
      BY <3>1 DEF Run
    <3>3. QED
      BY <3>2
  <2>3. ASSUME NEW m \in Indexer, Working(m)
        PROVE  pc'[n] = "scan"
    <3>1. PassDone(m)
      BY <2>1, <2>3 DEF Working, Deliver, Scan, Refresh, Skip, Claim, Send, Settle, PassFails
    <3>2. m = n
      BY <3>1 DEF PassDone
    <3>3. QED
      BY <3>1, <3>2 DEF PassDone
  <2>4. ASSUME NEW m \in Indexer, Crash(m)
        PROVE  faults' > faults
    BY <2>4, NotifierAssumption DEF Crash, Fault
  <2>5. QED
    BY <2>2, <2>3, <2>4 DEF Next
<1>2. NInv => TypeOK
  BY DEF NInv
<1>3. QED
  BY <1>1, <1>2, Invariance, PTL DEF Spec, RunNotLost
=============================================================================
