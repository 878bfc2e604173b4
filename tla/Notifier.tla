------------------------------ MODULE Notifier -----------------------------
(***************************************************************************)
(* Web Push from the indexer (apps/indexer/src/notify.ts): passes over the *)
(* stored refusals and the charges due, a claim in push_deliveries before  *)
(* every push, and what each answer of the push service does to the claim. *)
(* Two indexers overlap in a rolling deploy; each runs one pass at a time. *)
(*                                                                         *)
(* Occasions are numbers: refusals by block time, charges due after them.  *)
(* A browser is one row of push_subscriptions, a job an occasion for one.  *)
(***************************************************************************)
EXTENDS Naturals, FiniteSets

CONSTANTS
  Refusals,     \* number of refusals that ever happen: occasions 1 .. Refusals
  Charges,      \* number of charges due: the occasions after the refusals
  Browsers,     \* number of push subscriptions
  Indexer,      \* indexer processes
  ScanLimit,    \* SCAN_LIMIT
  MaxFaults,    \* bound: crashes and failed passes
  LostAnswers   \* the service may accept a push whose answer is lost

ASSUME NotifierAssumption ==
  /\ {Refusals, Charges, Browsers, MaxFaults} \subseteq Nat
  /\ ScanLimit \in Nat \ {0}
  /\ LostAnswers \in BOOLEAN

Refusal == 1 .. Refusals
Charge  == (Refusals + 1) .. (Refusals + Charges)
Browser == 1 .. Browsers
Job     == (Refusal \cup Charge) \X Browser

VARIABLES
  stored,      \* refusals in the feed
  expired,     \* refusals older than REJECTED_WINDOW_MS, charges whose moment has passed
  open,        \* charges whose permission the chain holds open
  behind,      \* closings on the chain that some node has not seen yet
  due,         \* charges due according to the cache
  subs,        \* push_subscriptions
  claims,      \* push_deliveries
  pc,          \* where each indexer's pass is
  again,       \* a run was asked for while a pass was running
  jobs,        \* what the pass still has to deliver
  job,         \* the job being sent
  answer,      \* what the push service said of it
  gone,        \* subscriptions the pass removed
  closedAt,    \* history: charges every node knew closed when the pass began
  buzzed,      \* history: how often a job's push reached its browser
  lost,        \* history: jobs refused for good, or left claimed by a crash or a failed delete
  faults       \* history: crashes and failed passes

world == <<stored, expired, open, behind>>
db    == <<due, subs, claims>>
pass  == <<pc, again, jobs, job, answer, gone, closedAt>>
past  == <<buzzed, lost>>
vars  == <<world, db, pass, past, faults>>

NoJob == <<0, 0>>
Answers == {"none", "delivered", "gone", "refused", "unreachable"}

TypeOK ==
  /\ stored \subseteq Refusal /\ expired \subseteq Refusal \cup Charge
  /\ open \subseteq Charge /\ behind \subseteq Charge \ open /\ due \subseteq Charge
  /\ subs \subseteq Browser /\ claims \subseteq Job
  /\ pc \in [Indexer -> {"idle", "scan", "refresh", "deliver", "send", "settle"}]
  /\ again \in [Indexer -> BOOLEAN]
  /\ jobs \in [Indexer -> SUBSET Job]
  /\ job \in [Indexer -> Job \cup {NoJob}] /\ answer \in [Indexer -> Answers]
  /\ gone \in [Indexer -> SUBSET Browser] /\ closedAt \in [Indexer -> SUBSET Charge]
  /\ buzzed \in [Job -> 0 .. 2]
  /\ lost \subseteq Job
  /\ faults \in 0 .. MaxFaults

Init ==
  /\ stored = {} /\ expired = {}
  /\ open = Charge /\ behind = {} /\ due = {}
  /\ subs = Browser /\ claims = {}
  /\ pc = [n \in Indexer |-> "idle"]
  /\ again = [n \in Indexer |-> FALSE]
  /\ jobs = [n \in Indexer |-> {}]
  /\ job = [n \in Indexer |-> NoJob] /\ answer = [n \in Indexer |-> "none"]
  /\ gone = [n \in Indexer |-> {}] /\ closedAt = [n \in Indexer |-> {}]
  /\ buzzed = [j \in Job |-> 0]
  /\ lost = {} /\ faults = 0

Fault == faults < MaxFaults /\ faults' = faults + 1

\* run(): a call that arrives while a pass runs is folded into one more pass after it.
Run(n) ==
  IF pc[n] = "idle" THEN pc' = [pc EXCEPT ![n] = "scan"] /\ UNCHANGED again
                    ELSE again' = [again EXCEPT ![n] = TRUE] /\ UNCHANGED pc

-----------------------------------------------------------------------------
(***************************************************************************)
(* What passes react to.                                                   *)
(***************************************************************************)

\* The sink stores a refusal, and asks for a run at once.
StoreRefusal(n, r) ==
  /\ r \notin stored \cup expired
  /\ stored' = stored \cup {r}
  /\ Run(n)
  /\ UNCHANGED <<expired, open, behind, db, jobs, job, answer, gone, closedAt, past, faults>>

\* Time passes: refusals leave the window, the oldest first; a charge's moment is over.
Expire(o) ==
  /\ o \notin expired
  /\ IF o \in Refusal THEN \A q \in Refusal : q < o => q \in expired ELSE o \in due
  /\ expired' = expired \cup {o}
  /\ UNCHANGED <<stored, open, behind, db, pass, past, faults>>

\* A charge comes within its lead, according to the cache.
ComesDue(c) ==
  /\ c \notin due \cup expired /\ c \in open \cup behind
  /\ due' = due \cup {c}
  /\ UNCHANGED <<world, subs, claims, pass, past, faults>>

\* A permission is cancelled, paused or charged on the chain; nodes and the cache learn of it
\* later.
Closes(c) ==
  /\ c \in open
  /\ open' = open \ {c} /\ behind' = behind \cup {c}
  /\ UNCHANGED <<stored, expired, db, pass, past, faults>>

NodesCatchUp(c) ==
  /\ c \in behind
  /\ behind' = behind \ {c}
  /\ UNCHANGED <<stored, expired, open, db, pass, past, faults>>

\* The five-minute scan.
Timer(n) ==
  /\ Run(n)
  /\ UNCHANGED <<world, db, jobs, job, answer, gone, closedAt, past, faults>>

\* The API removes a subscription: its claims go with the row.
Unsubscribe(b) ==
  /\ b \in subs
  /\ subs' = subs \ {b}
  /\ claims' = {j \in claims : j[2] # b}
  /\ UNCHANGED <<world, due, pass, past, faults>>

-----------------------------------------------------------------------------
(***************************************************************************)
(* One pass.                                                               *)
(***************************************************************************)
Before(i, j) == i[1] < j[1] \/ (i[1] = j[1] /\ i[2] < j[2])

\* LIMIT SCAN_LIMIT, of the rows in the order the database returns them.
Limited(rows) == {j \in rows : Cardinality({i \in rows : Before(i, j)}) < ScanLimit}

RefusalRows == {j \in (stored \ expired) \X subs : j \notin claims}

\* Both scans. Rows already sent are dropped from the charges due after the limit.
Scan(n) ==
  /\ pc[n] = "scan"
  /\ LET unsent == Limited((due \ expired) \X subs) \ claims
     IN  /\ jobs' = [jobs EXCEPT ![n] = Limited(RefusalRows) \cup unsent]
         /\ pc' = [pc EXCEPT ![n] = IF unsent = {} THEN "deliver" ELSE "refresh"]
  /\ closedAt' = [closedAt EXCEPT ![n] = Charge \ (open \cup behind)]
  /\ UNCHANGED <<world, db, again, job, answer, gone, past, faults>>

\* The charges the pass found due in the cache.
Asked(n) == {c \in Charge : \E j \in jobs[n] : j[1] = c}

\* What a node answers: the read names no minimum slot, so it may be one that has not seen
\* a closing yet.
ReadOpen == {open \cup missed : missed \in SUBSET behind}

\* Mutant of Refresh: the charges due are taken as the cache had them.
RefreshUnconfirmed(n) ==
  /\ pc[n] = "refresh"
  /\ \E read \in ReadOpen : \E told \in SUBSET (Asked(n) \ read) : due' = due \ told
  /\ jobs' = jobs
  /\ pc' = [pc EXCEPT ![n] = "deliver"]
  /\ UNCHANGED <<world, subs, claims, again, job, answer, gone, closedAt, past, faults>>

\* Chain to cache, then the question again: only charges the node showed open stay. The
\* cache learns of a closed permission, but not of an account that is gone.
Refresh(n) ==
  /\ pc[n] = "refresh"
  /\ \E read \in ReadOpen : \E told \in SUBSET (Asked(n) \ read) :
       /\ due' = due \ told
       /\ jobs' = [jobs EXCEPT ![n] =
            {j \in @ : j[1] \in Charge => j[1] \in (due \ told) \cap read /\ j[2] \in subs}]
  /\ pc' = [pc EXCEPT ![n] = "deliver"]
  /\ UNCHANGED <<world, subs, claims, again, job, answer, gone, closedAt, past, faults>>

IsNext(n, j) == j \in jobs[n] /\ \A i \in jobs[n] : i = j \/ Before(j, i)

\* A job of a subscription removed in this pass, or one somebody has claimed.
Skip(n, j) ==
  /\ pc[n] = "deliver" /\ IsNext(n, j)
  /\ j[2] \in gone[n] \/ j \in claims
  /\ jobs' = [jobs EXCEPT ![n] = @ \ {j}]
  /\ UNCHANGED <<world, db, pc, again, job, answer, gone, closedAt, past, faults>>

\* Mutant of Claim: the insert does not look at what others claimed.
ClaimUnconditionally(n, j) ==
  /\ pc[n] = "deliver" /\ IsNext(n, j)
  /\ j[2] \notin gone[n] /\ j[2] \in subs
  /\ claims' = claims \cup {j}
  /\ jobs' = [jobs EXCEPT ![n] = @ \ {j}]
  /\ job' = [job EXCEPT ![n] = j]
  /\ pc' = [pc EXCEPT ![n] = "send"]
  /\ UNCHANGED <<world, due, subs, again, answer, gone, closedAt, past, faults>>

Claim(n, j) ==
  /\ pc[n] = "deliver" /\ IsNext(n, j)
  /\ j[2] \notin gone[n] /\ j \notin claims /\ j[2] \in subs
  /\ claims' = claims \cup {j}
  /\ jobs' = [jobs EXCEPT ![n] = @ \ {j}]
  /\ job' = [job EXCEPT ![n] = j]
  /\ pc' = [pc EXCEPT ![n] = "send"]
  /\ UNCHANGED <<world, due, subs, again, answer, gone, closedAt, past, faults>>

\* The push service answers, or does not; a push whose answer is lost may have arrived.
Send(n, said) ==
  /\ pc[n] = "send"
  /\ \E arrives \in BOOLEAN :
       /\ said = "delivered" => arrives
       /\ arrives => said = "delivered" \/ (said = "unreachable" /\ LostAnswers)
       /\ buzzed' = IF arrives THEN [buzzed EXCEPT ![job[n]] = IF @ = 2 THEN 2 ELSE @ + 1]
                    ELSE buzzed
  /\ lost' = IF said = "refused" THEN lost \cup {job[n]} ELSE lost
  /\ answer' = [answer EXCEPT ![n] = said]
  /\ pc' = [pc EXCEPT ![n] = "settle"]
  /\ UNCHANGED <<world, db, again, jobs, job, gone, closedAt, faults>>

\* Mutant of Settle: an unreachable service keeps the claim.
SettleKeepsClaim(n) ==
  /\ pc[n] = "settle"
  /\ IF answer[n] = "gone"
     THEN /\ subs' = subs \ {job[n][2]}
          /\ claims' = {j \in claims : j[2] # job[n][2]}
          /\ gone' = [gone EXCEPT ![n] = @ \cup {job[n][2]}]
     ELSE UNCHANGED <<subs, claims, gone>>
  /\ job' = [job EXCEPT ![n] = NoJob] /\ answer' = [answer EXCEPT ![n] = "none"]
  /\ pc' = [pc EXCEPT ![n] = "deliver"]
  /\ UNCHANGED <<world, due, again, jobs, closedAt, past, faults>>

\* What the answer does to the subscription and the claim.
Settle(n) ==
  /\ pc[n] = "settle"
  /\ CASE answer[n] = "gone" ->
            /\ subs' = subs \ {job[n][2]}
            /\ claims' = {j \in claims : j[2] # job[n][2]}
            /\ gone' = [gone EXCEPT ![n] = @ \cup {job[n][2]}]
       [] answer[n] = "unreachable" ->
            claims' = claims \ {job[n]} /\ UNCHANGED <<subs, gone>>
       [] OTHER -> UNCHANGED <<subs, claims, gone>>
  /\ job' = [job EXCEPT ![n] = NoJob] /\ answer' = [answer EXCEPT ![n] = "none"]
  /\ pc' = [pc EXCEPT ![n] = "deliver"]
  /\ UNCHANGED <<world, due, again, jobs, closedAt, past, faults>>

\* Mutant of PassDone: a run asked for in the meantime is forgotten.
PassDoneForgetsRun(n) ==
  /\ pc[n] = "deliver" /\ jobs[n] = {}
  /\ again' = [again EXCEPT ![n] = FALSE]
  /\ pc' = [pc EXCEPT ![n] = "idle"]
  /\ gone' = [gone EXCEPT ![n] = {}] /\ closedAt' = [closedAt EXCEPT ![n] = {}]
  /\ UNCHANGED <<world, db, jobs, job, answer, past, faults>>

PassDone(n) ==
  /\ pc[n] = "deliver" /\ jobs[n] = {}
  /\ again' = [again EXCEPT ![n] = FALSE]
  /\ pc' = [pc EXCEPT ![n] = IF again[n] THEN "scan" ELSE "idle"]
  /\ gone' = [gone EXCEPT ![n] = {}] /\ closedAt' = [closedAt EXCEPT ![n] = {}]
  /\ UNCHANGED <<world, db, jobs, job, answer, past, faults>>

\* The pass is over with what it holds; a claim in hand stays as it is.
Drop(n) ==
  /\ pc' = [pc EXCEPT ![n] = "idle"]
  /\ jobs' = [jobs EXCEPT ![n] = {}]
  /\ gone' = [gone EXCEPT ![n] = {}] /\ closedAt' = [closedAt EXCEPT ![n] = {}]
  /\ job' = [job EXCEPT ![n] = NoJob] /\ answer' = [answer EXCEPT ![n] = "none"]
  /\ lost' = IF job[n] = NoJob THEN lost ELSE lost \cup {job[n]}
  /\ UNCHANGED <<world, db, buzzed>>

\* The pass throws: the node refuses the refresh, the claim names a subscription that
\* is gone, or the database fails. `again` stays as it was.
PassFails(n) ==
  /\ \/ /\ pc[n] # "idle"
        /\ pc[n] = "settle" => answer[n] \in {"gone", "unreachable"}
        /\ Fault
     \/ /\ pc[n] = "deliver"
        /\ \E j \in jobs[n] : IsNext(n, j) /\ j[2] \notin subs \cup gone[n]
        /\ UNCHANGED faults
  /\ Drop(n)
  /\ UNCHANGED again

\* The process dies; its successor starts with nothing in hand.
Crash(n) ==
  /\ pc[n] # "idle" \/ again[n]
  /\ Fault
  /\ Drop(n)
  /\ again' = [again EXCEPT ![n] = FALSE]

World ==
  \/ \E n \in Indexer, r \in Refusal : StoreRefusal(n, r)
  \/ \E o \in Refusal \cup Charge : Expire(o)
  \/ \E c \in Charge : ComesDue(c) \/ Closes(c) \/ NodesCatchUp(c)
  \/ \E b \in Browser : Unsubscribe(b)

Deliver(n) == \E j \in Job : Skip(n, j) \/ Claim(n, j)

Working(n) ==
  \/ Scan(n) \/ Refresh(n) \/ Deliver(n)
  \/ \E said \in Answers \ {"none"} : Send(n, said)
  \/ Settle(n) \/ PassDone(n) \/ PassFails(n)

Next ==
  \/ World
  \/ \E n \in Indexer : Timer(n) \/ Working(n) \/ Crash(n)

Spec == Init /\ [][Next]_vars

(***************************************************************************)
(* The timer fires, the event loop carries a pass on, and the push service *)
(* accepts a push it is offered again and again.                           *)
(***************************************************************************)
Fairness ==
  \A n \in Indexer :
    WF_vars(Timer(n)) /\ WF_vars(Working(n)) /\ SF_vars(Send(n, "delivered"))

FairSpec == Spec /\ Fairness

-----------------------------------------------------------------------------
\* "A notification reaches a browser at most once": two indexers, crashes between the
\* claim and the push, and retries never make a phone buzz twice for one occasion.
AtMostOnce == \A j \in Job : buzzed[j] <= 1

\* The push went out, was refused for good, or died with its process after the claim.
Settled(j) == buzzed[j] > 0 \/ j \in lost

\* A claim that is nobody's job any more is a push that went out or was refused for
\* good, unless its process died on it: no retry is blocked by a push never sent.
ClaimsWereSent ==
  \A j \in claims :
    Settled(j) \/ \E n \in Indexer : job[n] = j

\* With every variable in its range.
ClaimsHold == TypeOK /\ ClaimsWereSent

\* "The chain first": no push names a charge of a permission that every node knew to be
\* cancelled, paused or charged when the pass began, whatever the cache still says.
NoPushForClosed ==
  \A n \in Indexer : job[n] # NoJob => job[n][1] \notin closedAt[n]

\* Every refusal stored within its window is pushed to every browser that stays
\* subscribed, unless it grows too old first; an unreachable service only delays it.
RefusalsPushed ==
  \A r \in Refusal, b \in Browser :
    (r \in stored /\ b \in subs) ~>
      (Settled(<<r, b>>) \/ r \in expired \/ b \notin subs)

\* "A refusal goes out as soon as it is stored, not at the next scan": a run asked for
\* while a pass is running is not lost when that pass ends well.
RunNotLost ==
  [][\A n \in Indexer : again[n] /\ ~again'[n] => pc'[n] = "scan" \/ faults' > faults]_vars

\* Both: whatever is stored goes out.
EverythingGoesOut == RunNotLost /\ RefusalsPushed
=============================================================================
