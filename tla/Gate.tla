-------------------------------- MODULE Gate --------------------------------
(***************************************************************************)
(* What stands before the API's routes: the sliding window of requests per *)
(* client (apps/api rateLimit.ts), and the merchant's sign-in (auth.ts)    *)
(* with the one row it lets a merchant write (routes/merchants.ts).        *)
(*                                                                         *)
(* Time is counted in ticks, Second of them to a second; a clock that is   *)
(* set back is left out. A signed message is its number, which is also its *)
(* nonce, and the domain it names is this installation's.                  *)
(***************************************************************************)
EXTENDS Integers, Sequences, FiniteSets

CONSTANTS
  Client,         \* what clientIp tells apart
  Limit,          \* requests of a client in a window
  Span,           \* ticks of the window
  Second,         \* ticks of a second: Retry-After is rounded up to it
  SweepEvery,     \* requests between two sweeps of the windows
  Merchant,       \* wallets that sign in
  Owner,          \* the one that owns the plan
  MaxAge,         \* ticks a signature stays fresh
  TokenLife,      \* ticks a token is good for
  MaxClock,       \* bound: the clock stops
  MaxSigned,      \* bound: messages that are signed
  MaxTerms        \* bound: terms a plan may have

ASSUME GateAssumption ==
  /\ {Limit, Span, Second, SweepEvery, MaxAge, TokenLife, MaxClock} \subseteq Nat \ {0}
  /\ {MaxSigned, MaxTerms} \subseteq Nat
  /\ Owner \in Merchant

VARIABLES
  clock,
  windows,        \* the marks kept of each client, oldest first
  sinceSweep,     \* requests since the last sweep
  admitted,       \* history: when the last Limit + 1 requests of each client were admitted
  retry,          \* history: when a refused client was told to come back; 0: not refused since
  signed,         \* the messages that were signed, in order
  nonces,         \* when each nonce that was used is forgotten; 0: not in the log
  verifying,      \* how many requests of each message wait for its signature
  firstUsed,      \* history: when each message was first presented; 0: never
  bought,         \* history: tokens issued for each message
  token,          \* when the last token of each merchant runs out
  plan,           \* the plan's terms on the chain; 0: there is none
  naming,         \* a request to name the plan: its merchant, and the terms it has read
  row             \* the plan's row in the catalog

limitVars == <<windows, sinceSweep, admitted, retry>>
signVars  == <<signed, nonces, verifying, firstUsed, bought, token>>
nameVars  == <<plan, naming, row>>
gateVars  == <<clock, limitVars, signVars, nameVars>>

Messages == 1 .. MaxSigned
NoRow    == [merchant |-> Owner, terms |-> 0]
NoNaming == [merchant |-> Owner, terms |-> -1]

GateInit ==
  /\ clock = 1
  /\ windows = [c \in Client |-> <<>>] /\ sinceSweep = 0
  /\ admitted = [c \in Client |-> <<>>] /\ retry = [c \in Client |-> 0]
  /\ signed = <<>> /\ token = [w \in Merchant |-> 0]
  /\ nonces = [m \in Messages |-> 0] /\ verifying = [m \in Messages |-> 0]
  /\ firstUsed = [m \in Messages |-> 0] /\ bought = [m \in Messages |-> 0]
  /\ plan = 1 /\ naming = NoNaming /\ row = NoRow

Tick == clock < MaxClock /\ clock' = clock + 1 /\ UNCHANGED <<limitVars, signVars, nameVars>>

-----------------------------------------------------------------------------
\* rateLimit.ts. A mark is alive while it is less than a window old.
AliveAtOnce(marks) ==
  IF marks # <<>> /\ marks[1] <= clock - Span THEN <<>> ELSE marks

\* prune: the marks stand in the order of time, so all before the first live one go.
FirstAlive(marks) ==
  CHOOSE i \in DOMAIN marks :
    marks[i] > clock - Span /\ \A j \in 1 .. i - 1 : marks[j] <= clock - Span

Alive(marks) ==
  IF \E i \in DOMAIN marks : marks[i] > clock - Span
  THEN SubSeq(marks, FirstAlive(marks), Len(marks)) ELSE <<>>

RecordedToo(c) == Append(Alive(windows[c]), clock)

\* A refused request leaves no mark of itself.
Recorded(c) == IF Len(Alive(windows[c])) >= Limit THEN Alive(windows[c]) ELSE Append(Alive(windows[c]), clock)

Admits(c) == Len(Alive(windows[c])) < Limit

\* Retry-After, in whole seconds.
ResetSeconds(c) ==
  LET left == Alive(windows[c])[1] + Span - clock IN (left + Second - 1) \div Second

\* Every so many requests the windows of clients that went away are dropped.
Swept == [c \in Client |-> Alive(windows[c])]

Request(c) ==
  /\ sinceSweep' = (sinceSweep + 1) % SweepEvery
  /\ windows' = [(IF sinceSweep' = 0 THEN Swept ELSE windows) EXCEPT ![c] = Recorded(c)]
  /\ IF Admits(c)
     THEN /\ admitted' = [admitted EXCEPT ![c] = IF Len(@) <= Limit THEN Append(@, clock)
                                                 ELSE Append(Tail(@), clock)]
          /\ retry' = [retry EXCEPT ![c] = 0]
     ELSE /\ retry' = [retry EXCEPT ![c] = IF @ = 0 THEN clock + ResetSeconds(c) * Second ELSE @]
          /\ UNCHANGED admitted
  /\ UNCHANGED <<clock, signVars, nameVars>>

-----------------------------------------------------------------------------
\* A wallet signs a message in its own name or, mistakenly, in another's; its clock may
\* differ by a tick.
Sign ==
  /\ Len(signed) < MaxSigned
  /\ \E wallet, by \in Merchant, skew \in {-1, 0, 1} :
       signed' = Append(signed, [wallet |-> wallet, by |-> by, at |-> clock + skew])
  /\ UNCHANGED <<clock, limitVars, nonces, verifying, firstUsed, bought, token, nameVars>>

Distance(m) == IF clock > signed[m].at THEN clock - signed[m].at ELSE signed[m].at - clock

Fresh(m) == Distance(m) <= MaxAge

\* NonceLog: what has expired is forgotten before the log is asked.
Forgotten == [m \in Messages |-> IF nonces[m] <= clock THEN 0 ELSE nonces[m]]

ClaimForgetful(m) == nonces' = [Forgotten EXCEPT ![m] = clock + 1] /\ Forgotten[m] = 0

Claim(m) == nonces' = [Forgotten EXCEPT ![m] = clock + MaxAge] /\ Forgotten[m] = 0

\* verifySignIn: the nonce is used up before the signature is looked at. The same message
\* comes again when its answer was lost.
SignIn(m) ==
  /\ m \in DOMAIN signed
  /\ Fresh(m)
  /\ \/ Claim(m) /\ verifying' = [verifying EXCEPT ![m] = @ + 1]
     \/ Forgotten[m] # 0 /\ nonces' = Forgotten /\ UNCHANGED verifying
  /\ firstUsed' = [firstUsed EXCEPT ![m] = IF @ = 0 THEN clock ELSE @]
  /\ UNCHANGED <<clock, limitVars, signed, bought, token, nameVars>>

\* issueMerchantToken
Verified(m) ==
  /\ verifying[m] > 0
  /\ verifying' = [verifying EXCEPT ![m] = @ - 1]
  /\ IF signed[m].wallet = signed[m].by
     THEN /\ token' = [token EXCEPT ![signed[m].wallet] = clock + TokenLife]
          /\ bought' = [bought EXCEPT ![m] = @ + 1]
     ELSE UNCHANGED <<token, bought>>
  /\ UNCHANGED <<clock, limitVars, signed, nonces, firstUsed, nameVars>>

-----------------------------------------------------------------------------
\* The owner closes the plan and creates it again, on other terms.
PlanChanges ==
  /\ plan' \in IF plan = 0 THEN 1 .. MaxTerms ELSE {0}
  /\ UNCHANGED <<clock, limitVars, signVars, naming, row>>

\* merchantAuth: a token that has not run out names its merchant.
MerchantFromToken == {w \in Merchant : token[w] > clock}

NamePlan ==
  /\ naming = NoNaming
  /\ \E merchant \in MerchantFromToken : naming' = [merchant |-> merchant, terms |-> 0]
  /\ UNCHANGED <<clock, limitVars, signVars, plan, row>>

MayNameAny(merchant) == plan # 0

MayName(merchant) == plan # 0 /\ merchant = Owner

\* The plan is read, and refused, before anything is written.
ReadPlan ==
  /\ naming # NoNaming /\ naming.terms = 0
  /\ naming' = IF MayName(naming.merchant) THEN [naming EXCEPT !.terms = plan] ELSE NoNaming
  /\ UNCHANGED <<clock, limitVars, signVars, plan, row>>

\* planRowFrom: all but the name is what was read.
SavePlan ==
  /\ naming # NoNaming /\ naming.terms # 0
  /\ row' = naming
  /\ naming' = NoNaming
  /\ UNCHANGED <<clock, limitVars, signVars, plan>>

LimitNext == Tick \/ \E c \in Client : Request(c)

SignInNext ==
  \/ Tick \/ Sign \/ PlanChanges \/ NamePlan \/ ReadPlan \/ SavePlan
  \/ \E m \in Messages : SignIn(m) \/ Verified(m)

-----------------------------------------------------------------------------
\* No client is admitted more often than the limit in any stretch as long as the window,
\* at the border of two minutes either (rateLimit.ts:9-12).
NeverOverLimit ==
  \A c \in Client : Len(admitted[c]) > Limit => admitted[c][Limit + 1] - admitted[c][1] >= Span

\* Who comes back when it was told to is let in, however often it asked in between.
RetryKept == \A c \in Client : retry[c] # 0 /\ clock >= retry[c] => Admits(c)

\* A signature buys one token, however often it is presented and however the requests
\* meet; of a signer whose clock was behind ours.
OneTokenEach ==
  \A m \in DOMAIN signed : signed[m].at < firstUsed[m] => bought[m] <= 1

\* The plan's row is its owner's, whose own signature was behind the name.
NamedByOwner ==
  row # NoRow =>
    /\ row.merchant = Owner
    /\ \E m \in DOMAIN signed : signed[m].wallet = row.merchant /\ signed[m].by = row.merchant

-----------------------------------------------------------------------------
(***************************************************************************)
(* Why the gate holds.                                                     *)
(***************************************************************************)

GateTypeOK ==
  /\ clock \in 1 .. MaxClock
  /\ windows \in [Client -> Seq(Nat)] /\ admitted \in [Client -> Seq(Nat)]
  /\ sinceSweep \in 0 .. SweepEvery - 1 /\ retry \in [Client -> Nat]
  /\ signed \in Seq([wallet : Merchant, by : Merchant, at : Nat]) /\ Len(signed) <= MaxSigned
  /\ {nonces, verifying, firstUsed, bought} \subseteq [Messages -> Nat]
  /\ token \in [Merchant -> Nat] /\ plan \in Nat
  /\ naming \in [merchant : Merchant, terms : Int] /\ row \in [merchant : Merchant, terms : Int]

\* A window holds the last admissions of its client; those it does not hold are too old to count.
WindowKept ==
  \A c \in Client :
    LET kept == Len(windows[c])
        seen == Len(admitted[c]) IN
      /\ kept <= Limit /\ kept <= seen /\ seen <= Limit + 1
      /\ \A i \in 1 .. kept : windows[c][i] = admitted[c][seen - kept + i]
      /\ \A i \in 1 .. seen - kept : admitted[c][i] <= clock - Span

\* A full window opens when its client was told it would.
RetryTold ==
  \A c \in Client :
    retry[c] # 0 /\ Len(windows[c]) = Limit => windows[c][1] + Span <= retry[c]

\* A nonce is remembered for as long as its message stays fresh.
NonceKept ==
  \A m \in Messages :
    /\ firstUsed[m] <= clock
    /\ firstUsed[m] = 0 => nonces[m] = 0 /\ verifying[m] = 0 /\ bought[m] = 0
    /\ firstUsed[m] # 0 =>
         /\ m \in DOMAIN signed
         /\ signed[m].at < firstUsed[m] =>
              /\ bought[m] + verifying[m] <= 1
              /\ nonces[m] = firstUsed[m] + MaxAge \/ clock >= firstUsed[m] + MaxAge

Vouched(wallet) == \E m \in DOMAIN signed : signed[m].wallet = wallet /\ signed[m].by = wallet

\* Behind a token, and a request in its name, is the wallet's own signature.
NamesVouched ==
  /\ \A wallet \in Merchant : token[wallet] # 0 => Vouched(wallet)
  /\ naming # NoNaming =>
       Vouched(naming.merchant) /\ (naming.terms # 0 => naming.merchant = Owner)

GateInv ==
  GateTypeOK /\ WindowKept /\ NeverOverLimit /\ RetryTold /\ NonceKept /\ NamesVouched /\ NamedByOwner
=============================================================================
