---------------------------- MODULE PushSettings ----------------------------
(***************************************************************************)
(* Turning notifications on and off in one browser: the switch of the      *)
(* connected wallet (apps/web lib/usePush.ts), its controller              *)
(* (lib/push.ts) and the API's rows of push subscriptions (apps/api        *)
(* routes/push.ts, push.ts). Calls of the controller interleave: a wallet  *)
(* may be switched, or the page reloaded, while one is under way.          *)
(*                                                                         *)
(* An endpoint is a number, and carries the keys of its subscription. What *)
(* the page does between two answers is one step.                          *)
(***************************************************************************)
EXTENDS Naturals, Sequences

CONSTANTS
  Wallet,         \* wallets that may be connected
  None,           \* no wallet, or no subscription
  MaxCalls,       \* bound: calls of the controller
  MaxEndpoints,   \* bound: subscriptions the browser ever makes
  MaxLost,        \* bound: requests or answers that are lost
  MaxChanges      \* bound: changes of key or permission, lost rows, reloads

ASSUME PushBounds ==
  {MaxCalls, MaxLost, MaxChanges} \subseteq Nat /\ MaxEndpoints \in Nat \ {0} /\ None \notin Wallet

VARIABLES
  owner,        \* the connected wallet
  switch,       \* the status shown
  permission,   \* Notification.permission
  sub,          \* the endpoint the browser holds; 0: none
  madeWith,     \* the key of each endpoint made so far, in order
  followed,     \* the wallets the browser's own list names
  calls,        \* calls of the controller, in the order they were made
  check,        \* the status call whose answer the switch waits for; 0: none
  busy,         \* the change under way; 0: none
  key,          \* the server's public key; 0: push is off there
  rows,         \* push_subscriptions: pairs of endpoint and owner
  welcomed,     \* history: the pairs a welcome was delivered to
  answers,      \* history: whose status the switch shows, since when, and if the server said so
  turnedOff,    \* history: wallets turned off here and not touched since
  crossed,      \* history: wallets a change of which met another call of theirs
  met,          \* history: the last change of the world met a call under way
  lost, changes \* bounds

browserVars == <<permission, sub, madeWith, followed>>
serverVars  == <<key, rows, welcomed>>
pageVars    == <<owner, switch, check, busy, answers>>
world       == <<changes, met>>
pastVars    == <<turnedOff, crossed, lost, world>>
pushVars    == <<browserVars, serverVars, pageVars, calls, pastVars>>

Live(e) == e = sub        \* unsubscribed or replaced, a push service answers 410

\* Where a call can be: at the browser or the server, answered, or over.
Places == {"permission", "key", "browser", "clearing", "cleared", "asked", "saving", "deleting",
           "accepted", "refused", "failing", "deleted", "undeleted", "over"}

Under(call) == call.at # "over"

\* Of what it learnt, a call keeps only what it still uses.
Call(kind, at) ==
  [kind |-> kind, owner |-> owner, at |-> at, sub |-> 0, key |-> 0, rest |-> {},
   since |-> changes, here |-> TRUE]

\* One that has ended, or was left by its page.
Over == [kind |-> "status", owner |-> None, at |-> "over", sub |-> 0, key |-> 0, rest |-> {},
         since |-> 0, here |-> FALSE]

\* A browser on its first visit, or one where every wallet was turned on before.
PushInit ==
  /\ owner = None /\ switch = "none" /\ check = 0 /\ busy = 0 /\ calls = <<>>
  /\ \/ /\ permission = "default" /\ sub = 0 /\ madeWith = <<>>
        /\ followed = {} /\ rows = {} /\ welcomed = {}
     \/ /\ permission = "granted" /\ sub = 1 /\ madeWith = <<1>>
        /\ followed = Wallet /\ rows = {1} \X Wallet /\ welcomed = {1} \X Wallet
  /\ key = 1
  /\ answers = [owner |-> None, since |-> 0, accepted |-> FALSE]
  /\ turnedOff = {} /\ crossed = {} /\ lost = 0 /\ changes = 0 /\ met = FALSE

Lose   == lost < MaxLost /\ lost' = lost + 1
Change(goingOn) ==
  /\ changes < MaxChanges /\ changes' = changes + 1
  /\ met' = \E n \in DOMAIN calls : calls[n].at \in goingOn

-----------------------------------------------------------------------------
\* A call of a wallet begins; a change that meets another call of its wallet is noted.
Begins(call) ==
  /\ Len(calls) < MaxCalls
  /\ calls' = Append(calls, call)
  /\ crossed' =
       IF \E n \in DOMAIN calls :
            /\ Under(calls[n]) /\ calls[n].owner = call.owner
            /\ {"enable", "disable"} \cap {call.kind, calls[n].kind} # {}
       THEN crossed \cup {call.owner} ELSE crossed

\* A wallet is connected, or another one: what the switch waited for is no longer its answer.
Connect ==
  /\ \E wallet \in Wallet \ {owner} :
       /\ owner' = wallet
       /\ Begins([Call("status", "key") EXCEPT !.owner = wallet])
  /\ switch' = "checking"
  /\ check' = Len(calls) + 1
  /\ UNCHANGED <<browserVars, serverVars, busy, answers, turnedOff, lost, world>>

Disconnect ==
  /\ owner # None
  /\ owner' = None
  /\ check' = 0
  /\ UNCHANGED <<browserVars, serverVars, switch, busy, answers, calls, pastVars>>

\* The switch offers one change, and none while another is under way.
Click ==
  /\ owner # None /\ busy = 0
  /\ \/ switch = "off" /\ Begins(Call("enable", "permission"))
     \/ switch = "on" /\ Begins(Call("disable", "browser"))
  /\ busy' = Len(calls) + 1
  /\ turnedOff' = turnedOff \ {owner}
  /\ UNCHANGED <<browserVars, serverVars, owner, switch, check, answers, lost, world>>

AtServer == {"asked", "saving", "deleting"}

\* The page is loaded anew: its calls end, what they had asked the server goes on.
Reload ==
  /\ owner # None /\ Change(AtServer)
  /\ Len(calls) < MaxCalls
  /\ calls' = Append([n \in DOMAIN calls |->
                        IF calls[n].at \in AtServer
                        THEN [calls[n] EXCEPT !.here = FALSE]
                        ELSE Over],
                     [Call("status", "key") EXCEPT !.since = changes'])
  /\ crossed' = crossed \cup
       {calls[n].owner : n \in {m \in DOMAIN calls : Under(calls[m]) /\ calls[m].kind # "status"}}
  /\ switch' = "checking" /\ check' = Len(calls) + 1 /\ busy' = 0
  /\ UNCHANGED <<browserVars, serverVars, owner, answers, turnedOff, lost>>

-----------------------------------------------------------------------------
LandsAnywhere(n, status) == status # "failed"

\* The answer of call n: a status lands on the wallet it is of, a change on the wallet
\* that is connected still; a change that failed leaves the switch as it was.
Lands(n, status) ==
  IF calls[n].kind = "status" THEN check = n ELSE owner = calls[n].owner /\ status # "failed"

AnsweredStuck(n, status) ==
  /\ calls' = [calls EXCEPT ![n] = Over]
  /\ switch' = IF Lands(n, status) /\ status # "failed" THEN status ELSE switch
  /\ answers' = IF Lands(n, status)
                THEN [owner |-> calls[n].owner, since |-> calls[n].since, accepted |-> calls[n].at = "accepted"]
                ELSE [answers EXCEPT !.accepted = @ /\ status # "failed"]
  /\ busy' = IF busy = n /\ status # "failed" THEN 0 ELSE busy
  /\ check' = IF check = n THEN 0 ELSE check
  /\ turnedOff' = IF calls[n].kind = "disable" /\ status = "off"
                  THEN turnedOff \cup {calls[n].owner} ELSE turnedOff
  /\ UNCHANGED <<owner, crossed>>

Answered(n, status) ==
  /\ calls' = [calls EXCEPT ![n] = Over]
  /\ IF Lands(n, status)
     THEN /\ switch' = IF status = "failed" THEN "off" ELSE status
          /\ answers' = [owner |-> calls[n].owner, since |-> calls[n].since,
                          accepted |-> calls[n].at = "accepted"]
     ELSE /\ answers' = [answers EXCEPT !.accepted = @ /\ status # "failed"]
          /\ UNCHANGED switch
  /\ busy' = IF busy = n THEN 0 ELSE busy
  /\ check' = IF check = n THEN 0 ELSE check
  /\ turnedOff' = IF calls[n].kind = "disable" /\ status = "off"
                  THEN turnedOff \cup {calls[n].owner} ELSE turnedOff
  /\ UNCHANGED <<owner, crossed>>

Goes(n, at) == calls' = [calls EXCEPT ![n].at = at]

Stays == UNCHANGED <<pageVars, turnedOff, crossed>>

\* requestPermission, for a person who was not asked before.
AskPermission(n) ==
  /\ calls[n].at = "permission"
  /\ permission' \in IF permission = "default" THEN {"default", "granted", "denied"} ELSE {permission}
  /\ CASE permission' = "denied"  -> Answered(n, "blocked")
       [] permission' = "default" -> Answered(n, "off")
       [] permission' = "granted" -> Goes(n, "key") /\ Stays
  /\ UNCHANGED <<sub, madeWith, followed, serverVars, lost, world>>

\* GET /v1/push/key
ReadKey(n) ==
  /\ calls[n].at = "key"
  /\ \/ /\ key = 0
        /\ Answered(n, "disabled")
        /\ UNCHANGED lost
     \/ /\ key # 0
        /\ calls' = [calls EXCEPT ![n].at = "browser", ![n].key = key]
        /\ Stays /\ UNCHANGED lost
     \/ Lose /\ Answered(n, "failed")
  /\ UNCHANGED <<browserVars, serverVars, world>>

SameKeyUnasked(n) == TRUE

SameKey(n) == madeWith[sub] = calls[n].key

\* The browser's own list is not enough: it is held against the subscription there is.
CheckBrowser(n) ==
  /\ calls[n].kind = "status" /\ calls[n].at = "browser"
  /\ CASE permission = "denied" ->
            Answered(n, "blocked") /\ UNCHANGED followed
       [] permission # "denied" /\ (sub = 0 \/ calls[n].owner \notin followed) ->
            Answered(n, "off") /\ UNCHANGED followed
       [] permission # "denied" /\ sub # 0 /\ calls[n].owner \in followed ->
            IF SameKey(n)
            THEN /\ calls' = [calls EXCEPT ![n].at = "asked", ![n].sub = sub]
                 /\ Stays /\ UNCHANGED followed
            ELSE Answered(n, "off") /\ followed' = {}
  /\ UNCHANGED <<permission, sub, madeWith, serverVars, lost, world>>

\* manager.subscribe: a new endpoint, unless the person has blocked the site since.
Subscribes(n) ==
  IF permission = "granted"
  THEN /\ Len(madeWith) < MaxEndpoints
       /\ madeWith' = Append(madeWith, calls[n].key)
       /\ sub' = Len(madeWith) + 1
       /\ calls' = [calls EXCEPT ![n].at = "asked", ![n].sub = Len(madeWith) + 1]
       /\ Stays
  ELSE sub' = 0 /\ Answered(n, "blocked") /\ UNCHANGED madeWith

EnableBrowser(n) ==
  /\ calls[n].kind = "enable" /\ calls[n].at = "browser"
  /\ CASE sub # 0 /\ ~SameKey(n) ->
            /\ calls' = [calls EXCEPT ![n].at = "clearing", ![n].sub = sub]
            /\ Stays /\ UNCHANGED <<sub, madeWith>>
       [] sub # 0 /\ SameKey(n) ->
            /\ calls' = [calls EXCEPT ![n].at = "asked", ![n].sub = sub]
            /\ Stays /\ UNCHANGED <<sub, madeWith>>
       [] sub = 0 -> Subscribes(n)
  /\ UNCHANGED <<permission, followed, serverVars, lost, world>>

\* The endpoint of another key is deleted at the server, whether or not that works ...
ClearEndpoint(n) ==
  /\ calls[n].at = "clearing"
  /\ \/ /\ rows' = IF key = 0 THEN rows ELSE {row \in rows : row[1] # calls[n].sub}
        /\ UNCHANGED lost
     \/ Lose /\ UNCHANGED rows
  /\ Goes(n, "cleared")
  /\ Stays /\ UNCHANGED <<browserVars, key, welcomed, world>>

\* ... and replaced in the browser.
Replace(n) ==
  /\ calls[n].at = "cleared"
  /\ Subscribes(n)
  /\ followed' = {}
  /\ UNCHANGED <<permission, serverVars, lost, world>>

-----------------------------------------------------------------------------
DisableBrowser(n) ==
  /\ calls[n].kind = "disable" /\ calls[n].at = "browser"
  /\ LET rest == followed \ {calls[n].owner} IN
       IF sub = 0
       THEN Answered(n, "off") /\ followed' = rest
       ELSE /\ calls' = [calls EXCEPT ![n].at = "deleting", ![n].sub = sub, ![n].rest = rest]
            /\ Stays /\ UNCHANGED followed
  /\ UNCHANGED <<permission, sub, madeWith, serverVars, lost, world>>

\* The rows a DELETE names: all of the endpoint after the last wallet, else one.
Named(n) ==
  {row \in rows : row[1] = calls[n].sub /\ (calls[n].rest = {} \/ row[2] = calls[n].owner)}

\* What the server did with a request, told to the page if it is still there.
Tells(n, at) == IF calls[n].here THEN Goes(n, at) ELSE calls' = [calls EXCEPT ![n] = Over]

DeleteRows(n) ==
  /\ calls[n].at = "deleting"
  /\ \/ /\ key # 0
        /\ rows' = rows \ Named(n)
        /\ \/ Tells(n, "deleted") /\ UNCHANGED lost
           \/ Tells(n, "undeleted") /\ Lose
     \/ /\ Tells(n, "undeleted")
        /\ \/ key = 0 /\ UNCHANGED lost
           \/ key # 0 /\ Lose
        /\ UNCHANGED rows
  /\ Stays /\ UNCHANGED <<browserVars, key, welcomed, world>>

DeletedRegardless(n) ==
  /\ calls[n].at \in {"deleted", "undeleted"}
  /\ sub' = IF calls[n].rest = {} /\ sub = calls[n].sub THEN 0 ELSE sub
  /\ followed' = calls[n].rest
  /\ Answered(n, "off")
  /\ UNCHANGED <<permission, madeWith, serverVars, lost, world>>

\* After the last wallet the browser drops the endpoint itself, whatever the server said.
Deleted(n) ==
  /\ calls[n].at \in {"deleted", "undeleted"}
  /\ IF calls[n].rest = {} \/ calls[n].at = "deleted"
     THEN /\ sub' = IF calls[n].rest = {} /\ sub = calls[n].sub THEN 0 ELSE sub
          /\ followed' = calls[n].rest
          /\ Answered(n, "off")
     ELSE Answered(n, "failed") /\ UNCHANGED <<sub, followed>>
  /\ UNCHANGED <<permission, madeWith, serverVars, lost, world>>

-----------------------------------------------------------------------------
LookUpTrusting(n) ==
  /\ calls[n].at = "asked"
  /\ LET row == <<calls[n].sub, calls[n].owner>> IN
       \/ key # 0 /\ row \in rows /\ Tells(n, "accepted") /\ UNCHANGED <<welcomed, lost>>
       \/ key # 0 /\ row \notin rows /\ Goes(n, "saving") /\ UNCHANGED <<welcomed, lost>>
       \/ Lose /\ Tells(n, "failing") /\ UNCHANGED welcomed
       \/ key = 0 /\ Tells(n, "failing") /\ UNCHANGED <<welcomed, lost>>
  /\ Stays /\ UNCHANGED <<browserVars, key, rows, world>>

\* POST /v1/push/subscribe: a row that is there is answered at once, a new one is proven
\* by a welcome push first, which the service delivers to a live endpoint of our key only.
LookUp(n) ==
  /\ calls[n].at = "asked"
  /\ LET row == <<calls[n].sub, calls[n].owner>> IN
       \/ key = 0 /\ Tells(n, "failing") /\ UNCHANGED <<welcomed, lost>>
       \/ key # 0 /\ row \in rows /\ Tells(n, "accepted") /\ UNCHANGED <<welcomed, lost>>
       \/ /\ key # 0 /\ row \notin rows
          /\ IF Live(row[1]) /\ madeWith[row[1]] = key
             THEN welcomed' = welcomed \cup {row} /\ Goes(n, "saving")
             ELSE Tells(n, "refused") /\ UNCHANGED welcomed
          /\ UNCHANGED lost
       \/ Lose /\ Tells(n, "failing") /\ UNCHANGED welcomed
  /\ Stays /\ UNCHANGED <<browserVars, key, rows, world>>

SaveRow(n) ==
  /\ calls[n].at = "saving"
  /\ \/ Tells(n, "accepted") /\ UNCHANGED lost /\ rows' = rows \cup {<<calls[n].sub, calls[n].owner>>}
     \/ Tells(n, "failing") /\ Lose /\ rows' \in {rows, rows \cup {<<calls[n].sub, calls[n].owner>>}}
  /\ Stays /\ UNCHANGED <<browserVars, key, welcomed, world>>

\* A status that could not be confirmed stays on: the browser holds the subscription.
SubscribeAnswered(n) ==
  /\ calls[n].at \in {"accepted", "refused", "failing"}
  /\ IF calls[n].kind = "status"
     THEN IF calls[n].at = "refused"
          THEN Answered(n, "off") /\ followed' = followed \ {calls[n].owner}
          ELSE Answered(n, "on") /\ UNCHANGED followed
     ELSE IF calls[n].at = "accepted"
          THEN Answered(n, "on") /\ followed' = followed \cup {calls[n].owner}
          ELSE Answered(n, "failed") /\ UNCHANGED followed
  /\ UNCHANGED <<permission, sub, madeWith, serverVars, lost, world>>

-----------------------------------------------------------------------------
\* An installation changes its keys, or has none; a database is restored.
Operator ==
  /\ Change(Places \ {"over"})
  /\ \/ key' \in {0, 1, 2} \ {key} /\ UNCHANGED rows
     \/ (\E row \in rows : rows' = rows \ {row}) /\ UNCHANGED key
  /\ UNCHANGED <<browserVars, welcomed, pageVars, calls, turnedOff, crossed, lost>>

\* In the browser's settings; a site that is blocked loses its subscription.
Person ==
  /\ Change(Places \ {"over"})
  /\ permission' \in {"default", "granted", "denied"} \ {permission}
  /\ sub' = IF permission' = "granted" THEN sub ELSE 0
  /\ UNCHANGED <<madeWith, followed, serverVars, pageVars, calls, turnedOff, crossed, lost>>

\* A push to a dead endpoint answers 410, and its row goes (Notifier).
IndexerRemoves ==
  /\ \E row \in rows : ~Live(row[1]) /\ rows' = rows \ {row}
  /\ UNCHANGED <<browserVars, key, welcomed, pageVars, calls, pastVars>>

\* What waits for nobody: the page's own steps and the server's.
Step(n) ==
  \/ ReadKey(n) \/ CheckBrowser(n) \/ EnableBrowser(n) \/ ClearEndpoint(n) \/ Replace(n)
  \/ DisableBrowser(n) \/ DeleteRows(n) \/ Deleted(n)
  \/ LookUp(n) \/ SaveRow(n) \/ SubscribeAnswered(n)

PushNext ==
  \/ Connect \/ Disconnect \/ Click \/ Reload
  \/ Operator \/ Person \/ IndexerRemoves
  \/ \E n \in DOMAIN calls : AskPermission(n) \/ Step(n)

-----------------------------------------------------------------------------
Row == (1 .. MaxEndpoints) \X Wallet

PushTypeOK ==
  /\ owner \in Wallet \cup {None}
  /\ switch \in {"none", "checking", "disabled", "blocked", "off", "on"}
  /\ sub \in 0 .. Len(madeWith) /\ Len(madeWith) <= MaxEndpoints
  /\ followed \subseteq Wallet /\ rows \subseteq welcomed /\ welcomed \subseteq Row
  /\ check \in 0 .. Len(calls) /\ busy \in 0 .. Len(calls)

\* The switch never shows one wallet what was found out, or done, for another.
SwitchIsOwners == owner # None /\ switch # "checking" => answers.owner = owner

NobodyAt(wallet) == \A n \in DOMAIN calls : calls[n].owner = wallet => ~Under(calls[n])

\* "on", until the world changes, if it did not change under a call: this browser is
\* subscribed under the key the server signs with, its list names the wallet, and the row
\* is there if the server said so.
OnIsReal ==
  owner # None /\ switch = "on" /\ answers.since = changes /\ ~met /\ NobodyAt(owner) /\ owner \notin crossed =>
    /\ sub # 0 /\ madeWith[sub] = key
    /\ owner \in followed
    /\ answers.accepted => <<sub, owner>> \in rows

\* A wallet that was turned off gets no push: no row of it is left under a live endpoint.
OffMeansNoPush ==
  \A wallet \in turnedOff \ crossed : \A row \in rows : row[2] = wallet => ~Live(row[1])

\* The switch never stays between two states: neither its status nor a change of it is
\* waited for to no end, unless for the person's answer.
SwitchAnswered ==
  []<>(/\ owner # None => switch # "checking"
       /\ busy # 0 => calls[busy].at = "permission")

-----------------------------------------------------------------------------
(***************************************************************************)
(* Why the switch is true.                                                 *)
(***************************************************************************)

CallRow ==
  [kind : {"status", "enable", "disable"}, owner : Wallet \cup {None}, at : Places, sub : Nat, key : Nat,
   rest : SUBSET Wallet, since : Nat, here : BOOLEAN]

PushTyped ==
  /\ PushTypeOK
  /\ permission \in {"default", "granted", "denied"} /\ madeWith \in Seq(Nat) /\ key \in Nat
  /\ welcomed \subseteq (1 .. Len(madeWith)) \X Wallet /\ turnedOff \subseteq Wallet
  /\ met \in BOOLEAN /\ changes \in Nat
  /\ answers \in [owner : Wallet \cup {None}, since : 0 .. changes, accepted : BOOLEAN]
  /\ calls \in Seq(CallRow)

Answering == {"accepted", "refused", "failing"}
Deleting  == {"deleting", "deleted", "undeleted"}

\* Where a call may be, and what it carries there; one that began since the last change of
\* the world knows the key.
CallSound(call) ==
  /\ Under(call) => call.owner \in Wallet /\ call.since <= changes /\ (call.here \/ call.at \in AtServer)
  /\ call.kind = "status" => call.at \notin {"permission", "clearing", "cleared"}
  /\ call.kind = "disable" => call.at \in Deleting \cup {"browser", "over"}
  /\ call.at \in Deleting => call.kind = "disable"
  /\ call.at \notin {"permission", "key", "browser", "over"} => call.sub \in 1 .. Len(madeWith)
  /\ call.at = "saving" => <<call.sub, call.owner>> \in welcomed
  /\ Under(call) /\ ~met =>
       /\ call.here /\ call.since = changes
       /\ call.kind # "disable" /\ call.at \notin {"permission", "key"} => call.key = key /\ key # 0

CallsSound == \A n \in DOMAIN calls : CallSound(calls[n])

\* The switch waits for a status call of the connected wallet.
CheckSound ==
  check # 0 =>
    /\ owner # None /\ calls[check].owner = owner /\ calls[check].kind = "status"
    /\ Under(calls[check]) /\ calls[check].here

\* One change at a time is this page's, ...
OneChange ==
  \A n \in DOMAIN calls : Under(calls[n]) /\ calls[n].here /\ calls[n].kind # "status" => n = busy

\* ... and it is its wallet's only call, or the wallet is crossed.
Alone ==
  \A n, m \in DOMAIN calls :
    n # m /\ Under(calls[n]) /\ Under(calls[m]) /\ calls[n].owner = calls[m].owner /\ calls[n].kind # "status" =>
      calls[n].owner \in crossed

\* A disable that is at the server keeps the subscription it is of, and every other wallet's
\* place in the browser's list.
DisableTrue(call) ==
  call.at \in Deleting /\ call.here =>
    /\ sub \in {0, call.sub}
    /\ followed \ {call.owner} \subseteq call.rest
    /\ call.owner \notin call.rest
    /\ call.rest \cap (turnedOff \ crossed) = {}
    /\ call.at = "deleted" /\ call.owner \notin crossed => <<sub, call.owner>> \notin rows

DisableSound == \A n \in DOMAIN calls : DisableTrue(calls[n])

\* A wallet that was turned off is not followed and has nothing at the server.
OffTrue(wallet) ==
  /\ wallet \notin followed
  /\ <<sub, wallet>> \notin rows
  /\ \A n \in DOMAIN calls :
       Under(calls[n]) /\ calls[n].owner = wallet => calls[n].kind = "status" /\ calls[n].at \in {"key", "browser"}

OffSound == \A wallet \in turnedOff \ crossed : OffTrue(wallet)

SubIsCurrent == sub # 0 /\ madeWith[sub] = key

\* What a call learnt of the browser is still so when it is answered, in a world that did
\* not change.
CallReal(call) ==
  ~met =>
    /\ call.at \in {"clearing", "cleared"} => sub = call.sub /\ ~SubIsCurrent
    /\ call.at \in {"asked", "saving"} \cup Answering /\ call.owner \notin crossed =>
         /\ call.sub = sub /\ SubIsCurrent /\ call.at # "refused"
         /\ call.kind = "status" => call.owner \in followed
         /\ call.at = "accepted" => <<sub, call.owner>> \in rows

CallsReal == \A n \in DOMAIN calls : CallReal(calls[n])

\* "on" stays true until the wallet's own disable has reached its rows.
OnStays ==
  owner # None /\ switch = "on" /\ answers.since = changes /\ ~met /\ owner \notin crossed =>
    /\ SubIsCurrent /\ owner \in followed
    /\ answers.accepted =>
         \/ <<sub, owner>> \in rows
         \/ \E n \in DOMAIN calls : calls[n].at \in {"deleted", "undeleted"} /\ calls[n].owner = owner

PushInv ==
  /\ PushTyped /\ CallsSound /\ CheckSound /\ OneChange /\ Alone /\ SwitchIsOwners
  /\ DisableSound /\ OffSound /\ CallsReal /\ OnStays
=============================================================================
