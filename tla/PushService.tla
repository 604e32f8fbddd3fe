----------------------------- MODULE PushService -----------------------------
(***************************************************************************)
(* Web Push at the self-hosted signaling server: the subscriptions of one  *)
(* phone, and the deliveries that agent state reports of Macs start.  A    *)
(* delivery runs on the reader goroutine of the connection the report came *)
(* on; it copies the list under the lock, sends without it, and takes it   *)
(* again to prune what the browsers' push services reported gone.          *)
(***************************************************************************)
EXTENDS Integers, Sequences, SequencesExt, Subsequence

CONSTANTS
  Readers,            \* connections of Macs, each with a reader goroutine
  Endpoints,          \* what a browser's push service gave it to subscribe with
  Statuses,           \* agent statuses that are reported (protocol numbers)
  MaxSubscriptions,   \* bound: calls of Register
  MaxReports          \* bound: reports read on each connection

VARIABLES
  subs,       \* the phone's subscriptions, as Register appended them
  gone,       \* endpoints that are no longer subscribed to
  stage,      \* where each reader is
  reports,    \* how many reports were read on each connection
  list,       \* the delivery's copy of the subscriptions
  next,       \* ... the index of the next one to send to
  dead        \* ... and the indexes that were answered with gone or not found

deliveryVars == <<list, next, dead>>
vars == <<subs, gone, stage, reports, deliveryVars>>

Stages == {"idle", "delivering", "sending", "pruning"}

\* A report's payload as the Mac encodes it: its kind, and the event under it.
PayloadKeys == {"kind", "agentStateEvent"}

Init ==
  /\ subs = <<>>
  /\ gone = {}
  /\ stage = [r \in Readers |-> "idle"]
  /\ reports = [r \in Readers |-> 0]
  /\ list = [r \in Readers |-> <<>>]
  /\ next = [r \in Readers |-> 1]
  /\ dead = [r \in Readers |-> {}]

-----------------------------------------------------------------------------
(* The browser.                                                            *)

\* Each registration is appended, also one the list already has.
Register(e) ==
  /\ e \notin gone
  /\ Len(subs) < MaxSubscriptions
  /\ subs' = Append(subs, e)
  /\ UNCHANGED <<gone, stage, reports, deliveryVars>>

EndpointGoes(e) ==
  /\ e \notin gone
  /\ gone' = gone \cup {e}
  /\ UNCHANGED <<subs, stage, reports, deliveryVars>>

-----------------------------------------------------------------------------
(* The server.                                                             *)

Pushes(s) == s >= 3 \/ s = 5

\* RouteEnvelope asks for the payload's kind, which is the first key that
\* ranging over a map comes to: any of them.
Report(r) ==
  /\ stage[r] = "idle"
  /\ reports[r] < MaxReports
  /\ reports' = [reports EXCEPT ![r] = @ + 1]
  /\ \E s \in Statuses, kind \in PayloadKeys :
       stage' = [stage EXCEPT
                   ![r] = IF kind = "agentStateEvent" /\ Pushes(s)
                          THEN "delivering" ELSE "idle"]
  /\ UNCHANGED <<subs, gone, deliveryVars>>

StartDelivery(r) ==
  /\ stage[r] = "delivering"
  /\ list' = [list EXCEPT ![r] = subs]
  /\ next' = [next EXCEPT ![r] = 1]
  /\ dead' = [dead EXCEPT ![r] = {}]
  /\ stage' = [stage EXCEPT ![r] = IF subs = <<>> THEN "idle" ELSE "sending"]
  /\ UNCHANGED <<subs, gone, reports>>

\* A push to an endpoint that is gone may also fail in another way.
SendNext(r) ==
  /\ stage[r] = "sending"
  /\ next[r] <= Len(list[r])
  /\ next' = [next EXCEPT ![r] = @ + 1]
  /\ \/ UNCHANGED dead
     \/ /\ list[r][next[r]] \in gone
        /\ dead' = [dead EXCEPT ![r] = @ \cup {next[r]}]
  /\ UNCHANGED <<subs, gone, stage, reports, list>>

EndDelivery(r) ==
  /\ stage[r] = "sending"
  /\ next[r] > Len(list[r])
  /\ stage' = [stage EXCEPT ![r] = IF dead[r] = {} THEN "idle" ELSE "pruning"]
  /\ UNCHANGED <<subs, gone, reports, deliveryVars>>

Without(s, indexes) == Keep(s, DOMAIN s \ indexes)

\* Mutant: what is kept is the delivery's own copy.
PruneCopy(r) ==
  /\ stage[r] = "pruning"
  /\ subs' = Without(list[r], dead[r])
  /\ stage' = [stage EXCEPT ![r] = "idle"]
  /\ UNCHANGED <<gone, reports, deliveryVars>>

\* The indexes are applied to the list as it is by now.
Prune(r) ==
  /\ stage[r] = "pruning"
  /\ subs' = Without(subs, dead[r])
  /\ stage' = [stage EXCEPT ![r] = "idle"]
  /\ UNCHANGED <<gone, reports, deliveryVars>>

Next ==
  \/ \E e \in Endpoints : Register(e) \/ EndpointGoes(e)
  \/ \E r \in Readers :
       \/ Report(r) \/ StartDelivery(r)
       \/ SendNext(r) \/ EndDelivery(r) \/ Prune(r)

Spec == Init /\ [][Next]_vars

-----------------------------------------------------------------------------
(* Properties.                                                             *)

TypeOK ==
  /\ subs \in Seq(Endpoints)
  /\ gone \subseteq Endpoints
  /\ stage \in [Readers -> Stages]
  /\ reports \in [Readers -> 0..MaxReports]
  /\ list \in [Readers -> Seq(Endpoints)]
  /\ next \in [Readers -> Nat]
  /\ \A r \in Readers : dead[r] \subseteq 1..Len(list[r])

\* A stored subscription is pruned only when its browser is gone: deliveries
\* go to every subscription of the phone (Deliver, Register).
LiveSubscriptionStays ==
  [][ToSet(subs) \ ToSet(subs') \subseteq gone]_vars
=============================================================================
