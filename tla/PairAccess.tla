----------------------------- MODULE PairAccess -----------------------------
(***************************************************************************)
(* One browser's access to one Mac of the same account, at the signaling   *)
(* hub (SignalingHub in cloudflare-signal/src/index.ts): the Mac takes it  *)
(* away, a newer sign-in or a link code gives it back, envelopes are       *)
(* authorized and queued, and approval requests are asked and decided.     *)
(* The pair's access is kept in five places: the account's pairing rows,   *)
(* the hub's denial list and its two caches, the relay's denial list, and  *)
(* the tombstone on the Mac.                                               *)
(*                                                                         *)
(* Handlers are tasks as in HostLink: a call is Waiting, served, answered  *)
(* or Lost, and a lost call may still be served later.                     *)
(***************************************************************************)
EXTENDS AccountPlane

CONSTANTS
  Account, Mac, Phone,   \* the account and the two devices
  Tasks,                 \* bound: handlers that may run at the same time, 1 .. n
  Workloads,             \* what is asked: functions from Kinds to counts
  Failing,               \* the calls whose answer may be lost
  MaxLosses, MaxRebuilds, MaxIds,   \* bounds
  Waiting, Lost

Kinds == {"revoke", "signin", "register", "claim", "phone", "host",
          "ask", "expire", "approve", "reject"}
M == 1    \* the Mac's row
B == 2    \* the browser's row

VARIABLES
  plane,      \* the account service's tables
  rows,       \* times in the pairing's row: its revocation, its re-authorization;
              \* and, a history, whether a revocation was ever lifted
  denied,     \* the hub's revokedPairs
  phoneAuth,  \* accountAuthorizationCache: "none", or "told" / "untold" to this Mac socket
  hostAuth,   \* hostEnvelopeAuthorizations
  relayDenied, \* the relay object's revokedDevices
  tombstone,  \* the Mac's registry: when it denied the browser, or 0
  signedIn,   \* when the browser's sign-in began, or 0; the one it registered with
  queued,     \* senders with an envelope in the offline queue
  on,         \* connected to the hub: of {"phone", "host"}
  task, late, left, faults, clock,
  confirmed,  \* history: device_revoked ok was sent and nothing gave access back since
  restored,   \* history: a link code's claim succeeded and no revocation ran since
  giving,     \* history: access was given back since the running revocation began
  leaked      \* history: an envelope was let through while it was confirmed

hub == <<denied, phoneAuth, hostAuth, queued>>
account == <<plane, rows, signedIn>>
vars == <<hub, account, relayDenied, tombstone, on, task, late, left, faults, clock,
          confirmed, restored, giving, leaked>>

NoTask == [kind |-> "idle", at |-> "idle", ans |-> Waiting, n |-> 0]

Linked == [EmptyPlane EXCEPT !.next = 3,
             !.devices = {[id |-> M, device |-> Mac, owner |-> Account],
                          [id |-> B, device |-> Phone, owner |-> Account]}]

Init ==
  /\ plane = Linked
  /\ rows = [revoked |-> 0, again |-> 0, lifted |-> FALSE]
  /\ denied = FALSE /\ phoneAuth = "none" /\ hostAuth = FALSE /\ relayDenied = FALSE
  /\ tombstone = 0 /\ signedIn = [now |-> 1, registered |-> 1] /\ clock = 1
  /\ queued = {} /\ on = {"phone", "host"}
  /\ task = [t \in Tasks |-> NoTask] /\ late = {}
  /\ left \in Workloads /\ faults = [lost |-> 0, rebuilt |-> 0]
  /\ confirmed = FALSE /\ restored = FALSE /\ giving = FALSE /\ leaked = FALSE

-----------------------------------------------------------------------------
(* Calls to the account service and to the relay object. *)

Revoked == RevokedPairing(plane, Account, M, B)
Paired == ActivePairing(plane, Account, M, B)
Pending == {r.id : r \in PendingApprovals(plane, M)}

Calls == {"find", "list", "unrevoke", "restore", "ensure", "deny", "revoke", "signout",
          "rows", "paired", "pending", "insert", "mark"}

\* Mutated: the pairing goes whether or not it was revoked.
LiftAnyPairing == Answer([plane EXCEPT !.pairings = {}], Revoked)
LiftPairing == DeleteRevokedPairings(plane, Account, M, B)

\* What serving call x changes outside the hub.
Answered(x) ==
  CASE x.at = "unrevoke" -> LiftPairing
    [] x.at = "ensure" -> EnsurePairing(plane, Account, M, B)
    [] x.at = "revoke" -> RevokePairing(plane, Account, M, B)
    [] x.at = "insert" -> InsertApproval(plane, Account, M, B)
    [] x.at = "mark"   -> MarkApproval(plane, x.n,
                            CASE x.kind = "approve" -> "approved"
                              [] x.kind = "reject" -> "rejected" [] OTHER -> "expired")
    [] x.at \in {"list", "rows"} -> Answer(plane, Revoked)
    [] x.at = "paired" -> Answer(plane, Paired)
    [] x.at = "pending" -> Answer(plane, Pending)
    [] OTHER -> Answer(plane, TRUE)

\* The relay's revokedDevices.
RelayDenial(x) == x.at = "deny" \/ (relayDenied /\ x.at # "restore")

Commit(x) ==
  LET r == Answered(x)
  IN  /\ x.at = "insert" => plane.next <= MaxIds
      /\ plane' = r.plane
      /\ clock' = IF x.at = "revoke" THEN clock + 1 ELSE clock
      /\ rows' = CASE x.at = "revoke" -> [rows EXCEPT !.revoked = clock', !.again = 0]
                   [] x.at = "unrevoke" -> [rows EXCEPT !.revoked = 0, !.lifted = @ \/ Revoked]
                   [] x.at = "ensure" /\ ~Paired /\ r.answer # Refused -> [rows EXCEPT !.again = x.n]
                   [] OTHER -> rows
      /\ relayDenied' = RelayDenial(x)
      /\ signedIn' = IF x.at = "signout" /\ signedIn.registered = signedIn.now
                     THEN [signedIn EXCEPT !.now = 0] ELSE signedIn
      /\ confirmed' = (confirmed /\ x.at # "unrevoke")
      /\ giving' = (giving \/ x.at \in {"unrevoke", "restore"})

Serve(t) ==
  /\ task[t].at \in Calls /\ task[t].ans = Waiting
  /\ Commit(task[t])
  /\ task' = [task EXCEPT ![t].ans = LET a == Answered(task[t]).answer
                                     IN  IF task[t].at = "ensure" /\ a # Refused THEN rows'.again ELSE a]
  /\ UNCHANGED <<hub, tombstone, on, late, left, faults, restored, leaked>>


\* What goes on without the handler: its call, and the rest of the relay's
\* own handler, which denies first and then asks the account service.
LeftBehind(x) ==
  IF x.at \in Calls /\ x.ans = Waiting THEN {x}
  ELSE IF x.at = "deny" /\ x.ans # Lost THEN {[x EXCEPT !.at = "revoke", !.ans = Waiting]} ELSE {}

\* Given up after ACCOUNT_PLANE_TIMEOUT_MS, or the answer failed on its way.
Lose(t) ==
  /\ task[t].at \in Calls \cap Failing /\ task[t].ans # Lost /\ faults.lost < MaxLosses
  /\ task' = [task EXCEPT ![t].ans = Lost]
  /\ faults' = [faults EXCEPT !.lost = @ + 1]
  /\ late' = late \cup LeftBehind(task[t])
  /\ UNCHANGED <<hub, account, relayDenied, tombstone, on, left, clock, confirmed, giving, restored, leaked>>

ServeLate(x) ==
  /\ x \in late
  /\ Commit(x)
  /\ late' = (late \ {x}) \cup LeftBehind([x EXCEPT !.ans = TRUE])
  /\ UNCHANGED <<hub, tombstone, on, task, left, faults, restored, leaked>>

NeverServed(x) ==
  /\ x \in late /\ late' = late \ {x}
  /\ UNCHANGED <<hub, account, relayDenied, tombstone, on, task, left, faults, clock,
                 confirmed, giving, restored, leaked>>

-----------------------------------------------------------------------------
(* Helpers of the handlers. *)

At(t, at) == task[t].at = at /\ task[t].ans # Waiting
Got(t) == task[t].ans
Failed(t) == Got(t) \in {Lost, Refused}
End(t) == task' = [task EXCEPT ![t] = NoTask]
Goto(t, at) == task' = [task EXCEPT ![t].at = at, ![t].ans = Waiting]
Free(t) == task[t] = NoTask /\ \A s \in Tasks : s < t => task[s] # NoTask

Start(t, kind, at) ==
  /\ Free(t) /\ left[kind] > 0
  /\ left' = [left EXCEPT ![kind] = @ - 1]
  /\ task' = [task EXCEPT ![t] = [NoTask EXCEPT !.kind = kind, !.at = at]]

\* acceptAuthorizedDevice on the Mac: only a newer re-authorization lifts its
\* own denial.
MacHears(time) ==
  tombstone' = IF "host" \in on /\ time > tombstone THEN 0 ELSE tombstone

Lifting == \E x \in late \cup {task[t] : t \in Tasks} : x.at \in {"unrevoke", "restore"}

Revoking == \E x \in late \cup {task[t] : t \in Tasks} : x.kind = "revoke"

ForgetCaches == phoneAuth' = "none" /\ hostAuth' = FALSE

-----------------------------------------------------------------------------
(* The Mac takes the access away: revokeAccountDevice, and the relay's       *)
(* revokeDevice inside it.                                                  *)

\* The Mac records its tombstone, then asks the hub.
Revoke(t) ==
  /\ "host" \in on /\ Start(t, "revoke", "find")
  /\ clock' = clock + 1 /\ restored' = FALSE
  /\ tombstone' = IF tombstone = 0 THEN clock' ELSE tombstone
  /\ UNCHANGED <<hub, account, relayDenied, on, late, faults, confirmed, giving, leaked>>

RevokeFound(t) ==
  /\ task[t].kind = "revoke" /\ At(t, "find")
  /\ IF Failed(t) THEN End(t) /\ UNCHANGED hub
     ELSE denied' = TRUE /\ ForgetCaches /\ queued' = {} /\ Goto(t, "deny")
  /\ giving' = (giving /\ \E s \in Tasks \ {t} : task[s].kind = "revoke")
  /\ UNCHANGED <<account, relayDenied, tombstone, on, late, left, faults, clock, confirmed, restored, leaked>>

\* The relay denies before it asks the account service; then the browser is
\* signed out, and only a recorded revocation is reported ok.
RevokeContinues(t) ==
  /\ task[t].kind = "revoke"
  /\ \/ At(t, "deny") /\ ~Failed(t) /\ Goto(t, "revoke") /\ UNCHANGED confirmed
     \/ At(t, "revoke") /\ ~Failed(t) /\ Goto(t, "signout") /\ UNCHANGED confirmed
     \/ At(t, "signout") /\ End(t) /\ confirmed' = (confirmed \/ ~(giving \/ Lifting))
     \/ (At(t, "deny") \/ At(t, "revoke")) /\ Failed(t) /\ End(t) /\ UNCHANGED confirmed
  /\ UNCHANGED <<hub, account, relayDenied, tombstone, on, late, left, faults, clock, giving, restored, leaked>>

-----------------------------------------------------------------------------
(* Access given back: reconcileMacSignOuts, the claim of a link code, and    *)
(* liftPairingDenial inside both.                                           *)

SignIn ==
  /\ left["signin"] > 0 /\ left' = [left EXCEPT !["signin"] = @ - 1]
  /\ clock' = clock + 1 /\ signedIn' = [signedIn EXCEPT !.now = clock']
  /\ UNCHANGED <<hub, plane, rows, relayDenied, tombstone, on, task, late, faults, confirmed, giving, restored, leaked>>

\* handleRegisterDeviceRequest: the row learns which sign-in the browser uses.
Register(t) ==
  /\ signedIn.now # 0 /\ Start(t, "register", "list")
  /\ signedIn' = [signedIn EXCEPT !.registered = signedIn.now]
  /\ UNCHANGED <<hub, plane, rows, relayDenied, tombstone, on, late, faults, clock, confirmed, giving, restored, leaked>>

\* A sign-in older than the revocation is the one the Mac ended.
Listed(t) ==
  /\ task[t].kind = "register" /\ At(t, "list")
  /\ \/ Got(t) = TRUE /\ signedIn.now <= rows.revoked /\ Goto(t, "signout")
     \/ Got(t) = TRUE /\ signedIn.now > rows.revoked /\ Goto(t, "unrevoke")
     \/ Got(t) \in {FALSE, Lost} /\ End(t)
  /\ UNCHANGED <<hub, account, relayDenied, tombstone, on, late, left, faults, clock, confirmed, giving, restored, leaked>>

SignedOutByMac(t) ==
  /\ task[t].kind = "register" /\ At(t, "signout") /\ End(t)
  /\ UNCHANGED <<hub, account, relayDenied, tombstone, on, late, left, faults, clock, confirmed, giving, restored, leaked>>

Claim(t) ==
  /\ Start(t, "claim", "unrevoke")
  /\ UNCHANGED <<hub, account, relayDenied, tombstone, on, late, faults, clock, confirmed, giving, restored, leaked>>

Unrevoked(t) ==
  /\ task[t].kind \in {"register", "claim"} /\ At(t, "unrevoke")
  /\ \/ Got(t) = TRUE /\ denied' = FALSE /\ ForgetCaches /\ Goto(t, "restore")
     \/ Got(t) = FALSE /\ task[t].kind = "claim" /\ Goto(t, "ensure")
        /\ UNCHANGED <<denied, phoneAuth, hostAuth>>
     \/ (Got(t) = Lost \/ (Got(t) = FALSE /\ task[t].kind = "register")) /\ End(t)
        /\ UNCHANGED <<denied, phoneAuth, hostAuth>>
  /\ giving' = (giving \/ denied # denied')
  /\ UNCHANGED <<queued, account, relayDenied, tombstone, on, late, left, faults, clock, confirmed, restored, leaked>>

\* reauthorized_at is the time the relay restored the browser.
Restored(t) ==
  /\ At(t, "restore")
  /\ IF Failed(t) THEN End(t) /\ UNCHANGED clock
     ELSE /\ clock' = clock + 1
          /\ task' = [task EXCEPT ![t].at = "ensure", ![t].ans = Waiting, ![t].n = clock']
  /\ UNCHANGED <<hub, account, relayDenied, tombstone, on, late, left, faults, confirmed, giving, restored, leaked>>

\* A connected Mac is told at once.
GivenBack(t) ==
  /\ task[t].kind \in {"register", "claim"} /\ At(t, "ensure") /\ End(t)
  /\ IF Failed(t) THEN UNCHANGED tombstone ELSE MacHears(IF Got(t) # 0 THEN Got(t) ELSE task[t].n)
  /\ restored' = (restored \/ (~Failed(t) /\ task[t].kind = "claim" /\ ~Revoking))
  /\ UNCHANGED <<hub, account, relayDenied, on, late, left, faults, clock, confirmed, giving, leaked>>

-----------------------------------------------------------------------------
(* Envelopes: handleEnvelope, authorizeAccountEnvelopeToHost,               *)
(* flushOfflineQueue.                                                       *)

Other(from) == IF from = "phone" THEN "host" ELSE "phone"
Cached(from) == IF from = "phone" THEN phoneAuth # "none" ELSE hostAuth

\* An envelope of sender x is sent to the other end, or queued for it.
LetThrough(x, waiting) ==
  /\ leaked' = (leaked \/ confirmed)
  /\ queued' = IF Other(x) \in on THEN waiting ELSE waiting \cup {x}

\* An envelope arrives, or comes off the queue of a connected destination.
Envelope(t, x) ==
  /\ Free(t)
  /\ \/ x \in on /\ left[x] > 0 /\ left' = [left EXCEPT ![x] = @ - 1]
     \/ x \in queued /\ Other(x) \in on /\ left' = left
  /\ LET waiting == IF left' = left THEN queued \ {x} ELSE queued
     IN  IF ~denied /\ Cached(x)
         THEN /\ LetThrough(x, waiting) /\ task' = task
              /\ IF x = "phone" /\ phoneAuth = "untold" /\ "host" \in on
                 THEN phoneAuth' = "told" /\ MacHears(rows.again) ELSE UNCHANGED <<phoneAuth, tombstone>>
         ELSE /\ queued' = waiting /\ UNCHANGED <<phoneAuth, tombstone, restored, leaked>>
              /\ task' = IF denied THEN task
                         ELSE [task EXCEPT ![t] = [NoTask EXCEPT !.kind = x, !.at = "rows"]]
  /\ UNCHANGED <<denied, hostAuth, account, relayDenied, on, late, faults, clock, confirmed, giving, restored>>

EnvelopeChecked(t) ==
  /\ task[t].kind = "phone" /\ At(t, "rows")
  /\ IF Got(t) = FALSE THEN Goto(t, "ensure") ELSE End(t)
  /\ UNCHANGED <<hub, account, relayDenied, tombstone, on, late, left, faults, clock, confirmed, giving, restored, leaked>>

\* The hub's denial is looked at again after the awaits.
AllowedBefore == TRUE
StillAllowed == ~denied

EnvelopeAuthorized(t) ==
  /\ \/ task[t].kind = "phone" /\ At(t, "ensure") /\ ~Failed(t)
     \/ task[t].kind = "host" /\ At(t, "rows") /\ Got(t) = FALSE
  /\ LET x == task[t].kind
     IN  IF StillAllowed
         THEN /\ LetThrough(x, queued)
              /\ phoneAuth' = IF x = "host" THEN phoneAuth
                              ELSE IF "host" \in on THEN "told" ELSE "untold"
              /\ hostAuth' = (hostAuth \/ x = "host")
              /\ IF x = "phone" THEN MacHears(Got(t)) ELSE UNCHANGED tombstone
         ELSE UNCHANGED <<phoneAuth, hostAuth, queued, leaked, tombstone>>
  /\ End(t)
  /\ UNCHANGED <<denied, account, relayDenied, on, late, left, faults, clock, confirmed, giving, restored>>

EnvelopeRefused(t) ==
  /\ \/ task[t].kind = "phone" /\ At(t, "ensure") /\ Failed(t)
     \/ task[t].kind = "host" /\ At(t, "rows") /\ Got(t) # FALSE
  /\ End(t)
  /\ UNCHANGED <<hub, account, relayDenied, tombstone, on, late, left, faults, clock, confirmed, giving, restored, leaked>>

\* Authorizations are reused for ACCOUNT_AUTH_CACHE_TTL_MS.
CacheExpires ==
  /\ Cached("phone") \/ Cached("host")
  /\ ForgetCaches
  /\ UNCHANGED <<denied, queued, account, relayDenied, tombstone, on, task, late, left, faults, clock, confirmed, giving, restored, leaked>>

Toggle(x) ==
  /\ on' = IF x \in on THEN on \ {x} ELSE on \cup {x}
  /\ phoneAuth' = IF x = "host" /\ phoneAuth = "told" THEN "untold" ELSE phoneAuth
  /\ UNCHANGED <<denied, hostAuth, queued, account, relayDenied, tombstone, task, late, left, faults, clock, confirmed, giving, restored, leaked>>

\* Memory goes, and with it the handlers; calls on their way may be served.
Rebuild ==
  /\ faults.rebuilt < MaxRebuilds /\ faults' = [faults EXCEPT !.rebuilt = @ + 1]
  /\ task' = [t \in Tasks |-> NoTask] /\ on' = {} /\ ForgetCaches
  /\ late' = late \cup UNION {LeftBehind(task[t]) : t \in Tasks}
  /\ UNCHANGED <<denied, queued, account, relayDenied, tombstone, left, clock, confirmed, giving, restored, leaked>>

-----------------------------------------------------------------------------
(* Approval requests: handleRequestApprovalRequest,                         *)
(* handleApprovalStatusRequest and recordApprovalDecision.                  *)

StartApproval(t, kind) ==
  /\ kind \in {"approve", "reject"} => "host" \in on
  /\ Start(t, kind, IF kind = "ask" THEN "paired" ELSE "pending")
  /\ UNCHANGED <<hub, account, relayDenied, tombstone, on, late, faults, clock, confirmed, giving, restored, leaked>>

\* The pairing is recorded before the approval is marked.
AfterPending(kind) == IF kind = "approve" THEN "ensure" ELSE "mark"

\* A request older than its lifetime is marked expired and a new one inserted.
ApprovalContinues(t) ==
  /\ task[t].kind \in {"ask", "expire", "approve", "reject"}
  /\ LET kind == task[t].kind
     IN  \/ At(t, "paired") /\ (IF Got(t) = FALSE THEN Goto(t, "pending") ELSE End(t))
         \/ /\ At(t, "pending") /\ Got(t) # Lost /\ Got(t) # {}
            /\ \/ \E id \in Got(t) : task' = [task EXCEPT ![t].at = AfterPending(kind), ![t].ans = Waiting, ![t].n = id]
               \/ kind = "ask" /\ End(t)
         \/ At(t, "pending") /\ Got(t) = {} /\ kind = "ask" /\ Goto(t, "insert")
         \/ At(t, "pending") /\ Got(t) \in {Lost, {}} /\ (Got(t) = {} => kind # "ask") /\ End(t)
         \/ At(t, "ensure") /\ (IF Failed(t) THEN End(t) ELSE Goto(t, "mark"))
         \/ At(t, "mark") /\ (IF kind = "ask" /\ Got(t) # Lost THEN Goto(t, "insert") ELSE End(t))
         \/ At(t, "insert") /\ End(t)
  /\ UNCHANGED <<hub, account, relayDenied, tombstone, on, late, left, faults, clock, confirmed, giving, restored, leaked>>

-----------------------------------------------------------------------------
Handler(t) ==
  \/ Serve(t) \/ RevokeFound(t) \/ RevokeContinues(t) \/ Listed(t) \/ SignedOutByMac(t)
  \/ Unrevoked(t) \/ Restored(t) \/ GivenBack(t)
  \/ EnvelopeChecked(t) \/ EnvelopeAuthorized(t) \/ EnvelopeRefused(t) \/ ApprovalContinues(t)

Next ==
  \/ \E t \in Tasks : \/ Handler(t) \/ Lose(t) \/ Revoke(t) \/ Register(t) \/ Claim(t)
                      \/ \E x \in {"phone", "host"} : Envelope(t, x)
                      \/ \E kind \in {"ask", "expire", "approve", "reject"} : StartApproval(t, kind)
  \/ \E x \in late : ServeLate(x) \/ NeverServed(x)
  \/ Toggle("host")
  \/ SignIn \/ CacheExpires \/ Rebuild

Spec == Init /\ [][Next]_vars

-----------------------------------------------------------------------------
(* Properties. *)

Quiet == late = {} /\ \A t \in Tasks : task[t] = NoTask

\* The types, and that only calls without an answer are still on their way.
TypeOK ==
  /\ \A x \in late : x.at \in Calls /\ x.ans = Waiting
  /\ plane \in Plane /\ phoneAuth \in {"none", "told", "untold"}
  /\ queued \subseteq {"phone", "host"} /\ on \subseteq {"phone", "host"}
  /\ \A t \in Tasks : task[t].at \in Calls \cup {"idle"}

\* A denied browser keeps no remembered authorization and nothing in the queue.
DeniedForgets == denied => phoneAuth = "none" /\ ~hostAuth /\ queued = {}

\* After the Mac was told the revocation is confirmed, no envelope passes
\* between the two until access is given back.
ConfirmedIsCutOff == ~leaked

\* The relay denies what the hub reported revoked.
ConfirmedOnRelay == confirmed => relayDenied

\* A claimed link code lifts an earlier removal everywhere: in the hub's denial
\* list and in the relay (the promise of liftPairingDenial's comment).
ClaimRestoresEverywhere == restored => ~denied /\ ~relayDenied

\* An approval is marked approved only when the pairing is recorded: the browser
\* never polls "approved" for access it was not given.  The row may be gone
\* again, for the access was taken away since and that was lifted.
ApprovedIsPaired ==
  (\E r \in plane.approvals : r.status = "approved") =>
    Between(plane, Account, M, B) # {} \/ rows.lifted

\* The handlers use the account service as it promises: whatever they do, and
\* whichever of their calls are lost or late, its tables change by its mutations.
Service == INSTANCE AccountService WITH StartTables <- Linked
ImplementsService == Service!Spec

\* What a person was told about a browser's access holds in the hub, in the
\* relay and in the account service.
ConfirmedHolds ==
  TypeOK /\ DeniedForgets /\ ConfirmedIsCutOff /\ ConfirmedOnRelay /\ ApprovedIsPaired
=============================================================================
