------------------------------ MODULE HostLink ------------------------------
(***************************************************************************)
(* One Mac's membership in an account, as the signaling hub keeps it       *)
(* (SignalingHub in cloudflare-signal/src/index.ts) on top of the account  *)
(* service: removals, link-code claims, renames, Sign Out on the Mac, the  *)
(* identity a connecting Mac is told, and the alarm that finishes removals *)
(* whose answer was lost.                                                  *)
(*                                                                         *)
(* A handler is a task.  Between two awaits it runs in one step; a call to *)
(* the account service is sent (ans = Waiting), served, and answered, and  *)
(* the answer may be lost before or after the service commits.  Storage    *)
(* writes are not split from the memory they mirror: the object's output   *)
(* gate holds every later message until they are durable.                  *)
(***************************************************************************)
EXTENDS AccountPlane

CONSTANTS
  Mac,            \* the Mac's device id
  LinkCode,       \* the text of its link codes
  Tasks,          \* bound: handlers that may run at the same time
  Workloads,      \* what is asked of the hub: functions from Kinds to counts
  MaxConnections, \* bound: connections of the Mac
  MaxLosses,      \* bound: answers of the account service that are lost
  MaxRebuilds,    \* bound: times the object is rebuilt
  MaxIds,         \* bound: ids handed out
  NoAccount, Waiting, Lost

ASSUME MacAssumption ==
  /\ Mac \in Hosts /\ LinkCode \in Codes /\ Accounts # {}
  /\ Tasks \subseteq Nat /\ MaxConnections \in Nat

\* An answer is a row, or one of these, or says whether something was deleted.
ASSUME AnswersAssumption ==
  /\ NoRow \notin {Refused, Waiting, Lost} /\ Refused \notin {Waiting, Lost} /\ Waiting # Lost
  /\ \A x \in {Refused, Waiting, Lost} : x \notin Device \cup Hosts \cup BOOLEAN
  /\ NoAccount \notin Accounts

Kinds == {"code", "rename", "remove", "claim", "signout", "connect", "retry"}

VARIABLES
  plane,      \* the account service's tables
  task,       \* the handlers
  late,       \* markers of removals the hub gave up and the service may still commit
  record,     \* the removal record, against the Mac's row: "none" | "before" | "after"
  pending,    \* the pending-removal marker, or NoMarker
  outdated,   \* tasks whose identity lookup began before the last Sign Out mark
  peer,       \* the Mac's registered connection, 0 for none
  told,       \* the last host_identity the Mac got, and who sent it
  left,       \* what may still be asked
  faults,     \* losses and rebuilds so far
  uncleaned,  \* history: a removal committed, no claim or Sign Out took over its
              \* marker, and nobody cleaned up yet
  owed,       \* history: it committed under the stored marker, which nobody was
              \* cleaning up after; and no later removal has put its own there
  signedOut,  \* history: host_unlinked ok was sent and no claim linked the Mac since
  overlapped  \* history: running identity lookups that a claim or a failed Sign
              \* Out overlapped

hub == <<record, pending, outdated, peer, told>>
world == <<plane, left, faults, late, uncleaned, owed, signedOut, overlapped>>
vars == <<hub, world, task>>

NoMarker == [by |-> NoAccount, n |-> 0, old |-> FALSE]
Idle == [kind |-> "idle", who |-> NoAccount, at |-> "idle", ans |-> Waiting,
         conn |-> 0, seen |-> NoRow, mark |-> NoMarker]

Row == FindDevice(plane, Mac)
Owner == IF Row = NoRow THEN NoAccount ELSE Row.owner
Lookups == {t \in Tasks : task[t].kind \in {"rename", "connect"}}
Of(kind) == {t \in Tasks : task[t].kind = kind}

Linked == [EmptyPlane EXCEPT !.next = 2,
             !.devices = {[id |-> 1, device |-> Mac, owner |-> CHOOSE a \in Accounts : TRUE]}]

Init ==
  /\ plane = Linked
  /\ task = [t \in Tasks |-> Idle]
  /\ late = {} /\ record = "none" /\ pending = NoMarker /\ outdated = {}
  /\ peer = 0 /\ told = [owner |-> NoAccount, by |-> "none"]
  /\ left \in Workloads
  /\ faults = [lost |-> 0, rebuilt |-> 0]
  /\ uncleaned = FALSE /\ owed = FALSE /\ signedOut = FALSE /\ overlapped = {}

-----------------------------------------------------------------------------
(* Calls to the account service. *)

\* Mutated: the Mac's row is inserted without a look at the one it has.
InsertRow(a) ==
  LET new == [id |-> plane.next, device |-> Mac, owner |-> a]
  IN  Answer([plane EXCEPT !.devices = @ \cup {new}, !.next = @ + 1], new)
LinkRow(a) == UpsertDevice(plane, a, Mac)

\* What the call a task waits for does to the tables.
Served(x) ==
  CASE x.at \in {"find", "recheck"} -> Answer(plane, Row)
    [] x.at = "rename" -> RenameHost(plane, x.who, Mac)
    [] x.at = "remove" -> RemoveHost(plane, x.who, Mac)
    [] x.at = "claim"  -> ClaimCode(plane, LinkCode)
    [] x.at = "upsert" -> LinkRow(x.who)
    [] x.at = "codes"  -> DeleteCodes(plane, Mac)
    [] x.at = "delete" -> DeleteDevice(plane, x.seen.id)

Calls == {"find", "recheck", "rename", "remove", "claim", "upsert", "codes", "delete"}
InFlight(t) == task[t].at \in Calls
Answered(t) == task[t].ans \notin {Waiting, Lost}

\* A removal record is older than the row a later link creates.
RecordAfter(p) ==
  IF Row = NoRow /\ FindDevice(p, Mac) # NoRow /\ record = "after" THEN "before" ELSE record

\* What the Mac was told no longer counts as what a lookup told (history).
Overlapped == [told EXCEPT !.by = "overlapped lookup"]

\* A handler that has cleaned up and is about to forget the marker m.
Forgetting(m) ==
  \E t \in Tasks : task[t].kind \in {"remove", "alarm"} /\ task[t].at = "forget" /\ task[t].mark = m

\* What is committed is a removal of marker m, or something else (NoMarker).
CommittedUnder(p, m) ==
  owed' = /\ FindDevice(p, Mac) = NoRow
          /\ owed \/ (m # NoMarker /\ m = pending /\ Row # NoRow /\ ~Forgetting(m))

Committed(p, removal) ==
  /\ plane' = p
  /\ record' = RecordAfter(p)
  /\ uncleaned' = IF FindDevice(p, Mac) # NoRow THEN FALSE
                  ELSE uncleaned \/ (removal /\ Row # NoRow /\ pending # NoMarker)
  /\ signedOut' = (signedOut /\ FindDevice(p, Mac) = NoRow)
  /\ LET unannounced == \/ removal /\ Row # NoRow /\ pending = NoMarker
                        \/ Row = NoRow /\ FindDevice(p, Mac) # NoRow
     IN  /\ told' = IF unannounced THEN Overlapped ELSE told
         /\ overlapped' = IF unannounced THEN Lookups ELSE overlapped

Serve(t) ==
  /\ InFlight(t) /\ task[t].ans = Waiting
  /\ LET r == Served(task[t])
     IN  /\ task[t].at = "upsert" => plane.next <= MaxIds
         /\ Committed(r.plane, task[t].at = "remove")
         /\ CommittedUnder(r.plane, IF task[t].at = "remove" THEN task[t].mark ELSE NoMarker)
         /\ task' = [task EXCEPT ![t].ans = r.answer]
  /\ UNCHANGED <<pending, outdated, peer, left, faults, late>>

\* The request is given up after ACCOUNT_PLANE_TIMEOUT_MS or fails on the way.
Lose(t) ==
  /\ InFlight(t) /\ task[t].ans # Lost /\ faults.lost < MaxLosses
  /\ task' = [task EXCEPT ![t].ans = Lost]
  /\ faults' = [faults EXCEPT !.lost = @ + 1]
  /\ late' = IF task[t].at = "remove" /\ task[t].ans = Waiting
             THEN late \cup {task[t].mark} ELSE late
  /\ UNCHANGED <<hub, plane, left, uncleaned, owed, signedOut, overlapped>>

LateCommit(m) ==
  /\ m \in late /\ late' = late \ {m}
  /\ LET p == RemoveHost(plane, m.by, Mac).plane
     IN  Committed(p, TRUE) /\ CommittedUnder(p, m)
  /\ UNCHANGED <<pending, outdated, peer, left, faults, task>>

Forgotten(m) ==
  /\ m \in late /\ late' = late \ {m}
  /\ UNCHANGED <<hub, plane, left, faults, uncleaned, owed, signedOut, overlapped, task>>

-----------------------------------------------------------------------------
(* Helpers of the handlers. *)

At(t, kind, at) == task[t].kind = kind /\ task[t].at = at
Got(t) == task[t].ans
End(t) == task' = [task EXCEPT ![t] = Idle]
EndLookup(t) == End(t) /\ outdated' = outdated \ {t} /\ overlapped' = overlapped \ {t}
Goto(t, at) == task' = [task EXCEPT ![t].at = at, ![t].ans = Waiting]

Free(t) == task[t] = Idle /\ \A s \in Tasks : s < t => task[s] # Idle   \* the first free slot

Start(t, kind, who, at, conn) ==
  /\ Free(t) /\ left[kind] > 0
  /\ left' = [left EXCEPT ![kind] = @ - 1]
  /\ task' = [task EXCEPT ![t] = [Idle EXCEPT !.kind = kind, !.who = who, !.at = at, !.conn = conn]]

LinkedRowUnrecorded(row) == row # NoRow
LinkedRow(row) == row # NoRow /\ record # "after"
SignOutRuns == \E t \in Of("signout") : task[t].at \in {"find", "codes", "delete"}
SignedOutNow(t) == SignOutRuns
SignedOutSince(t) == SignOutRuns \/ t \in outdated

Tell(who, by) == told' = IF peer = 0 THEN told ELSE [owner |-> who, by |-> by]
TellOn(t, who, by) == told' = IF task[t].conn = peer THEN [owner |-> who, by |-> by] ELSE told

By(t) == IF t \in overlapped THEN "overlapped lookup" ELSE "lookup"

\* markHostUnlinked: every identity lookup begun so far is now too old.
MarkUnlinked == outdated' = Lookups

Least(n, S) == n \in S /\ \A m \in S : n <= m

\* Markers are compared by identity: a new one is none of those still held.
Markers == ({pending} \cup {task[s].mark : s \in Tasks} \cup late) \ {NoMarker}
NewNumbers == (0 .. Cardinality(Markers)) \ {m.n : m \in Markers}
NewMarker(n, who) ==
  Least(n, NewNumbers) /\ pending' = [by |-> who, n |-> n, old |-> FALSE] /\ owed' = FALSE

\* Mutant: whichever removal's marker is stored goes.
ForgetAnyMarker(m) == pending' = NoMarker
ForgetMarker(m) == pending' = IF pending = m THEN NoMarker ELSE pending

\* A claim or a Sign Out drops the marker, whichever removal it belongs to: of
\* one that committed, the Mac is not told.
TakesOver ==
  /\ pending' = NoMarker /\ uncleaned' = FALSE /\ owed' = FALSE
  /\ told' = IF uncleaned THEN Overlapped ELSE told

-----------------------------------------------------------------------------
(* The Mac's link codes and connections. *)

ShowCode ==
  /\ left["code"] > 0 /\ plane.next <= MaxIds
  /\ left' = [left EXCEPT !["code"] = @ - 1]
  /\ plane' = CreateCode(plane, Mac, LinkCode).plane
  /\ UNCHANGED <<hub, faults, late, uncleaned, owed, signedOut, overlapped, task>>

\* A newer connection replaces the one before; the Mac is then told who it is.
Connect(t) ==
  /\ \E c \in 1 .. MaxConnections :
       Least(c, (1 .. MaxConnections) \ ({peer} \cup {task[s].conn : s \in Tasks})) /\ peer' = c
  /\ Start(t, "connect", NoAccount, "find", peer')
  /\ outdated' = outdated \ {t}
  /\ UNCHANGED <<record, pending, told, plane, faults, late, uncleaned, owed, signedOut, overlapped>>

\* currentHostIdentity, after the first lookup.
ConnectFound(t) ==
  /\ At(t, "connect", "find") /\ Got(t) # Waiting
  /\ IF Answered(t) /\ LinkedRow(Got(t))
     THEN /\ task' = [task EXCEPT ![t].at = "recheck", ![t].ans = Waiting, ![t].seen = Got(t)]
          /\ UNCHANGED <<told, outdated, overlapped>>
     ELSE TellOn(t, NoAccount, "lookup") /\ EndLookup(t)
  /\ UNCHANGED <<record, pending, peer, plane, left, faults, late, uncleaned, owed, signedOut>>

\* After the profile and the second lookup.  A lost answer tells "unlinked".
ConnectRechecked(t) ==
  /\ At(t, "connect", "recheck") /\ Got(t) # Waiting
  /\ LET linked == Answered(t) /\ ~SignedOutSince(t) /\ LinkedRow(Got(t))
     IN  IF linked /\ Got(t).owner # task[t].seen.owner THEN UNCHANGED told
         ELSE TellOn(t, IF linked THEN Got(t).owner ELSE NoAccount, By(t))
  /\ EndLookup(t)
  /\ UNCHANGED <<record, pending, peer, plane, left, faults, late, uncleaned, owed, signedOut>>

Disconnect ==
  /\ peer # 0 /\ peer' = 0
  /\ UNCHANGED <<record, pending, outdated, told, world, task>>

-----------------------------------------------------------------------------
(* Renames: handleRenameHostRequest and pushLinkedHostIdentity. *)

Rename(t, a) ==
  /\ Start(t, "rename", a, "rename", 0)
  /\ UNCHANGED <<hub, plane, faults, late, uncleaned, owed, signedOut, overlapped>>

\* Committed: with the Mac connected, its identity lookup begins now.
RenameAnswered(t) ==
  /\ At(t, "rename", "rename") /\ Got(t) # Waiting
  /\ IF Answered(t) /\ Got(t) # Refused /\ peer # 0
     THEN /\ task' = [task EXCEPT ![t].at = "recheck", ![t].ans = Waiting, ![t].seen = Got(t)]
          /\ outdated' = outdated \ {t} /\ overlapped' = overlapped \ {t}
     ELSE EndLookup(t)
  /\ UNCHANGED <<record, pending, peer, told, plane, left, faults, late, uncleaned, owed, signedOut>>

RenameRechecked(t) ==
  /\ At(t, "rename", "recheck") /\ Got(t) # Waiting
  /\ IF Answered(t) /\ ~SignedOutSince(t) /\ LinkedRow(Got(t)) /\ Got(t).owner = task[t].seen.owner
     THEN Tell(Got(t).owner, By(t)) ELSE UNCHANGED told
  /\ EndLookup(t)
  /\ UNCHANGED <<record, pending, peer, plane, left, faults, late, uncleaned, owed, signedOut>>

-----------------------------------------------------------------------------
(* Removals: handleRemoveHostRequest and finishHostRemoval. *)

Remove(t, a) ==
  /\ Start(t, "remove", a, "find", 0)
  /\ UNCHANGED <<hub, plane, faults, late, uncleaned, owed, signedOut, overlapped>>

\* A removal asked again once nothing of the earlier one is on its way.
Retry(t, a) ==
  /\ late = {} /\ Of("remove") = {} /\ left["remove"] = 0 /\ Free(t) /\ left["retry"] > 0
  /\ left' = [left EXCEPT !["retry"] = @ - 1]
  /\ task' = [task EXCEPT ![t] = [Idle EXCEPT !.kind = "remove", !.who = a, !.at = "find"]]
  /\ UNCHANGED <<hub, plane, faults, late, uncleaned, owed, signedOut, overlapped>>

\* finishHostRemoval up to its first await: the record, and the Mac told.
Finish(t, m) ==
  /\ record' = "after"
  /\ Tell(NoAccount, "removal")
  /\ uncleaned' = FALSE /\ owed' = FALSE
  /\ task' = [task EXCEPT ![t].at = "forget", ![t].ans = Waiting, ![t].mark = m]

\* No row: an earlier removal by the same account is finished; another
\* account's Mac is "not found"; else the marker is stored and the service asked.
RemoveFound(t) ==
  /\ At(t, "remove", "find") /\ Got(t) # Waiting
  /\ \/ /\ Got(t) = NoRow /\ pending.by = task[t].who
        /\ Finish(t, pending) /\ UNCHANGED pending
     \/ /\ Answered(t) /\ Got(t) # NoRow /\ Got(t).owner = task[t].who
        /\ \E n \in NewNumbers : NewMarker(n, task[t].who)
        /\ task' = [task EXCEPT ![t].at = "remove", ![t].ans = Waiting, ![t].mark = pending']
        /\ UNCHANGED <<record, told, uncleaned>>
     \/ /\ IF Got(t) = NoRow THEN pending.by # task[t].who
           ELSE Answered(t) => Got(t).owner # task[t].who
        /\ End(t) /\ UNCHANGED <<record, told, uncleaned, owed, pending>>
  /\ UNCHANGED <<outdated, peer, plane, left, faults, late, signedOut, overlapped>>

RemoveAnswered(t) ==
  /\ At(t, "remove", "remove") /\ Got(t) # Waiting
  /\ \/ Got(t) = Lost /\ Goto(t, "recheck") /\ UNCHANGED <<record, told, uncleaned, owed>>
     \/ Got(t) = Refused /\ End(t) /\ UNCHANGED <<record, told, uncleaned, owed>>
     \/ Got(t) \notin {Lost, Refused} /\ Finish(t, task[t].mark)
  /\ IF Got(t) = Refused THEN ForgetMarker(task[t].mark) ELSE UNCHANGED pending
  /\ UNCHANGED <<outdated, peer, plane, left, faults, late, signedOut, overlapped>>

\* The answer was lost: gone means it committed; else the marker stays (503).
RemoveRechecked(t) ==
  /\ At(t, "remove", "recheck") /\ Got(t) # Waiting
  /\ IF Got(t) = NoRow THEN Finish(t, task[t].mark)
     ELSE End(t) /\ UNCHANGED <<record, told, uncleaned, owed>>
  /\ UNCHANGED <<pending, outdated, peer, plane, left, faults, late, signedOut, overlapped>>

\* After the cleanup's awaits: forgetPendingRemoval of the removal's own marker.
MarkerForgotten(t) ==
  /\ task[t].at = "forget" /\ task[t].kind \in {"remove", "alarm"}
  /\ ForgetMarker(task[t].mark) /\ End(t)
  /\ UNCHANGED <<record, outdated, peer, told, world>>

-----------------------------------------------------------------------------
(* Link code claims: handleClaimHostCodeRequest and linkClaimedHost. *)

Claim(t, a) ==
  /\ Start(t, "claim", a, "claim", 0)
  /\ UNCHANGED <<hub, plane, faults, late, uncleaned, owed, signedOut, overlapped>>

ClaimAnswered(t) ==
  /\ At(t, "claim", "claim") /\ Got(t) # Waiting
  /\ IF Got(t) \in {Lost, Refused} THEN End(t) ELSE Goto(t, "find")
  /\ UNCHANGED <<hub, world>>

ClaimFound(t) ==
  /\ At(t, "claim", "find") /\ Got(t) # Waiting
  /\ IF Got(t) = Lost \/ (Got(t) # NoRow /\ Got(t).owner # task[t].who)
     THEN End(t) ELSE Goto(t, "upsert")
  /\ UNCHANGED <<hub, world>>

\* Linked: what Sign Outs and removals left behind goes.
ClaimLinked(t) ==
  /\ At(t, "claim", "upsert") /\ Got(t) # Waiting
  /\ IF Got(t) \in {Lost, Refused}
     THEN End(t) /\ UNCHANGED <<record, pending, told, outdated, uncleaned, owed, signedOut, overlapped>>
     ELSE /\ TakesOver /\ record' = "none" /\ outdated' = {}
          /\ signedOut' = FALSE /\ overlapped' = Lookups
          /\ Goto(t, "tell")
  /\ UNCHANGED <<peer, plane, left, faults, late>>

\* After the awaits on storage and the requester's pairing.
ClaimTold(t) ==
  /\ At(t, "claim", "tell")
  /\ Tell(task[t].who, "claim") /\ End(t)
  /\ UNCHANGED <<record, pending, outdated, peer, world>>

-----------------------------------------------------------------------------
(* Sign Out on the Mac: unlinkHost. *)

SignOut(t) ==
  /\ peer # 0
  /\ Start(t, "signout", NoAccount, "find", peer)
  /\ MarkUnlinked
  /\ UNCHANGED <<record, pending, peer, told, plane, faults, late, uncleaned, owed, signedOut, overlapped>>

SignOutEnds(t) ==
  /\ MarkUnlinked /\ TellOn(t, NoAccount, "signout")
  /\ signedOut' = (Row = NoRow) /\ UNCHANGED overlapped
  /\ Goto(t, "forget")

\* host_unlinked ok:false: the Mac keeps its link and its owner tries again.
SignOutFails(t) ==
  /\ End(t) /\ told' = IF task[t].conn = peer THEN [told EXCEPT !.by = "failure"] ELSE told
  /\ overlapped' = Lookups /\ UNCHANGED <<outdated, signedOut>>

SignOutFound(t) ==
  /\ At(t, "signout", "find") /\ Got(t) # Waiting
  /\ \/ Got(t) = Lost /\ SignOutFails(t)
     \/ Got(t) = NoRow /\ SignOutEnds(t)
     \/ /\ Answered(t) /\ Got(t) # NoRow
        /\ task' = [task EXCEPT ![t].at = "codes", ![t].ans = Waiting, ![t].seen = Got(t)]
        /\ UNCHANGED <<outdated, told, signedOut, overlapped>>
  /\ UNCHANGED <<record, pending, peer, plane, left, faults, late, uncleaned, owed>>

SignOutDeletes(t) ==
  /\ task[t].kind = "signout" /\ task[t].at \in {"codes", "delete"} /\ Got(t) # Waiting
  /\ \/ Got(t) = Lost /\ SignOutFails(t)
     \/ task[t].at = "codes" /\ Answered(t) /\ Goto(t, "delete")
        /\ UNCHANGED <<outdated, told, signedOut, overlapped>>
     \/ task[t].at = "delete" /\ Answered(t) /\ SignOutEnds(t)
  /\ UNCHANGED <<record, pending, peer, plane, left, faults, late, uncleaned, owed>>

SignOutForgets(t) ==
  /\ At(t, "signout", "forget")
  /\ TakesOver /\ End(t)
  /\ overlapped' = IF uncleaned THEN Lookups ELSE overlapped
  /\ UNCHANGED <<record, outdated, peer, plane, left, faults, late, signedOut>>

-----------------------------------------------------------------------------
(* The alarm: finishPendingRemovals, one marker a minute old or more. *)

Alarm(t) ==
  /\ pending # NoMarker /\ Of("alarm") = {} /\ Free(t)
  /\ task' = [task EXCEPT ![t] = [Idle EXCEPT !.kind = "alarm", !.at = "find", !.mark = pending]]
  /\ UNCHANGED <<hub, world>>

\* No answer, or the marker was replaced while the lookup ran.
UnsettledIfReplaced(t) == pending # task[t].mark
Unsettled(t) == Got(t) = Lost \/ pending # task[t].mark

AlarmFound(t) ==
  /\ At(t, "alarm", "find") /\ Got(t) # Waiting
  /\ IF Unsettled(t) THEN End(t) /\ UNCHANGED <<record, told, uncleaned, owed, pending>>
     ELSE IF Got(t) = NoRow THEN Finish(t, pending) /\ UNCHANGED pending
     ELSE /\ pending' = IF pending.old THEN NoMarker ELSE pending
          /\ End(t) /\ UNCHANGED <<record, told, uncleaned, owed>>
  /\ UNCHANGED <<outdated, peer, plane, left, faults, late, signedOut, overlapped>>

\* PENDING_REMOVAL_MAX_AGE_MS on, no request of the removal is on its way.
PastMaxAge == late = {} /\ Of("remove") = {} /\ Of("alarm") = {}

MarkerAges ==
  /\ pending # NoMarker /\ ~pending.old /\ PastMaxAge
  /\ pending' = [pending EXCEPT !.old = TRUE]
  /\ UNCHANGED <<record, outdated, peer, told, world, task>>

\* removed-host:<id> is kept 90 days.
RecordExpires ==
  /\ record # "none" /\ \A t \in Tasks : task[t] = Idle
  /\ record' = "none"
  /\ UNCHANGED <<pending, outdated, peer, told, world, task>>

\* The object is evicted or crashes: handlers, connections and the Sign Out
\* marks go; the removal record and the marker are read back.
Rebuild ==
  /\ faults.rebuilt < MaxRebuilds
  /\ faults' = [faults EXCEPT !.rebuilt = @ + 1]
  /\ task' = [t \in Tasks |-> Idle]
  /\ late' = late \cup {task[t].mark : t \in {s \in Of("remove") :
                                        task[s].at = "remove" /\ task[s].ans = Waiting}}
  /\ outdated' = {} /\ overlapped' = {} /\ peer' = 0
  /\ UNCHANGED <<record, pending, told, plane, left, uncleaned, owed, signedOut>>

-----------------------------------------------------------------------------
Handler(t) ==
  \/ Serve(t)
  \/ ConnectFound(t) \/ ConnectRechecked(t)
  \/ RenameAnswered(t) \/ RenameRechecked(t)
  \/ RemoveFound(t) \/ RemoveAnswered(t) \/ RemoveRechecked(t) \/ MarkerForgotten(t)
  \/ ClaimAnswered(t) \/ ClaimFound(t) \/ ClaimLinked(t) \/ ClaimTold(t)
  \/ SignOutFound(t) \/ SignOutDeletes(t) \/ SignOutForgets(t)
  \/ AlarmFound(t)

Requests(t) ==
  \/ Connect(t) \/ SignOut(t)
  \/ \E a \in Accounts : Rename(t, a) \/ Remove(t, a) \/ Retry(t, a) \/ Claim(t, a)

Next ==
  \/ \E t \in Tasks : Handler(t) \/ Lose(t) \/ Requests(t) \/ Alarm(t)
  \/ \E m \in late : LateCommit(m) \/ Forgotten(m)
  \/ ShowCode \/ Disconnect \/ MarkerAges \/ RecordExpires \/ Rebuild

Spec == Init /\ [][Next]_vars

\* A handler's awaits end, the alarm rings while a marker is stored, and an
\* hour passes.  Nothing else has to happen.
FairSpec ==
  /\ Spec
  /\ \A t \in Tasks : WF_vars(Handler(t))
  /\ WF_vars(\E t \in Tasks : Alarm(t)) /\ WF_vars(MarkerAges)

-----------------------------------------------------------------------------
(* Properties. *)

\* The types, and that only running identity lookups are marked outdated.
TypeOK ==
  /\ plane \in Plane
  /\ \A t \in Tasks : task[t].kind \in Kinds \cup {"idle", "alarm"} /\ task[t].conn \in 0 .. MaxConnections
  /\ record \in {"none", "before", "after"} /\ pending.by \in Accounts \cup {NoAccount}
  /\ outdated \subseteq Lookups /\ \A m \in late : m.by \in Accounts
  /\ peer \in 0 .. MaxConnections /\ told.owner \in Accounts \cup {NoAccount}

Quiet == pending = NoMarker /\ late = {} /\ \A t \in Tasks : task[t] = Idle

\* Once nothing is on its way, the account a connected Mac was last told by a
\* rename or a connect is its account: no lookup begun before a removal or a
\* Sign Out is told after it.  Not promised of a lookup that a link, or a
\* removal whose marker a link or a Sign Out dropped, overlapped.
LookupToldTheOwner ==
  Quiet /\ ~uncleaned /\ peer # 0 /\ told.by = "lookup" /\ told.owner # NoAccount => told.owner = Owner

\* From the answer host_unlinked on, no lookup tells the Mac it is linked
\* until it is linked again, however long the lookup has been on its way.
SignOutIsFinal ==
  [][told' # told /\ told'.by = "lookup" /\ signedOut' => told'.owner = NoAccount]_vars

\* A removal that committed under the stored marker keeps it there until its
\* cleanup has begun, so a lost answer or a rebuilt object never strands it.
RemovalIsTracked == owed => pending # NoMarker

\* Such a removal is cleaned up: the record written and the Mac told.
RemovalIsFinished == owed ~> ~owed

\* The handlers change the account's tables by the service's mutations only,
\* whichever of their calls are lost or late.
Service == INSTANCE AccountService WITH StartTables <- Linked
ImplementsService == Service!Spec

\* What a Mac was told about its account is so, whatever else went on.
ToldTheOwner == TypeOK /\ LookupToldTheOwner
=============================================================================
