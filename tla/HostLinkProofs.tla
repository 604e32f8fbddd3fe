---------------------------- MODULE HostLinkProofs ----------------------------
(***************************************************************************)
(* One Mac's membership in an account, for any number of handlers, lost    *)
(* answers and rebuilds: what a Mac is told about its account, and that    *)
(* the handlers implement the account service.                             *)
(***************************************************************************)
EXTENDS HostLink, AccountPlaneProofs

USE MacAssumption, AnswersAssumption

-----------------------------------------------------------------------------
(* The Mac's row.                                                          *)

LEMMA RowIsRow ==
  ASSUME NEW p, p \in Plane, NEW r \in p.devices, r.device = Mac,
         \A s \in p.devices : s.device = Mac => s = r
  PROVE  FindDevice(p, Mac) = r
<1>1. {s \in p.devices : s.device = Mac} = {r}
  OBVIOUS
<1> QED BY <1>1 DEF FindDevice, First

LEMMA RowIsNone ==
  ASSUME NEW p, \A s \in p.devices : s.device # Mac
  PROVE  FindDevice(p, Mac) = NoRow
<1>1. {s \in p.devices : s.device = Mac} = {}
  OBVIOUS
<1> QED BY <1>1 DEF FindDevice, First

\* Tables with the same devices have the same row.
LEMMA SameRow ==
  ASSUME NEW p, NEW q, q.devices = p.devices
  PROVE  FindDevice(q, Mac) = FindDevice(p, Mac)
BY DEF FindDevice

\* What a call does to the Mac's row, when at is what it asks for.
RowStep(p, q, at) ==
  \/ FindDevice(q, Mac) = FindDevice(p, Mac)
  \/ /\ FindDevice(p, Mac) # NoRow /\ FindDevice(q, Mac) = NoRow /\ at \in {"remove", "delete"}
  \/ /\ FindDevice(p, Mac) = NoRow /\ FindDevice(q, Mac) # NoRow /\ at = "upsert"

\* Id i was handed out to a device.
OldId(p, i) == i \in Nat /\ 1 <= i /\ i < p.next /\ \A c \in p.codes : c.id # i

\* The tables of an account service that knows the Mac only.
MacTables(p) ==
  /\ Sound(p) /\ p.approvals = {}
  /\ \A r \in p.devices : r.device = Mac /\ OldId(p, r.id)
  /\ 1 <= p.next

\* A call leaves such tables, and no id changes its meaning.
Leaves(p, q, at) ==
  MacTables(q) /\ RowStep(p, q, at) /\ \A i \in Nat : OldId(p, i) => OldId(q, i)

LEMMA RowIsDevice ==
  ASSUME NEW p, MacTables(p)
  PROVE  /\ FindDevice(p, Mac) \in Device \cup {NoRow}
         /\ FindDevice(p, Mac) # NoRow => OldId(p, FindDevice(p, Mac).id)
BY FindsDevice DEF MacTables, Sound, Plane

LEMMA Untouched ==
  ASSUME NEW p, MacTables(p), NEW at
  PROVE  Leaves(p, p, at)
BY DEF Leaves, RowStep

\* Only rows went, and none is new.
LEMMA OldIdsStay ==
  ASSUME NEW p, MacTables(p), NEW q, q.next = p.next,
         \A c \in q.codes : \E b \in p.codes : b.id = c.id
  PROVE  \A i \in Nat : OldId(p, i) => OldId(q, i)
BY DEF OldId

LEMMA RemoveLeaves ==
  ASSUME NEW p, MacTables(p), NEW a \in Accounts
  PROVE  /\ Leaves(p, RemoveHost(p, a, Mac).plane, "remove")
         /\ RemoveHost(p, a, Mac).answer \in Device \cup {Refused}
<1> DEFINE row == FindDevice(p, Mac)
           q == RemoveHost(p, a, Mac).plane
<1>0. Sound(p) /\ p.devices \subseteq Device
  BY DEF MacTables, Sound, Plane
<1>1. Sound(q)
  BY <1>0, RemoveHostSound
<1>2. CASE ~ActiveHostOf(p, a, Mac)
  BY <1>2, Untouched DEF RemoveHost, Answer, Refuse
<1>3. CASE ActiveHostOf(p, a, Mac)
  <2>1. row \in p.devices /\ row.device = Mac
    BY <1>0, <1>3, NoRowIsNone, FindsDevice DEF ActiveHostOf, Sound
  <2>2. /\ q.devices = p.devices \ {row} /\ q.approvals \subseteq p.approvals
        /\ q.codes \subseteq p.codes /\ q.next = p.next
        /\ RemoveHost(p, a, Mac).answer = row
    BY <1>0, <1>3 DEF RemoveHost, Answer, Sound, Plane
  <2> HIDE DEF q
  <2>3. FindDevice(q, Mac) = NoRow
    <3>1. \A s \in q.devices : s.device # Mac
      BY <1>0, <2>1, <2>2 DEF Sound, DevicesSound
    <3> QED BY <3>1, RowIsNone
  <2>4. row # NoRow /\ row \in Device
    BY <1>0, <2>1, NoRowAssumption
  <2>5. \A i \in Nat : OldId(p, i) => OldId(q, i)
    BY <2>2, OldIdsStay
  <2>6. MacTables(q)
    BY <1>0, <1>1, <2>2, <2>5 DEF MacTables, OldId
  <2>7. Leaves(p, q, "remove")
    BY <2>3, <2>4, <2>5, <2>6 DEF Leaves, RowStep
  <2> QED BY <2>2, <2>4, <2>7 DEF q
<1> QED BY <1>2, <1>3

\* A Mac's row is deleted by its id, whatever the tables have become.
LEMMA DeleteLeaves ==
  ASSUME NEW p, MacTables(p), NEW id \in Nat
  PROVE  /\ Leaves(p, DeleteDevice(p, id).plane, "delete")
         /\ DeleteDevice(p, id).answer \in BOOLEAN
<1> DEFINE q == DeleteDevice(p, id).plane
<1>0. Sound(p) /\ p.devices \subseteq Device
  BY DEF MacTables, Sound, Plane
<1>1. Sound(q)
  BY <1>0, DeleteDeviceSound
<1>2. CASE FindDeviceById(p, id) = NoRow
  BY <1>2, Untouched DEF DeleteDevice, Answer
<1>3. CASE FindDeviceById(p, id) # NoRow
  <2>1. /\ q.devices = {r \in p.devices : r.id # id} /\ q.approvals \subseteq p.approvals
        /\ q.codes = p.codes /\ q.next = p.next
        /\ DeleteDevice(p, id).answer = TRUE
    BY <1>0, <1>3 DEF DeleteDevice, Answer, Sound, Plane
  <2> HIDE DEF q
  <2>2. PICK row \in p.devices : row.id = id
    BY <1>0, <1>3, FindsDeviceById DEF Sound
  <2>3. \A r \in p.devices : r = row
    BY DEF MacTables, Sound, DevicesSound
  <2>4. FindDevice(q, Mac) = NoRow
    BY <2>1, <2>2, <2>3, RowIsNone
  <2>5. FindDevice(p, Mac) # NoRow
    BY <1>0, <2>2, NoRowIsNone DEF MacTables, Sound
  <2>6. \A i \in Nat : OldId(p, i) => OldId(q, i)
    BY <2>1, OldIdsStay
  <2>7. MacTables(q)
    BY <1>0, <1>1, <2>1, <2>6 DEF MacTables, OldId
  <2>8. Leaves(p, q, "delete")
    BY <2>4, <2>5, <2>6, <2>7 DEF Leaves, RowStep
  <2> QED BY <2>1, <2>8 DEF q
<1> QED BY <1>2, <1>3

LEMMA UpsertLeaves ==
  ASSUME NEW p, MacTables(p), NEW a \in Accounts
  PROVE  /\ Leaves(p, UpsertDevice(p, a, Mac).plane, "upsert")
         /\ UpsertDevice(p, a, Mac).answer \in Device \cup {Refused}
<1> DEFINE row == FindDevice(p, Mac)
           new == [id |-> p.next, device |-> Mac, owner |-> a]
           q == UpsertDevice(p, a, Mac).plane
<1>0. Sound(p) /\ p.next \in Nat /\ new \in Device
  BY DEF MacTables, Sound, Plane, Device
<1>1. Sound(q)
  BY <1>0, UpsertDeviceSound
<1>2. CASE row # NoRow
  <2>1. row \in Device
    BY <1>2, RowIsDevice
  <2> QED BY <1>2, <2>1, Untouched DEF UpsertDevice, Answer, Refuse
<1>3. CASE row = NoRow
  <2>1. /\ q.devices = p.devices \cup {new} /\ q.approvals = p.approvals
        /\ q.codes = p.codes /\ q.next = p.next + 1
        /\ UpsertDevice(p, a, Mac).answer = new
    BY <1>0, <1>3 DEF UpsertDevice, Answer, Sound, Plane
  <2> HIDE DEF q
  <2>2. FindDevice(q, Mac) # NoRow
    BY <1>1, <2>1, NoRowIsNone DEF Sound
  <2>3. \A i \in Nat : OldId(p, i) => OldId(q, i)
    BY <1>0, <2>1 DEF OldId
  <2>4. OldId(q, p.next)
    BY <1>0, <2>1 DEF MacTables, OldId, Sound, CodesSound, OwnIds, Plane, Code
  <2>5. MacTables(q)
    <3>1. \A r \in q.devices : r.device = Mac /\ OldId(q, r.id)
      <4>1. \A r \in p.devices : r.id \in Nat
        BY <1>0 DEF Sound, Plane, Device
      <4> QED BY <2>1, <2>3, <2>4, <4>1 DEF MacTables
    <3> QED BY <1>0, <1>1, <2>1, <3>1 DEF MacTables
  <2>6. Leaves(p, q, "upsert")
    BY <1>3, <2>2, <2>3, <2>5 DEF Leaves, RowStep
  <2> QED BY <1>0, <2>1, <2>6 DEF q
<1> QED BY <1>2, <1>3

\* Nothing but codes changes, and a code that is new has a new id.
LEMMA CodesLeave ==
  ASSUME NEW p, MacTables(p), NEW q, Sound(q), NEW at,
         q.devices = p.devices, q.approvals = p.approvals, p.next <= q.next,
         \A c \in q.codes : c.id = p.next \/ \E b \in p.codes : b.id = c.id
  PROVE  Leaves(p, q, at)
<1>1. p.next \in Nat /\ q.next \in Nat /\ p.devices \subseteq Device
  BY DEF MacTables, Sound, Plane
<1>2. \A i \in Nat : OldId(p, i) => OldId(q, i)
  BY <1>1 DEF OldId
<1>3. MacTables(q)
  BY <1>1, <1>2 DEF MacTables, Device
<1>4. RowStep(p, q, at)
  BY SameRow DEF RowStep
<1> QED BY <1>2, <1>3, <1>4 DEF Leaves

LEMMA ClaimLeaves ==
  ASSUME NEW p, MacTables(p), NEW at
  PROVE  /\ Leaves(p, ClaimCode(p, LinkCode).plane, at)
         /\ ClaimCode(p, LinkCode).answer \in Hosts \cup {Refused}
<1> DEFINE live == {r \in p.codes : r.code = LinkCode /\ r.state = "live"}
           row == CHOOSE r \in live : TRUE
           new == [row EXCEPT !.state = "claimed"]
           q == ClaimCode(p, LinkCode).plane
<1>0. Sound(p) /\ p.codes \subseteq Code /\ p.next \in Nat
  BY DEF MacTables, Sound, Plane
<1>1. Sound(q)
  BY <1>0, ClaimCodeSound
<1>2. CASE Cardinality(live) # 1
  BY <1>2, Untouched DEF ClaimCode, Answer, Refuse
<1>3. CASE Cardinality(live) = 1
  <2>1. row \in p.codes
    <3>1. Cardinality({}) = 0
      BY FS_EmptySet
    <3>2. live # {}
      <4> HIDE DEF live
      <4> QED BY <1>3, <3>1
    <3> QED BY <3>2
  <2>2. new.id = row.id /\ row.host \in Hosts
    BY <1>0, <2>1 DEF Code
  <2>3. /\ q.codes = (p.codes \ {row}) \cup {new} /\ q.devices = p.devices
        /\ q.approvals = p.approvals /\ q.next = p.next
        /\ ClaimCode(p, LinkCode).answer = row.host
    BY <1>0, <1>3 DEF ClaimCode, Answer, Sound, Plane
  <2> HIDE DEF q, row, new
  <2>4. Leaves(p, q, at)
    BY <1>0, <1>1, <2>1, <2>2, <2>3, CodesLeave
  <2> QED BY <2>2, <2>3, <2>4 DEF q
<1> QED BY <1>2, <1>3

LEMMA DeleteCodesLeaves ==
  ASSUME NEW p, MacTables(p), NEW at
  PROVE  /\ Leaves(p, DeleteCodes(p, Mac).plane, at)
         /\ DeleteCodes(p, Mac).answer \in BOOLEAN
<1> DEFINE rows == {r \in p.codes : r.host # Mac}
           q == [p EXCEPT !.codes = rows]
<1>0. Sound(p) /\ p.codes \subseteq Code /\ p.next \in Nat
  BY DEF MacTables, Sound, Plane
<1>1. DeleteCodes(p, Mac).plane = q /\ DeleteCodes(p, Mac).answer = TRUE
  BY DEF DeleteCodes, Answer
<1>2. Sound(q)
  BY <1>0, DropCodesSound
<1>3. /\ q.codes = rows /\ q.devices = p.devices /\ q.approvals = p.approvals /\ q.next = p.next
  BY <1>0 DEF Sound, Plane
<1> HIDE DEF q
<1>4. Leaves(p, q, at)
  BY <1>0, <1>2, <1>3, CodesLeave
<1> QED BY <1>1, <1>4

LEMMA CreateCodeLeaves ==
  ASSUME NEW p, MacTables(p), NEW at
  PROVE  Leaves(p, CreateCode(p, Mac, LinkCode).plane, at)
<1> DEFINE q == CreateCode(p, Mac, LinkCode).plane
           new == [id |-> p.next, code |-> LinkCode, host |-> Mac, state |-> "live"]
<1>0. Sound(p) /\ p.next \in Nat
  BY DEF MacTables, Sound, Plane
<1>1. Sound(q)
  BY <1>0, CreateCodeSound
<1>2. CASE \E r \in p.codes : r.code = LinkCode /\ r.state = "live"
  BY <1>2, Untouched DEF CreateCode, Answer, Refuse
<1>3. CASE ~\E r \in p.codes : r.code = LinkCode /\ r.state = "live"
  <2>1. /\ q.codes \subseteq p.codes \cup {new} /\ q.devices = p.devices
        /\ q.approvals = p.approvals /\ q.next = p.next + 1
    BY <1>0, <1>3 DEF CreateCode, Answer, Sound, Plane
  <2> HIDE DEF q
  <2>2. Leaves(p, q, at)
    BY <1>0, <1>1, <2>1, CodesLeave
  <2> QED BY <2>2 DEF q
<1> QED BY <1>2, <1>3
-----------------------------------------------------------------------------
(* Types: what a handler waits for in each of its phases.                  *)

Marker == [by : Accounts \cup {NoAccount}, n : Int, old : BOOLEAN]

\* Markers of the removals that the hub gave up.
GivenUp == {m \in Marker : m.by \in Accounts}

Handlers ==
  [kind : Kinds \cup {"idle", "alarm"}, who : Accounts \cup {NoAccount},
   at : {"idle", "forget", "tell"} \cup Calls,
   ans : {Waiting, Lost, Refused, NoRow} \cup Device \cup Hosts \cup BOOLEAN,
   conn : 0 .. MaxConnections, seen : Device \cup {NoRow}, mark : Marker]

InPhase(x) ==
  \/ x.kind = "idle" /\ x.at = "idle"
  \/ x.kind = "connect" /\ x.at \in {"find", "recheck"}
  \/ x.kind = "rename" /\ x.at \in {"rename", "recheck"}
  \/ x.kind = "remove" /\ x.at \in {"find", "remove", "recheck", "forget"}
  \/ x.kind = "claim" /\ x.at \in {"claim", "find", "upsert", "tell"}
  \/ x.kind = "signout" /\ x.at \in {"find", "codes", "delete", "forget"}
  \/ x.kind = "alarm" /\ x.at \in {"find", "forget"}

\* What the call a handler waits for may answer.
AnswerOk(x) ==
  \/ x.ans \in {Waiting, Lost}
  \/ x.at \in {"find", "recheck"} /\ x.ans \in Device \cup {NoRow}
  \/ x.at \in {"rename", "remove", "upsert"} /\ x.ans \in Device \cup {Refused}
  \/ x.at = "claim" /\ x.ans \in Hosts \cup {Refused}
  \/ x.at \in {"codes", "delete"} /\ x.ans \in BOOLEAN

\* A handler's account, and the row it holds while it waits for a second answer.
HoldsOk(x) ==
  /\ x.kind \in {"rename", "remove", "claim"} => x.who \in Accounts
  /\ x.at = "remove" => x.mark.by \in Accounts
  /\ \/ x.kind \in {"connect", "rename"} /\ x.at = "recheck"
     \/ x.kind = "signout" /\ x.at \in {"codes", "delete"}
     => x.seen \in Device

HandlerOk(x) == InPhase(x) /\ AnswerOk(x) /\ HoldsOk(x)

\* Who, or what, the Mac was last told by.
Tellers == {"none", "lookup", "overlapped lookup", "removal", "claim", "signout", "failure"}

HubOk ==
  /\ record \in {"none", "before", "after"} /\ pending \in Marker
  /\ outdated \subseteq Lookups /\ late \subseteq GivenUp
  /\ peer \in 0 .. MaxConnections /\ told \in [owner : Accounts \cup {NoAccount}, by : Tellers]
  /\ uncleaned \in BOOLEAN /\ signedOut \in BOOLEAN

Typed ==
  /\ MacTables(plane)
  /\ task \in [Tasks -> Handlers] /\ \A t \in Tasks : HandlerOk(task[t])
  /\ HubOk

\* The handler goes on: it waits for the answer of its next call, or for storage.
Becomes(t, at, seen, mark) ==
  /\ task' \in [Tasks -> Handlers]
  /\ \A s \in Tasks \ {t} : task'[s] = task[s]
  /\ task'[t].kind = task[t].kind /\ task'[t].who = task[t].who /\ task'[t].at = at
  /\ task'[t].ans = Waiting /\ task'[t].conn = task[t].conn
  /\ task'[t].seen = seen /\ task'[t].mark = mark

\* A handler begins.
Begins(t, kind, who, at, conn) ==
  /\ task' \in [Tasks -> Handlers]
  /\ \A s \in Tasks \ {t} : task'[s] = task[s]
  /\ task'[t].kind = kind /\ task'[t].who = who /\ task'[t].at = at
  /\ task'[t].ans = Waiting /\ task'[t].conn = conn /\ task[t] = Idle

LEMMA IdleOk == Idle \in Handlers /\ HandlerOk(Idle) /\ NoMarker \in Marker /\ Idle.kind = "idle"
BY DEF Idle, Handlers, HandlerOk, InPhase, AnswerOk, HoldsOk, NoMarker, Marker

LEMMA Ends ==
  ASSUME Typed, NEW t \in Tasks, End(t)
  PROVE  /\ task' \in [Tasks -> Handlers] /\ task'[t] = Idle
         /\ \A s \in Tasks \ {t} : task'[s] = task[s]
BY IdleOk DEF Typed, End

LEMMA Goes ==
  ASSUME Typed, NEW t \in Tasks, NEW at \in {"idle", "forget", "tell"} \cup Calls, Goto(t, at)
  PROVE  Becomes(t, at, task[t].seen, task[t].mark)
<1> DEFINE x == [task[t] EXCEPT !.at = at, !.ans = Waiting]
<1>1. task[t] \in Handlers
  BY DEF Typed
<1>2. /\ x \in Handlers /\ x.kind = task[t].kind /\ x.who = task[t].who /\ x.at = at
      /\ x.ans = Waiting /\ x.conn = task[t].conn
      /\ x.seen = task[t].seen /\ x.mark = task[t].mark
  BY <1>1 DEF Handlers
<1>3. task' = [task EXCEPT ![t] = x]
  BY <1>1 DEF Goto, Typed
<1> HIDE DEF x
<1> QED BY <1>2, <1>3 DEF Typed, Becomes

LEMMA GoesSeeing ==
  ASSUME Typed, NEW t \in Tasks, NEW at \in {"idle", "forget", "tell"} \cup Calls,
         NEW row \in Device
  PROVE  task' = [task EXCEPT ![t].at = at, ![t].ans = Waiting, ![t].seen = row]
           => Becomes(t, at, row, task[t].mark)
<1> DEFINE x == [task[t] EXCEPT !.at = at, !.ans = Waiting, !.seen = row]
<1>1. task[t] \in Handlers
  BY DEF Typed
<1>2. /\ x \in Handlers /\ x.kind = task[t].kind /\ x.who = task[t].who /\ x.at = at
      /\ x.ans = Waiting /\ x.conn = task[t].conn
      /\ x.seen = row /\ x.mark = task[t].mark
  BY <1>1 DEF Handlers
<1>3. [task EXCEPT ![t].at = at, ![t].ans = Waiting, ![t].seen = row] = [task EXCEPT ![t] = x]
  BY <1>1 DEF Typed
<1> HIDE DEF x
<1>4. task' = [task EXCEPT ![t] = x] => Becomes(t, at, row, task[t].mark)
  BY <1>2 DEF Typed, Becomes
<1> QED BY <1>3, <1>4

LEMMA GoesMarked ==
  ASSUME Typed, NEW t \in Tasks, NEW at \in {"idle", "forget", "tell"} \cup Calls,
         NEW m \in Marker
  PROVE  task' = [task EXCEPT ![t].at = at, ![t].ans = Waiting, ![t].mark = m]
           => Becomes(t, at, task[t].seen, m)
<1> DEFINE x == [task[t] EXCEPT !.at = at, !.ans = Waiting, !.mark = m]
<1>1. task[t] \in Handlers
  BY DEF Typed
<1>2. /\ x \in Handlers /\ x.kind = task[t].kind /\ x.who = task[t].who /\ x.at = at
      /\ x.ans = Waiting /\ x.conn = task[t].conn
      /\ x.seen = task[t].seen /\ x.mark = m
  BY <1>1 DEF Handlers
<1>3. [task EXCEPT ![t].at = at, ![t].ans = Waiting, ![t].mark = m] = [task EXCEPT ![t] = x]
  BY <1>1 DEF Typed
<1> HIDE DEF x
<1>4. task' = [task EXCEPT ![t] = x] => Becomes(t, at, task[t].seen, m)
  BY <1>2 DEF Typed, Becomes
<1> QED BY <1>3, <1>4

LEMMA Starts ==
  ASSUME Typed, NEW t \in Tasks, NEW kind \in Kinds, NEW who \in Accounts \cup {NoAccount},
         NEW at \in Calls, NEW conn \in 0 .. MaxConnections, Start(t, kind, who, at, conn)
  PROVE  Begins(t, kind, who, at, conn)
<1> DEFINE x == [Idle EXCEPT !.kind = kind, !.who = who, !.at = at, !.conn = conn]
<1>1. /\ x \in Handlers /\ x.kind = kind /\ x.who = who /\ x.at = at
      /\ x.ans = Waiting /\ x.conn = conn
  BY IdleOk DEF Idle, Handlers
<1>2. task' = [task EXCEPT ![t] = x] /\ task[t] = Idle
  BY DEF Start, Free
<1> HIDE DEF x
<1> QED BY <1>1, <1>2 DEF Typed, Begins

-----------------------------------------------------------------------------
(* The invariant.                                                          *)

\* The rows a Sign Out found were the Mac's: their ids mean nothing else.
FoundRowsAreOld ==
  \A t \in Tasks : task[t].kind = "signout" =>
     /\ task[t].at = "find" /\ task[t].ans \in Device => OldId(plane, task[t].ans.id)
     /\ task[t].at \in {"codes", "delete"} => OldId(plane, task[t].seen.id)

\* A removal to be cleaned up, or a Sign Out, left the Mac without a row.
GoneIsGone == uncleaned \/ signedOut => Row = NoRow

\* A lookup whose second answer found a row, and that will tell the Mac so.
Rechecked(t) ==
  task[t].kind \in {"connect", "rename"} /\ task[t].at = "recheck" /\ task[t].ans \in Device

\* What such a lookup found is so, unless a Sign Out, a removal or a link that
\* came in between makes it keep silent, or is noted as overlapping it.
LookupsAreTrue ==
  ~SignOutRuns /\ record # "after" /\ ~uncleaned =>
    \A t \in Tasks : Rechecked(t) /\ t \notin outdated \cup overlapped => task[t].ans.owner = Owner

\* After a Sign Out, only lookups it marked may still have found a row.
SignedOutLookups == signedOut => \A t \in Tasks : Rechecked(t) => t \in outdated

\* The connect handler of the Mac's connection has yet to tell it something;
\* it will not when its two answers name different accounts.
Asked(t) == IF task[t].at = "find" THEN task[t].ans ELSE task[t].seen
Telling(t) == task[t].kind = "connect" /\ task[t].conn = peer
Unsure(t) ==
  /\ Asked(t) \in Device
  /\ \/ Row # NoRow /\ Asked(t).owner # Owner
     \/ Rechecked(t) /\ Asked(t).owner # task[t].ans.owner

\* A Sign Out tells the connection that asked for it, or a newer one is asking.
SigningOut(t) == task[t].kind = "signout" /\ task[t].at \in {"find", "codes", "delete"}
SignOutTells(t) == task[t].kind = "signout" /\ task[t].conn = peer /\ task[t].at = "delete"

\* A connected Mac was told its account, or somebody will tell it better.
ToldIsTrue ==
  peer # 0 /\ told.by = "lookup" /\ told.owner # NoAccount =>
     \/ told.owner = Owner /\ \A t \in Tasks : SigningOut(t) => task[t].conn = peer
     \/ uncleaned
     \/ \E t \in Tasks : SignOutTells(t) \/ (Telling(t) /\ ~Unsure(t))

Inv ==
  /\ Typed /\ FoundRowsAreOld /\ GoneIsGone
  /\ LookupsAreTrue /\ SignedOutLookups /\ ToldIsTrue

\* A step of a handler that looks nothing up and signs nothing out.
Aside(t) ==
  /\ task' \in [Tasks -> Handlers] /\ \A s \in Tasks \ {t} : task'[s] = task[s]
  /\ HandlerOk(task'[t])
  /\ task[t].kind \notin {"connect", "rename", "signout"}
  /\ task'[t].kind \notin {"connect", "rename", "signout"}
  /\ plane' = plane /\ peer' = peer

\* It tells the Mac nothing a lookup told, cleans up by leaving a record or
\* noting the lookups that it overlapped, and marks no lookup as current.
AsideHub ==
  /\ record' \in {"none", "before", "after"} /\ pending' \in Marker /\ late' \subseteq GivenUp
  /\ told' \in [owner : Accounts \cup {NoAccount}, by : Tellers]
  /\ uncleaned' \in BOOLEAN /\ signedOut' \in BOOLEAN
  /\ (uncleaned' => uncleaned) /\ (signedOut' => signedOut)
  /\ told' = told \/ told'.by # "lookup"
  /\ uncleaned' = uncleaned \/ peer = 0 \/ told'.by # "lookup"
  /\ \/ outdated' = outdated
     \/ outdated' = {} /\ ~signedOut'
  /\ \/ overlapped' = Lookups
     \/ /\ outdated' = outdated /\ overlapped' = overlapped
        /\ record' = "after" \/ (record' = record /\ uncleaned' = uncleaned)

LEMMA AsideKeeps ==
  ASSUME Inv, NEW t \in Tasks, Aside(t), AsideHub
  PROVE  Inv'
<1>0. /\ Typed /\ Row' = Row /\ Owner' = Owner
      /\ \A s \in Tasks : task[s].kind \in {"connect", "rename", "signout"}
                            \/ task'[s].kind \in {"connect", "rename", "signout"} => task'[s] = task[s]
  BY DEF Inv, Aside, Row, Owner
<1>1. Typed'
  <2>1. \A s \in Tasks : HandlerOk(task'[s])
    BY DEF Inv, Typed, Aside
  <2>2. outdated' \subseteq Lookups'
    BY <1>0 DEF Typed, HubOk, Lookups, AsideHub
  <2> QED BY <1>0, <2>1, <2>2 DEF Typed, HubOk, Aside, AsideHub
<1>2. FoundRowsAreOld'
  BY <1>0 DEF Inv, FoundRowsAreOld, Aside
<1>3. GoneIsGone'
  BY <1>0 DEF Inv, GoneIsGone, AsideHub
<1>4. LookupsAreTrue'
  <2>1. SignOutRuns' = SignOutRuns
    BY <1>0 DEF SignOutRuns, Of
  <2>2. \A s \in Tasks : Rechecked(s)' => Rechecked(s) /\ task'[s] = task[s]
    BY <1>0 DEF Rechecked
  <2>3. CASE overlapped' = Lookups
    BY <1>0, <2>2, <2>3 DEF LookupsAreTrue, Rechecked, Lookups
  <2>4. CASE /\ outdated' = outdated /\ overlapped' = overlapped
             /\ record' = "after" \/ (record' = record /\ uncleaned' = uncleaned)
    BY <1>0, <2>1, <2>2, <2>4 DEF Inv, LookupsAreTrue
  <2> QED BY <2>3, <2>4 DEF AsideHub
<1>5. SignedOutLookups'
  <2>1. \A s \in Tasks : Rechecked(s)' => Rechecked(s)
    BY <1>0 DEF Rechecked
  <2> QED BY <2>1 DEF Inv, SignedOutLookups, AsideHub
<1>6. ToldIsTrue'
  <2>1. \A s \in Tasks : SignOutTells(s) => SignOutTells(s)'
    BY <1>0 DEF SignOutTells, Aside
  <2>2. \A s \in Tasks : Telling(s) /\ ~Unsure(s) => Telling(s)' /\ ~Unsure(s)'
    BY <1>0 DEF Telling, Unsure, Asked, Rechecked, Aside
  <2>3. \A s \in Tasks : SigningOut(s)' => SigningOut(s) /\ task'[s] = task[s]
    BY <1>0 DEF SigningOut
  <2>4. CASE peer = 0 \/ told'.by # "lookup"
    BY <2>4 DEF ToldIsTrue, Aside
  <2>5. CASE uncleaned' = uncleaned /\ told' = told
    BY <1>0, <2>1, <2>2, <2>3, <2>5 DEF Inv, ToldIsTrue, Aside
  <2> QED BY <2>4, <2>5 DEF AsideHub
<1> QED BY <1>1, <1>2, <1>3, <1>4, <1>5, <1>6 DEF Inv
-----------------------------------------------------------------------------
(* Steps of removals, claims and the alarm.                                *)

LEMMA EndsAside ==
  ASSUME Typed, NEW t \in Tasks, End(t), plane' = plane, peer' = peer,
         task[t].kind \notin {"connect", "rename", "signout"}
  PROVE  Aside(t)
BY Ends, IdleOk DEF Aside

LEMMA GoesAside ==
  ASSUME Typed, NEW t \in Tasks, NEW at, NEW seen, NEW mark, Becomes(t, at, seen, mark),
         plane' = plane, peer' = peer,
         at = "remove" => mark.by \in Accounts,
         \/ task[t].kind = "remove" /\ at \in {"remove", "recheck", "forget"}
         \/ task[t].kind = "claim" /\ at \in {"find", "upsert", "tell"}
         \/ task[t].kind = "alarm" /\ at = "forget"
  PROVE  Aside(t)
BY DEF Aside, Becomes, Typed, HandlerOk, InPhase, AnswerOk, HoldsOk

\* The step changes nothing of the hub but, perhaps, the marker.
LEMMA QuietHub ==
  ASSUME Typed, pending' \in Marker,
         UNCHANGED <<record, outdated, told, late, uncleaned, signedOut, overlapped>>
  PROVE  AsideHub
BY DEF Typed, HubOk, AsideHub

LEMMA FinishKeeps ==
  ASSUME Inv, NEW t \in Tasks, NEW m \in Marker, Finish(t, m), pending' = pending,
         task[t].kind \in {"remove", "alarm"},
         UNCHANGED <<outdated, peer, plane, late, signedOut, overlapped>>
  PROVE  Inv'
<1>0. Typed
  BY DEF Inv
<1>1. Becomes(t, "forget", task[t].seen, m)
  BY <1>0, GoesMarked DEF Finish
<1>2. Aside(t)
  BY <1>0, <1>1, GoesAside
<1>3. told' \in [owner : Accounts \cup {NoAccount}, by : Tellers]
  BY <1>0 DEF Finish, Tell, Typed, HubOk, Tellers
<1>4. AsideHub
  BY <1>0, <1>3 DEF Finish, Tell, AsideHub, Typed, HubOk
<1> QED BY <1>2, <1>4, AsideKeeps

LEMMA RemoveKeeps ==
  ASSUME Inv, NEW t \in Tasks, NEW a \in Accounts, Remove(t, a)
  PROVE  Inv'
<1>0. Typed
  BY DEF Inv
<1>1. Begins(t, "remove", a, "find", 0)
  BY <1>0, Starts DEF Remove, Kinds, Calls
<1>2. Aside(t)
  BY <1>1 DEF Remove, hub, Begins, Aside, HandlerOk, InPhase, AnswerOk, HoldsOk, Idle
<1>3. AsideHub
  BY <1>0, QuietHub DEF Remove, hub, Typed, HubOk
<1> QED BY <1>2, <1>3, AsideKeeps

LEMMA ClaimKeeps ==
  ASSUME Inv, NEW t \in Tasks, NEW a \in Accounts, Claim(t, a)
  PROVE  Inv'
<1>0. Typed
  BY DEF Inv
<1>1. Begins(t, "claim", a, "claim", 0)
  BY <1>0, Starts DEF Claim, Kinds, Calls
<1>2. Aside(t)
  BY <1>1 DEF Claim, hub, Begins, Aside, HandlerOk, InPhase, AnswerOk, HoldsOk, Idle
<1>3. AsideHub
  BY <1>0, QuietHub DEF Claim, hub, Typed, HubOk
<1> QED BY <1>2, <1>3, AsideKeeps

LEMMA RetryKeeps ==
  ASSUME Inv, NEW t \in Tasks, NEW a \in Accounts, Retry(t, a)
  PROVE  Inv'
<1> DEFINE x == [Idle EXCEPT !.kind = "remove", !.who = a, !.at = "find"]
<1>0. Typed
  BY DEF Inv
<1>1. x \in Handlers /\ x.kind = "remove" /\ HandlerOk(x)
  BY IdleOk DEF Idle, Handlers, HandlerOk, InPhase, AnswerOk, HoldsOk, Kinds, Calls
<1>2. task' = [task EXCEPT ![t] = x] /\ task[t].kind = "idle"
  BY IdleOk DEF Retry, Free
<1> HIDE DEF x
<1>3. Aside(t)
  BY <1>0, <1>1, <1>2 DEF Retry, hub, Aside, Typed
<1>4. AsideHub
  BY <1>0, QuietHub DEF Retry, hub, Typed, HubOk
<1> QED BY <1>3, <1>4, AsideKeeps

LEMMA AlarmKeeps ==
  ASSUME Inv, NEW t \in Tasks, Alarm(t)
  PROVE  Inv'
<1> DEFINE x == [Idle EXCEPT !.kind = "alarm", !.at = "find", !.mark = pending]
<1>0. Typed /\ pending \in Marker
  BY DEF Inv, Typed, HubOk
<1>1. x \in Handlers /\ x.kind = "alarm" /\ HandlerOk(x)
  BY <1>0, IdleOk DEF Idle, Handlers, HandlerOk, InPhase, AnswerOk, HoldsOk, Calls
<1>2. task' = [task EXCEPT ![t] = x] /\ task[t].kind = "idle"
  BY IdleOk DEF Alarm, Free
<1> HIDE DEF x
<1>3. Aside(t)
  BY <1>0, <1>1, <1>2 DEF Alarm, hub, world, Aside, Typed
<1>4. AsideHub
  BY <1>0, QuietHub DEF Alarm, hub, world
<1> QED BY <1>3, <1>4, AsideKeeps

LEMMA RemoveFoundKeeps ==
  ASSUME Inv, NEW t \in Tasks, RemoveFound(t)
  PROVE  Inv'
<1>0. /\ Typed /\ pending \in Marker /\ task[t] \in Handlers /\ task[t].kind = "remove"
      /\ UNCHANGED <<outdated, peer, plane, late, signedOut, overlapped>>
  BY DEF Inv, Typed, HubOk, RemoveFound, At
<1>1. CASE Finish(t, pending) /\ UNCHANGED pending
  BY <1>0, <1>1, FinishKeeps
<1>2. CASE /\ \E n \in NewNumbers : NewMarker(n, task[t].who)
           /\ task' = [task EXCEPT ![t].at = "remove", ![t].ans = Waiting, ![t].mark = pending']
           /\ UNCHANGED <<record, told, uncleaned>>
  <2>1. pending' \in Marker /\ pending'.by \in Accounts
    BY <1>0, <1>2 DEF NewMarker, NewNumbers, Marker, Typed, HandlerOk, HoldsOk
  <2>2. Becomes(t, "remove", task[t].seen, pending')
    BY <1>0, <1>2, <2>1, GoesMarked DEF Calls
  <2>3. Aside(t)
    BY <1>0, <2>1, <2>2, GoesAside
  <2> QED BY <1>0, <1>2, <2>1, <2>3, QuietHub, AsideKeeps
<1>3. CASE End(t) /\ UNCHANGED <<record, told, uncleaned, pending>>
  <2>1. Aside(t)
    BY <1>0, <1>3, EndsAside
  <2> QED BY <1>0, <1>3, <2>1, QuietHub, AsideKeeps
<1> QED BY <1>1, <1>2, <1>3 DEF RemoveFound

LEMMA Forgets ==
  ASSUME Typed, NEW m, ForgetMarker(m)
  PROVE  pending' \in Marker
BY IdleOk DEF ForgetMarker, Typed, HubOk

LEMMA RemoveAnsweredKeeps ==
  ASSUME Inv, NEW t \in Tasks, RemoveAnswered(t)
  PROVE  Inv'
<1>0. /\ Typed /\ pending \in Marker /\ task[t] \in Handlers /\ task[t].kind = "remove"
      /\ UNCHANGED <<outdated, peer, plane, late, signedOut, overlapped>>
  BY DEF Inv, Typed, HubOk, RemoveAnswered, At
<1>1. CASE Got(t) = Lost
  <2>1. Goto(t, "recheck") /\ UNCHANGED <<record, told, uncleaned, pending>>
    BY <1>1 DEF RemoveAnswered
  <2>2. Becomes(t, "recheck", task[t].seen, task[t].mark)
    BY <1>0, <2>1, Goes DEF Calls
  <2>3. Aside(t)
    BY <1>0, <2>2, GoesAside
  <2> QED BY <1>0, <2>1, <2>3, QuietHub, AsideKeeps
<1>2. CASE Got(t) = Refused
  <2>1. End(t) /\ UNCHANGED <<record, told, uncleaned>> /\ ForgetMarker(task[t].mark)
    BY <1>2 DEF RemoveAnswered
  <2>2. Aside(t)
    BY <1>0, <2>1, EndsAside
  <2>3. pending' \in Marker
    BY <1>0, <2>1, Forgets
  <2> QED BY <1>0, <2>1, <2>2, <2>3, QuietHub, AsideKeeps
<1>3. CASE Got(t) \notin {Lost, Refused}
  <2>1. Finish(t, task[t].mark) /\ UNCHANGED pending /\ task[t].mark \in Marker
    BY <1>0, <1>3 DEF RemoveAnswered, Handlers
  <2> QED BY <1>0, <2>1, FinishKeeps
<1> QED BY <1>1, <1>2, <1>3

LEMMA RemoveRecheckedKeeps ==
  ASSUME Inv, NEW t \in Tasks, RemoveRechecked(t)
  PROVE  Inv'
<1>0. /\ Typed /\ pending \in Marker /\ task[t] \in Handlers /\ task[t].kind = "remove"
      /\ UNCHANGED <<pending, outdated, peer, plane, late, signedOut, overlapped>>
  BY DEF Inv, Typed, HubOk, RemoveRechecked, At
<1>1. CASE Got(t) = NoRow
  <2>1. Finish(t, task[t].mark) /\ task[t].mark \in Marker
    BY <1>0, <1>1 DEF RemoveRechecked, Handlers
  <2> QED BY <1>0, <2>1, FinishKeeps
<1>2. CASE Got(t) # NoRow
  <2>1. End(t) /\ UNCHANGED <<record, told, uncleaned>>
    BY <1>2 DEF RemoveRechecked
  <2>2. Aside(t)
    BY <1>0, <2>1, EndsAside
  <2> QED BY <1>0, <2>1, <2>2, QuietHub, AsideKeeps
<1> QED BY <1>1, <1>2

LEMMA MarkerForgottenKeeps ==
  ASSUME Inv, NEW t \in Tasks, MarkerForgotten(t)
  PROVE  Inv'
<1>0. /\ Typed /\ End(t) /\ ForgetMarker(task[t].mark) /\ task[t].kind \in {"remove", "alarm"}
      /\ UNCHANGED <<record, outdated, peer, told, plane, late, uncleaned, signedOut, overlapped>>
  BY DEF Inv, MarkerForgotten, world
<1>1. Aside(t)
  BY <1>0, EndsAside
<1>2. pending' \in Marker
  BY <1>0, Forgets
<1> QED BY <1>0, <1>1, <1>2, QuietHub, AsideKeeps

LEMMA AlarmFoundKeeps ==
  ASSUME Inv, NEW t \in Tasks, AlarmFound(t)
  PROVE  Inv'
<1>0. /\ Typed /\ pending \in Marker /\ NoMarker \in Marker /\ task[t].kind = "alarm"
      /\ UNCHANGED <<outdated, peer, plane, late, signedOut, overlapped>>
  BY IdleOk DEF Inv, Typed, HubOk, AlarmFound, At
<1>1. CASE Finish(t, pending) /\ UNCHANGED pending
  BY <1>0, <1>1, FinishKeeps
<1>2. CASE End(t) /\ UNCHANGED <<record, told, uncleaned>> /\ pending' \in {pending, NoMarker}
  <2>1. Aside(t)
    BY <1>0, <1>2, EndsAside
  <2> QED BY <1>0, <1>2, <2>1, QuietHub, AsideKeeps
<1> QED BY <1>1, <1>2 DEF AlarmFound

LEMMA ClaimWaitsKeep ==
  ASSUME Inv, NEW t \in Tasks, ClaimAnswered(t) \/ ClaimFound(t)
  PROVE  Inv'
<1>0. /\ Typed /\ pending \in Marker /\ task[t].kind = "claim"
      /\ UNCHANGED <<record, pending, outdated, peer, told, plane, late, uncleaned,
                     signedOut, overlapped>>
      /\ End(t) \/ Goto(t, "find") \/ Goto(t, "upsert")
  BY DEF Inv, Typed, HubOk, ClaimAnswered, ClaimFound, At, hub, world
<1>1. CASE End(t)
  BY <1>0, <1>1, EndsAside, QuietHub, AsideKeeps
<1>2. CASE Goto(t, "find") \/ Goto(t, "upsert")
  <2>1. \/ Becomes(t, "find", task[t].seen, task[t].mark)
        \/ Becomes(t, "upsert", task[t].seen, task[t].mark)
    BY <1>0, <1>2, Goes DEF Calls
  <2>2. Aside(t)
    BY <1>0, <2>1, GoesAside
  <2> QED BY <1>0, <2>2, QuietHub, AsideKeeps
<1> QED BY <1>0, <1>1, <1>2

LEMMA ClaimLinkedKeeps ==
  ASSUME Inv, NEW t \in Tasks, ClaimLinked(t)
  PROVE  Inv'
<1>0. /\ Typed /\ pending \in Marker /\ NoMarker \in Marker /\ task[t].kind = "claim"
      /\ told \in [owner : Accounts \cup {NoAccount}, by : Tellers]
      /\ UNCHANGED <<peer, plane, late>>
  BY IdleOk DEF Inv, Typed, HubOk, ClaimLinked, At
<1>1. CASE Got(t) \in {Lost, Refused}
  <2>1. End(t) /\ UNCHANGED <<record, pending, told, outdated, uncleaned, signedOut, overlapped>>
    BY <1>1 DEF ClaimLinked
  <2>2. Aside(t)
    BY <1>0, <2>1, EndsAside
  <2> QED BY <1>0, <2>1, <2>2, QuietHub, AsideKeeps
<1>2. CASE Got(t) \notin {Lost, Refused}
  <2>1. /\ TakesOver /\ record' = "none" /\ outdated' = {} /\ ~signedOut' /\ signedOut' \in BOOLEAN
        /\ overlapped' = Lookups /\ Goto(t, "tell")
    BY <1>2 DEF ClaimLinked
  <2>2. Becomes(t, "tell", task[t].seen, task[t].mark)
    BY <1>0, <2>1, Goes
  <2>3. Aside(t)
    BY <1>0, <2>2, GoesAside
  <2>4. /\ Overlapped \in [owner : Accounts \cup {NoAccount}, by : Tellers]
        /\ Overlapped.by = "overlapped lookup"
    BY <1>0 DEF Overlapped, Tellers
  <2>5. AsideHub
    BY <1>0, <2>1, <2>4 DEF AsideHub, TakesOver, Typed, HubOk
  <2> QED BY <2>3, <2>5, AsideKeeps
<1> QED BY <1>1, <1>2

LEMMA ClaimToldKeeps ==
  ASSUME Inv, NEW t \in Tasks, ClaimTold(t)
  PROVE  Inv'
<1>0. /\ Typed /\ task[t].kind = "claim" /\ task[t].who \in Accounts \cup {NoAccount} /\ End(t)
      /\ Tell(task[t].who, "claim") /\ told \in [owner : Accounts \cup {NoAccount}, by : Tellers]
      /\ UNCHANGED <<record, pending, outdated, peer, plane, late, uncleaned, signedOut, overlapped>>
  BY DEF Inv, Typed, HubOk, ClaimTold, At, world, Handlers
<1>1. Aside(t)
  BY <1>0, EndsAside
<1>2. told' \in [owner : Accounts \cup {NoAccount}, by : Tellers]
  BY <1>0 DEF Tell, Tellers
<1>3. AsideHub
  BY <1>0, <1>2 DEF AsideHub, Tell, Typed, HubOk
<1> QED BY <1>1, <1>3, AsideKeeps
-----------------------------------------------------------------------------
(* Steps of Sign Outs.                                                     *)

\* What such a step does: a handler t goes on, and it tells what it found or
\* leaves things as they are.
SignsOut(t) ==
  /\ task' \in [Tasks -> Handlers] /\ \A s \in Tasks \ {t} : task'[s] = task[s]
  /\ HandlerOk(task'[t])
  /\ task[t].kind \in {"idle", "signout"} /\ task'[t].kind \in {"idle", "signout"}
  /\ task'[t].kind = "signout" =>
       /\ task'[t].ans = Waiting
       /\ task'[t].at \in {"codes", "delete"} => OldId(plane, task'[t].seen.id)
  /\ UNCHANGED <<plane, peer, record, late>>

SignsOutHub(t) ==
  /\ pending' \in Marker /\ told' \in [owner : Accounts \cup {NoAccount}, by : Tellers]
  /\ uncleaned' \in BOOLEAN /\ signedOut' \in BOOLEAN /\ (uncleaned' => uncleaned)
  /\ signedOut' => signedOut \/ Row = NoRow
  /\ outdated' = Lookups \/ (outdated' = outdated /\ (signedOut' => signedOut))
  /\ \/ overlapped' = Lookups \/ outdated' = Lookups \/ SignOutRuns'
     \/ /\ overlapped' = overlapped /\ outdated' = outdated /\ uncleaned' = uncleaned
        /\ SignOutRuns' = SignOutRuns
  /\ \/ told'.by # "lookup"
     \/ /\ told' = told /\ uncleaned' = uncleaned
        /\ SignOutTells(t) => SignOutTells(t)'
        /\ SigningOut(t)' => task'[t].conn = task[t].conn \/ task'[t].conn = peer
        /\ SigningOut(t)' => SigningOut(t) \/ task'[t].conn = peer

LEMMA SignsOutKeeps ==
  ASSUME Inv, NEW t \in Tasks, SignsOut(t), SignsOutHub(t)
  PROVE  Inv'
<1>0. /\ Typed /\ Row' = Row /\ Owner' = Owner
      /\ \A s \in Tasks : task[s].kind \in {"connect", "rename"}
                            \/ task'[s].kind \in {"connect", "rename"} => task'[s] = task[s]
  BY DEF Inv, SignsOut, Row, Owner
<1>1. Lookups' = Lookups /\ \A s \in Tasks : Rechecked(s) => s \in Lookups
  BY <1>0 DEF Lookups, Rechecked
<1>2. \A s \in Tasks : Rechecked(s)' => Rechecked(s) /\ task'[s] = task[s]
  BY <1>0 DEF Rechecked
<1>3. Typed'
  <2>1. \A s \in Tasks : HandlerOk(task'[s])
    BY DEF Inv, Typed, SignsOut
  <2>2. outdated' \subseteq Lookups'
    BY <1>0, <1>1 DEF Typed, HubOk, SignsOutHub
  <2> QED BY <1>0, <2>1, <2>2 DEF Typed, HubOk, SignsOut, SignsOutHub
<1>4. FoundRowsAreOld'
  BY <1>0 DEF Inv, FoundRowsAreOld, SignsOut
<1>5. GoneIsGone'
  BY <1>0 DEF Inv, GoneIsGone, SignsOutHub
<1>6. LookupsAreTrue'
  <2>1. CASE overlapped' = Lookups \/ outdated' = Lookups \/ SignOutRuns'
    BY <1>1, <1>2, <2>1 DEF LookupsAreTrue
  <2>2. CASE /\ overlapped' = overlapped /\ outdated' = outdated /\ uncleaned' = uncleaned
             /\ SignOutRuns' = SignOutRuns
    BY <1>0, <1>2, <2>2 DEF Inv, LookupsAreTrue, SignsOut
  <2> QED BY <2>1, <2>2 DEF SignsOutHub
<1>7. SignedOutLookups'
  BY <1>1, <1>2 DEF Inv, SignedOutLookups, SignsOutHub
<1>8. ToldIsTrue'
  <2>1. CASE told'.by # "lookup"
    BY <2>1 DEF ToldIsTrue
  <2>2. CASE /\ told' = told /\ uncleaned' = uncleaned
             /\ SignOutTells(t) => SignOutTells(t)'
             /\ SigningOut(t)' => task'[t].conn = task[t].conn \/ task'[t].conn = peer
             /\ SigningOut(t)' => SigningOut(t) \/ task'[t].conn = peer
    <3>1. \A s \in Tasks : SignOutTells(s) => SignOutTells(s)'
      BY <2>2 DEF SignOutTells, SignsOut
    <3>2. \A s \in Tasks : Telling(s) /\ ~Unsure(s) => Telling(s)' /\ ~Unsure(s)'
      BY <1>0 DEF Telling, Unsure, Asked, Rechecked, SignsOut
    <3>3. \A s \in Tasks : SigningOut(s)' =>
            (SigningOut(s) /\ task'[s].conn = task[s].conn) \/ task'[s].conn = peer
      BY <2>2 DEF SigningOut, SignsOut
    <3> QED BY <1>0, <2>2, <3>1, <3>2, <3>3 DEF Inv, ToldIsTrue, SignsOut
  <2> QED BY <2>1, <2>2 DEF SignsOutHub
<1> QED BY <1>3, <1>4, <1>5, <1>6, <1>7, <1>8 DEF Inv

LEMMA SignOutKeeps ==
  ASSUME Inv, NEW t \in Tasks, SignOut(t)
  PROVE  Inv'
<1>0. /\ Typed /\ pending \in Marker /\ peer \in 0 .. MaxConnections
      /\ NoAccount \in Accounts \cup {NoAccount}
      /\ UNCHANGED <<record, pending, peer, told, plane, late, uncleaned, signedOut, overlapped>>
      /\ outdated' = Lookups
  BY DEF Inv, Typed, HubOk, SignOut, MarkUnlinked
<1>1. Begins(t, "signout", NoAccount, "find", peer)
  BY <1>0, Starts DEF SignOut, Kinds, Calls
<1>2. SignsOut(t)
  BY <1>0, <1>1, IdleOk DEF Begins, SignsOut, HandlerOk, InPhase, AnswerOk, HoldsOk
<1>3. SignsOutHub(t)
  <2>1. ~SignOutTells(t) /\ task'[t].conn = peer
    BY <1>1, IdleOk DEF SignOutTells, Begins
  <2> QED BY <1>0, <2>1 DEF SignsOutHub, Typed, HubOk
<1> QED BY <1>2, <1>3, SignsOutKeeps

LEMMA SignOutFailsKeeps ==
  ASSUME Inv, NEW t \in Tasks, SignOutFails(t), task[t].kind = "signout",
         UNCHANGED <<record, pending, peer, plane, late, uncleaned>>
  PROVE  Inv'
<1>0. /\ Typed /\ pending \in Marker /\ End(t) /\ told \in [owner : Accounts \cup {NoAccount}, by : Tellers]
      /\ overlapped' = Lookups /\ UNCHANGED <<outdated, signedOut>>
  BY DEF Inv, Typed, HubOk, SignOutFails
<1>1. SignsOut(t)
  BY <1>0, Ends, IdleOk DEF SignsOut
<1>2. ~SigningOut(t)'
  BY <1>0, Ends, IdleOk DEF SigningOut
<1>3. CASE task[t].conn = peer
  <2>1. told' \in [owner : Accounts \cup {NoAccount}, by : Tellers] /\ told'.by # "lookup"
    BY <1>0, <1>3 DEF SignOutFails, Tellers
  <2>2. SignsOutHub(t)
    BY <1>0, <2>1 DEF SignsOutHub, Typed, HubOk
  <2> QED BY <1>1, <2>2, SignsOutKeeps
<1>4. CASE task[t].conn # peer
  <2>1. told' = told /\ ~SignOutTells(t)
    BY <1>4 DEF SignOutFails, SignOutTells
  <2>2. SignsOutHub(t)
    BY <1>0, <1>2, <2>1 DEF SignsOutHub, Typed, HubOk
  <2> QED BY <1>1, <2>2, SignsOutKeeps
<1> QED BY <1>3, <1>4

LEMMA SignOutEndsKeeps ==
  ASSUME Inv, NEW t \in Tasks, SignOutEnds(t), task[t].kind = "signout",
         UNCHANGED <<record, pending, peer, plane, late, uncleaned>>
  PROVE  Inv'
<1>0. /\ Typed /\ pending \in Marker /\ told \in [owner : Accounts \cup {NoAccount}, by : Tellers]
      /\ outdated' = Lookups /\ TellOn(t, NoAccount, "signout") /\ signedOut' = (Row = NoRow)
  BY DEF Inv, Typed, HubOk, SignOutEnds, MarkUnlinked
<1>1. Becomes(t, "forget", task[t].seen, task[t].mark)
  BY <1>0, Goes DEF SignOutEnds
<1>2. SignsOut(t)
  BY <1>0, <1>1, IdleOk DEF SignsOut, Becomes, HandlerOk, InPhase, AnswerOk, HoldsOk
<1>3. ~SigningOut(t)'
  BY <1>1 DEF SigningOut, Becomes
<1>4. signedOut' \in BOOLEAN /\ (signedOut' => signedOut \/ Row = NoRow)
  BY <1>0
<1>5. CASE task[t].conn = peer
  <2>1. told' \in [owner : Accounts \cup {NoAccount}, by : Tellers] /\ told'.by # "lookup"
    BY <1>0, <1>5 DEF TellOn, Tellers
  <2>2. SignsOutHub(t)
    BY <1>0, <1>4, <2>1 DEF SignsOutHub, Typed, HubOk
  <2> QED BY <1>2, <2>2, SignsOutKeeps
<1>6. CASE task[t].conn # peer
  <2>1. told' = told /\ ~SignOutTells(t)
    BY <1>0, <1>6 DEF TellOn, SignOutTells
  <2>2. SignsOutHub(t)
    BY <1>0, <1>3, <1>4, <2>1 DEF SignsOutHub, Typed, HubOk
  <2> QED BY <1>2, <2>2, SignsOutKeeps
<1> QED BY <1>5, <1>6

LEMMA SignOutFoundKeeps ==
  ASSUME Inv, NEW t \in Tasks, SignOutFound(t)
  PROVE  Inv'
<1>0. /\ Typed /\ pending \in Marker /\ task[t] \in Handlers
      /\ task[t].kind = "signout" /\ task[t].at = "find"
      /\ UNCHANGED <<record, pending, peer, plane, late, uncleaned>>
  BY DEF Inv, Typed, HubOk, SignOutFound, At
<1>1. CASE SignOutFails(t)
  BY <1>0, <1>1, SignOutFailsKeeps
<1>2. CASE SignOutEnds(t)
  BY <1>0, <1>2, SignOutEndsKeeps
<1>3. CASE /\ Answered(t) /\ Got(t) # NoRow
           /\ task' = [task EXCEPT ![t].at = "codes", ![t].ans = Waiting, ![t].seen = Got(t)]
           /\ UNCHANGED <<outdated, told, signedOut, overlapped>>
  <2>1. Got(t) \in Device
    BY <1>0, <1>3 DEF Answered, Got, Typed, HandlerOk, AnswerOk
  <2>2. OldId(plane, Got(t).id)
    BY <1>0, <2>1 DEF Got, Inv, FoundRowsAreOld
  <2>3. Becomes(t, "codes", Got(t), task[t].mark)
    BY <1>0, <1>3, <2>1, GoesSeeing DEF Calls
  <2>4. SignsOut(t)
    BY <1>0, <2>1, <2>2, <2>3 DEF SignsOut, Becomes, HandlerOk, InPhase, AnswerOk, HoldsOk
  <2>5. SignOutRuns'
    BY <1>0, <2>3 DEF SignOutRuns, Becomes, Of
  <2>6. SigningOut(t) /\ ~SignOutTells(t) /\ task'[t].conn = task[t].conn
    BY <1>0, <2>3 DEF SigningOut, SignOutTells, Becomes
  <2>7. SignsOutHub(t)
    BY <1>0, <1>3, <2>5, <2>6 DEF SignsOutHub, Typed, HubOk
  <2> QED BY <2>4, <2>7, SignsOutKeeps
<1> QED BY <1>1, <1>2, <1>3 DEF SignOutFound

LEMMA SignOutDeletesKeeps ==
  ASSUME Inv, NEW t \in Tasks, SignOutDeletes(t)
  PROVE  Inv'
<1>0. /\ Typed /\ pending \in Marker /\ task[t] \in Handlers
      /\ task[t].kind = "signout" /\ task[t].at \in {"codes", "delete"}
      /\ UNCHANGED <<record, pending, peer, plane, late, uncleaned>>
  BY DEF Inv, Typed, HubOk, SignOutDeletes, At
<1>1. CASE SignOutFails(t)
  BY <1>0, <1>1, SignOutFailsKeeps
<1>2. CASE SignOutEnds(t)
  BY <1>0, <1>2, SignOutEndsKeeps
<1>3. CASE /\ task[t].at = "codes" /\ Goto(t, "delete")
           /\ UNCHANGED <<outdated, told, signedOut, overlapped>>
  <2>1. OldId(plane, task[t].seen.id) /\ task[t].seen \in Device
    BY <1>0 DEF Inv, FoundRowsAreOld, Typed, HandlerOk, HoldsOk
  <2>2. Becomes(t, "delete", task[t].seen, task[t].mark)
    BY <1>0, <1>3, Goes DEF Calls
  <2>3. SignsOut(t)
    BY <1>0, <2>1, <2>2 DEF SignsOut, Becomes, HandlerOk, InPhase, AnswerOk, HoldsOk
  <2>4. SignOutRuns'
    BY <1>0, <2>2 DEF SignOutRuns, Becomes, Of
  <2>5. SigningOut(t) /\ ~SignOutTells(t) /\ task'[t].conn = task[t].conn
    BY <1>0, <1>3, <2>2 DEF SigningOut, SignOutTells, Becomes
  <2>6. SignsOutHub(t)
    BY <1>0, <1>3, <2>4, <2>5 DEF SignsOutHub, Typed, HubOk
  <2> QED BY <2>3, <2>6, SignsOutKeeps
<1> QED BY <1>1, <1>2, <1>3 DEF SignOutDeletes

LEMMA SignOutForgetsKeeps ==
  ASSUME Inv, NEW t \in Tasks, SignOutForgets(t)
  PROVE  Inv'
<1>0. /\ Typed /\ NoMarker \in Marker /\ task[t].kind = "signout" /\ task[t].at = "forget"
      /\ End(t) /\ TakesOver /\ overlapped' = (IF uncleaned THEN Lookups ELSE overlapped)
      /\ told \in [owner : Accounts \cup {NoAccount}, by : Tellers] /\ uncleaned \in BOOLEAN
      /\ UNCHANGED <<record, outdated, peer, plane, late, signedOut>>
  BY IdleOk DEF Inv, Typed, HubOk, SignOutForgets, At
<1>1. SignsOut(t)
  BY <1>0, Ends, IdleOk DEF SignsOut
<1>2. /\ SignOutRuns' = SignOutRuns /\ ~SigningOut(t)' /\ ~SignOutTells(t)
  BY <1>0, Ends, IdleOk DEF SignOutRuns, SigningOut, SignOutTells, Of
<1>3. CASE uncleaned
  <2>1. told' \in [owner : Accounts \cup {NoAccount}, by : Tellers] /\ told'.by # "lookup"
    BY <1>0, <1>3 DEF TakesOver, Overlapped, Tellers
  <2>2. SignsOutHub(t)
    BY <1>0, <1>3, <2>1 DEF SignsOutHub, TakesOver, Typed, HubOk
  <2> QED BY <1>1, <2>2, SignsOutKeeps
<1>4. CASE ~uncleaned
  <2>1. told' = told /\ overlapped' = overlapped /\ uncleaned' = uncleaned /\ pending' = NoMarker
    BY <1>0, <1>4 DEF TakesOver
  <2>2. SignsOutHub(t)
    BY <1>0, <1>2, <2>1 DEF SignsOutHub, Typed, HubOk
  <2> QED BY <1>1, <2>2, SignsOutKeeps
<1> QED BY <1>3, <1>4

-----------------------------------------------------------------------------
(* Steps of identity lookups.                                              *)

\* What such a step does: the lookup begins, waits for its second answer, or
\* ends; it may have told the Mac the truth, or is still going to tell it.
LooksUp(t) ==
  /\ task' \in [Tasks -> Handlers] /\ \A s \in Tasks \ {t} : task'[s] = task[s]
  /\ HandlerOk(task'[t]) /\ ~Rechecked(t)'
  /\ task[t].kind \in {"idle", "connect", "rename"}
  /\ task'[t].kind \in {"idle", "connect", "rename"}
  /\ UNCHANGED <<plane, record, pending, late, uncleaned, signedOut>>

LooksUpHub(t) ==
  /\ outdated' \subseteq Lookups' /\ peer' \in 0 .. MaxConnections
  /\ told' \in [owner : Accounts \cup {NoAccount}, by : Tellers]
  /\ \A s \in Tasks \ {t} : s \in outdated' <=> s \in outdated
  /\ \A s \in Tasks \ {t} : s \in overlapped' <=> s \in overlapped
  /\ \/ told'.by # "lookup" \/ told'.owner = NoAccount \/ uncleaned
     \/ peer' = peer /\ told'.owner = Owner /\ ~SignOutRuns
     \/ /\ peer' = peer /\ told' = told
        /\ Telling(t) /\ ~Unsure(t) => Telling(t)' /\ ~Unsure(t)'
     \/ Telling(t)' /\ ~Unsure(t)'

LEMMA LooksUpKeeps ==
  ASSUME Inv, NEW t \in Tasks, LooksUp(t), LooksUpHub(t)
  PROVE  Inv'
<1>0. /\ Typed /\ Row' = Row /\ Owner' = Owner
      /\ \A s \in Tasks : task[s].kind \notin {"idle", "connect", "rename"}
                            \/ task'[s].kind \notin {"idle", "connect", "rename"} => task'[s] = task[s]
  BY DEF Inv, LooksUp, Row, Owner
<1>1. \A s \in Tasks : Rechecked(s)' => Rechecked(s) /\ task'[s] = task[s] /\ s # t
  BY <1>0 DEF Rechecked, LooksUp
<1>2. SignOutRuns' = SignOutRuns
  BY <1>0 DEF SignOutRuns, Of
<1>3. Typed'
  <2>1. \A s \in Tasks : HandlerOk(task'[s])
    BY DEF Inv, Typed, LooksUp
  <2> QED BY <1>0, <2>1 DEF Typed, HubOk, LooksUp, LooksUpHub
<1>4. FoundRowsAreOld'
  BY <1>0 DEF Inv, FoundRowsAreOld, LooksUp
<1>5. GoneIsGone'
  BY <1>0 DEF Inv, GoneIsGone, LooksUp
<1>6. LookupsAreTrue'
  BY <1>0, <1>1, <1>2 DEF Inv, LookupsAreTrue, LooksUp, LooksUpHub
<1>7. SignedOutLookups'
  BY <1>1 DEF Inv, SignedOutLookups, LooksUp, LooksUpHub
<1>8. ToldIsTrue'
  <2>0. /\ \A s \in Tasks : SigningOut(s)' => SigningOut(s) /\ task'[s] = task[s]
        /\ \A s \in Tasks : SignOutTells(s) /\ peer' = peer => SignOutTells(s)'
        /\ \A s \in Tasks \ {t} :
             Telling(s) /\ ~Unsure(s) /\ peer' = peer => Telling(s)' /\ ~Unsure(s)'
    <3>1. \A s \in Tasks : SigningOut(s)' => SigningOut(s) /\ task'[s] = task[s]
      BY <1>0 DEF SigningOut
    <3>2. \A s \in Tasks : SignOutTells(s) /\ peer' = peer => SignOutTells(s)'
      BY <1>0 DEF SignOutTells
    <3>3. \A s \in Tasks \ {t} :
             Telling(s) /\ ~Unsure(s) /\ peer' = peer => Telling(s)' /\ ~Unsure(s)'
      BY <1>0 DEF Telling, Unsure, Asked, Rechecked, LooksUp
    <3> QED BY <3>1, <3>2, <3>3
  <2>1. CASE told'.by # "lookup" \/ told'.owner = NoAccount \/ uncleaned
    BY <2>1 DEF ToldIsTrue, LooksUp
  <2>2. CASE peer' = peer /\ told'.owner = Owner /\ ~SignOutRuns
    <3>1. \A s \in Tasks : ~SigningOut(s)'
      BY <1>2, <2>2 DEF SignOutRuns, SigningOut, Of
    <3> QED BY <1>0, <2>2, <3>1 DEF ToldIsTrue
  <2>3. CASE /\ peer' = peer /\ told' = told
             /\ Telling(t) /\ ~Unsure(t) => Telling(t)' /\ ~Unsure(t)'
    <3>1. \A s \in Tasks : Telling(s) /\ ~Unsure(s) => Telling(s)' /\ ~Unsure(s)'
      BY <2>0, <2>3
    <3> QED BY <1>0, <2>0, <2>3, <3>1 DEF Inv, ToldIsTrue, LooksUp
  <2>4. CASE Telling(t)' /\ ~Unsure(t)'
    BY <2>4 DEF ToldIsTrue
  <2> QED BY <2>1, <2>2, <2>3, <2>4 DEF LooksUpHub
<1> QED BY <1>3, <1>4, <1>5, <1>6, <1>7, <1>8 DEF Inv

LEMMA ConnectKeeps ==
  ASSUME Inv, NEW t \in Tasks, Connect(t)
  PROVE  Inv'
<1>0. /\ Typed /\ told \in [owner : Accounts \cup {NoAccount}, by : Tellers]
      /\ peer' \in 0 .. MaxConnections /\ NoAccount \in Accounts \cup {NoAccount}
      /\ outdated \subseteq Lookups /\ outdated' = outdated \ {t}
      /\ UNCHANGED <<record, pending, told, plane, late, uncleaned, signedOut, overlapped>>
  BY DEF Inv, Typed, HubOk, Connect, Least
<1>1. Begins(t, "connect", NoAccount, "find", peer')
  BY <1>0, Starts DEF Connect, Kinds, Calls
<1>2. LooksUp(t)
  BY <1>0, <1>1, IdleOk DEF Begins, LooksUp, Rechecked, HandlerOk, InPhase, AnswerOk, HoldsOk
<1>3. Telling(t)' /\ ~Unsure(t)'
  BY <1>1 DEF Telling, Unsure, Asked, Begins
<1>4. outdated' \subseteq Lookups'
  BY <1>0, <1>1 DEF Lookups, Begins
<1>5. LooksUpHub(t)
  BY <1>0, <1>3, <1>4 DEF LooksUpHub
<1> QED BY <1>2, <1>5, LooksUpKeeps

LEMMA RenameKeeps ==
  ASSUME Inv, NEW t \in Tasks, NEW a \in Accounts, Rename(t, a)
  PROVE  Inv'
<1>0. /\ Typed /\ told \in [owner : Accounts \cup {NoAccount}, by : Tellers]
      /\ peer \in 0 .. MaxConnections /\ outdated \subseteq Lookups
      /\ UNCHANGED <<record, pending, outdated, peer, told, plane, late, uncleaned, signedOut, overlapped>>
  BY DEF Inv, Typed, HubOk, Rename, hub
<1>1. Begins(t, "rename", a, "rename", 0)
  BY <1>0, Starts DEF Rename, Kinds, Calls
<1>2. LooksUp(t)
  BY <1>0, <1>1, IdleOk DEF Begins, LooksUp, Rechecked, HandlerOk, InPhase, AnswerOk, HoldsOk
<1>3. ~Telling(t)
  BY <1>1, IdleOk DEF Telling, Begins
<1>4. outdated' \subseteq Lookups'
  BY <1>0, <1>1 DEF Lookups, Begins
<1>5. LooksUpHub(t)
  BY <1>0, <1>3, <1>4 DEF LooksUpHub
<1> QED BY <1>2, <1>5, LooksUpKeeps

\* The lookup is over.
LEMMA EndLookupIs ==
  ASSUME Typed, NEW t \in Tasks, EndLookup(t), task[t].kind \in {"connect", "rename"},
         UNCHANGED <<plane, record, pending, late, uncleaned, signedOut>>
  PROVE  /\ LooksUp(t) /\ outdated' \subseteq Lookups'
         /\ \A s \in Tasks \ {t} : s \in outdated' <=> s \in outdated
         /\ \A s \in Tasks \ {t} : s \in overlapped' <=> s \in overlapped
<1>1. End(t) /\ outdated' = outdated \ {t} /\ overlapped' = overlapped \ {t} /\ outdated \subseteq Lookups
  BY DEF EndLookup, Typed, HubOk
<1>2. LooksUp(t)
  BY <1>1, Ends, IdleOk DEF LooksUp, Rechecked
<1>3. outdated' \subseteq Lookups'
  BY <1>1, <1>2 DEF Lookups, LooksUp
<1> QED BY <1>1, <1>2, <1>3

\* It waits for its second answer.
LEMMA SecondLookup ==
  ASSUME Typed, NEW t \in Tasks, NEW row \in Device, task[t].kind \in {"connect", "rename"},
         Becomes(t, "recheck", row, task[t].mark),
         UNCHANGED <<plane, record, pending, late, uncleaned, signedOut>>
  PROVE  LooksUp(t) /\ Lookups' = Lookups
<1>1. LooksUp(t)
  BY DEF LooksUp, Becomes, Rechecked, Typed, HandlerOk, InPhase, AnswerOk, HoldsOk
<1>2. Lookups' = Lookups
  BY DEF Lookups, Becomes
<1> QED BY <1>1, <1>2

LEMMA ConnectFoundKeeps ==
  ASSUME Inv, NEW t \in Tasks, ConnectFound(t)
  PROVE  Inv'
<1>0. /\ Typed /\ task[t] \in Handlers /\ task[t].kind = "connect" /\ task[t].at = "find"
      /\ told \in [owner : Accounts \cup {NoAccount}, by : Tellers]
      /\ peer \in 0 .. MaxConnections /\ outdated \subseteq Lookups
      /\ UNCHANGED <<record, pending, peer, plane, late, uncleaned, signedOut>>
  BY DEF Inv, Typed, HubOk, ConnectFound, At
<1>1. CASE Answered(t) /\ LinkedRow(Got(t))
  <2>1. task[t].ans \in Device /\ Got(t) = task[t].ans
    BY <1>0, <1>1 DEF Answered, Got, LinkedRow, Typed, HandlerOk, AnswerOk
  <2>2. /\ task' = [task EXCEPT ![t].at = "recheck", ![t].ans = Waiting, ![t].seen = Got(t)]
        /\ UNCHANGED <<told, outdated, overlapped>>
    BY <1>1 DEF ConnectFound
  <2>3. Becomes(t, "recheck", task[t].ans, task[t].mark)
    BY <1>0, <2>1, <2>2, GoesSeeing DEF Calls
  <2>4. LooksUp(t) /\ outdated' \subseteq Lookups'
    BY <1>0, <2>1, <2>2, <2>3, SecondLookup
  <2>5. Telling(t) /\ ~Unsure(t) => Telling(t)' /\ ~Unsure(t)'
    BY <1>0, <2>3 DEF Telling, Unsure, Asked, Rechecked, Becomes, Row, Owner
  <2>6. LooksUpHub(t)
    BY <1>0, <2>2, <2>4, <2>5 DEF LooksUpHub
  <2> QED BY <2>4, <2>6, LooksUpKeeps
<1>2. CASE ~(Answered(t) /\ LinkedRow(Got(t)))
  <2>1. TellOn(t, NoAccount, "lookup") /\ EndLookup(t)
    BY <1>2 DEF ConnectFound
  <2>2. /\ LooksUp(t) /\ outdated' \subseteq Lookups'
        /\ \A s \in Tasks \ {t} : s \in outdated' <=> s \in outdated
        /\ \A s \in Tasks \ {t} : s \in overlapped' <=> s \in overlapped
    BY <1>0, <2>1, EndLookupIs
  <2>3. /\ told' \in [owner : Accounts \cup {NoAccount}, by : Tellers]
        /\ told'.owner = NoAccount \/ (told' = told /\ ~Telling(t))
    BY <1>0, <2>1 DEF TellOn, Telling, Tellers
  <2>4. LooksUpHub(t)
    BY <1>0, <2>2, <2>3 DEF LooksUpHub
  <2> QED BY <2>2, <2>4, LooksUpKeeps
<1> QED BY <1>1, <1>2

\* A second answer that a lookup goes by is so.
LEMMA SecondAnswerHolds ==
  ASSUME Inv, NEW t \in Tasks, task[t].kind \in {"connect", "rename"}, task[t].at = "recheck",
         Answered(t), ~SignedOutSince(t), LinkedRow(Got(t))
  PROVE  /\ task[t].ans \in Device /\ Got(t) = task[t].ans /\ Got(t).owner \in Accounts
         /\ ~uncleaned /\ By(t) = "lookup" => Got(t).owner = Owner /\ ~SignOutRuns
<1>1. task[t].ans \in Device /\ Got(t) = task[t].ans
  BY DEF Answered, Got, LinkedRow, Inv, Typed, HandlerOk, AnswerOk
<1>2. Got(t).owner \in Accounts
  BY <1>1 DEF Device
<1>3. ASSUME ~uncleaned, By(t) = "lookup"
      PROVE  Got(t).owner = Owner /\ ~SignOutRuns
  <2>1. t \notin overlapped /\ t \notin outdated /\ ~SignOutRuns /\ record # "after"
    BY <1>3 DEF By, SignedOutSince, LinkedRow
  <2> QED BY <1>1, <1>3, <2>1 DEF Inv, LookupsAreTrue, Rechecked
<1> QED BY <1>1, <1>2, <1>3

LEMMA ConnectRecheckedKeeps ==
  ASSUME Inv, NEW t \in Tasks, ConnectRechecked(t)
  PROVE  Inv'
<1> DEFINE linked == Answered(t) /\ ~SignedOutSince(t) /\ LinkedRow(Got(t))
<1>0. /\ Typed /\ task[t] \in Handlers /\ task[t].kind = "connect" /\ task[t].at = "recheck"
      /\ told \in [owner : Accounts \cup {NoAccount}, by : Tellers]
      /\ peer \in 0 .. MaxConnections
      /\ UNCHANGED <<record, pending, peer, plane, late, uncleaned, signedOut>> /\ EndLookup(t)
  BY DEF Inv, Typed, HubOk, ConnectRechecked, At
<1>1. /\ LooksUp(t) /\ outdated' \subseteq Lookups'
      /\ \A s \in Tasks \ {t} : s \in outdated' <=> s \in outdated
      /\ \A s \in Tasks \ {t} : s \in overlapped' <=> s \in overlapped
  BY <1>0, EndLookupIs
<1>2. linked => /\ task[t].ans \in Device /\ Got(t) = task[t].ans /\ Got(t).owner \in Accounts
                /\ ~uncleaned /\ By(t) = "lookup" => Got(t).owner = Owner /\ ~SignOutRuns
  BY <1>0, SecondAnswerHolds
<1>3. CASE linked /\ Got(t).owner # task[t].seen.owner
  <2>1. told' = told
    BY <1>3 DEF ConnectRechecked
  <2>2. task[t].seen \in Device
    BY <1>0 DEF Typed, HandlerOk, HoldsOk
  <2>3. Unsure(t)
    BY <1>0, <1>2, <1>3, <2>2 DEF Unsure, Asked, Rechecked
  <2>4. LooksUpHub(t)
    BY <1>0, <1>1, <2>1, <2>3 DEF LooksUpHub
  <2> QED BY <1>1, <2>4, LooksUpKeeps
<1>4. CASE ~(linked /\ Got(t).owner # task[t].seen.owner)
  <2>1. TellOn(t, IF linked THEN Got(t).owner ELSE NoAccount, By(t))
    BY <1>4 DEF ConnectRechecked
  <2>2. By(t) \in Tellers /\ (IF linked THEN Got(t).owner ELSE NoAccount) \in Accounts \cup {NoAccount}
    BY <1>2 DEF By, Tellers
  <2> HIDE DEF linked
  <2>3. CASE task[t].conn # peer
    <3>1. told' = told /\ ~Telling(t)
      BY <2>1, <2>3 DEF TellOn, Telling
    <3>2. LooksUpHub(t)
      BY <1>0, <1>1, <3>1 DEF LooksUpHub
    <3> QED BY <1>1, <3>2, LooksUpKeeps
  <2>4. CASE task[t].conn = peer
    <3>1. /\ told' \in [owner : Accounts \cup {NoAccount}, by : Tellers] /\ told'.by = By(t)
          /\ told'.owner = IF linked THEN Got(t).owner ELSE NoAccount
      BY <2>1, <2>2, <2>4 DEF TellOn
    <3>2. \/ told'.by # "lookup" \/ told'.owner = NoAccount \/ uncleaned
          \/ told'.owner = Owner /\ ~SignOutRuns
      BY <1>2, <3>1
    <3>3. LooksUpHub(t)
      BY <1>0, <1>1, <3>1, <3>2 DEF LooksUpHub
    <3> QED BY <1>1, <3>3, LooksUpKeeps
  <2> QED BY <2>3, <2>4
<1> QED BY <1>3, <1>4

LEMMA RenameAnsweredKeeps ==
  ASSUME Inv, NEW t \in Tasks, RenameAnswered(t)
  PROVE  Inv'
<1>0. /\ Typed /\ task[t] \in Handlers /\ task[t].kind = "rename" /\ task[t].at = "rename"
      /\ told \in [owner : Accounts \cup {NoAccount}, by : Tellers]
      /\ peer \in 0 .. MaxConnections /\ outdated \subseteq Lookups
      /\ UNCHANGED <<record, pending, peer, told, plane, late, uncleaned, signedOut>>
      /\ ~Telling(t)
  BY DEF Inv, Typed, HubOk, RenameAnswered, At, Telling
<1>1. CASE Answered(t) /\ Got(t) # Refused /\ peer # 0
  <2>1. task[t].ans \in Device /\ Got(t) = task[t].ans
    BY <1>0, <1>1 DEF Answered, Got, Typed, HandlerOk, AnswerOk
  <2>2. /\ task' = [task EXCEPT ![t].at = "recheck", ![t].ans = Waiting, ![t].seen = Got(t)]
        /\ outdated' = outdated \ {t} /\ overlapped' = overlapped \ {t}
    BY <1>1 DEF RenameAnswered
  <2>3. Becomes(t, "recheck", task[t].ans, task[t].mark)
    BY <1>0, <2>1, <2>2, GoesSeeing DEF Calls
  <2>4. LooksUp(t) /\ outdated' \subseteq Lookups'
    BY <1>0, <2>1, <2>2, <2>3, SecondLookup
  <2>5. LooksUpHub(t)
    BY <1>0, <2>2, <2>4 DEF LooksUpHub
  <2> QED BY <2>4, <2>5, LooksUpKeeps
<1>2. CASE ~(Answered(t) /\ Got(t) # Refused /\ peer # 0)
  <2>1. EndLookup(t)
    BY <1>2 DEF RenameAnswered
  <2>2. /\ LooksUp(t) /\ outdated' \subseteq Lookups'
        /\ \A s \in Tasks \ {t} : s \in outdated' <=> s \in outdated
        /\ \A s \in Tasks \ {t} : s \in overlapped' <=> s \in overlapped
    BY <1>0, <2>1, EndLookupIs
  <2>3. LooksUpHub(t)
    BY <1>0, <2>2 DEF LooksUpHub
  <2> QED BY <2>2, <2>3, LooksUpKeeps
<1> QED BY <1>1, <1>2

LEMMA RenameRecheckedKeeps ==
  ASSUME Inv, NEW t \in Tasks, RenameRechecked(t)
  PROVE  Inv'
<1>0. /\ Typed /\ task[t] \in Handlers /\ task[t].kind = "rename" /\ task[t].at = "recheck"
      /\ told \in [owner : Accounts \cup {NoAccount}, by : Tellers]
      /\ peer \in 0 .. MaxConnections /\ ~Telling(t)
      /\ UNCHANGED <<record, pending, peer, plane, late, uncleaned, signedOut>> /\ EndLookup(t)
  BY DEF Inv, Typed, HubOk, RenameRechecked, At, Telling
<1>1. /\ LooksUp(t) /\ outdated' \subseteq Lookups'
      /\ \A s \in Tasks \ {t} : s \in outdated' <=> s \in outdated
      /\ \A s \in Tasks \ {t} : s \in overlapped' <=> s \in overlapped
  BY <1>0, EndLookupIs
<1>2. CASE told' = told
  <2>1. LooksUpHub(t)
    BY <1>0, <1>1, <1>2 DEF LooksUpHub
  <2> QED BY <1>1, <2>1, LooksUpKeeps
<1>3. CASE Answered(t) /\ ~SignedOutSince(t) /\ LinkedRow(Got(t)) /\ Tell(Got(t).owner, By(t)) /\ peer # 0
  <2>1. /\ Got(t).owner \in Accounts
        /\ ~uncleaned /\ By(t) = "lookup" => Got(t).owner = Owner /\ ~SignOutRuns
    BY <1>0, <1>3, SecondAnswerHolds
  <2>2. told' \in [owner : Accounts \cup {NoAccount}, by : Tellers] /\ told'.by = By(t)
        /\ told'.owner = Got(t).owner
    BY <1>3, <2>1 DEF Tell, By, Tellers
  <2>3. LooksUpHub(t)
    BY <1>0, <1>1, <2>1, <2>2 DEF LooksUpHub
  <2> QED BY <1>1, <2>3, LooksUpKeeps
<1> QED BY <1>2, <1>3 DEF RenameRechecked, Tell

-----------------------------------------------------------------------------
(* Steps of the account service, and of the object's own.                  *)

\* What a call for at does to what the hub and the history know of the row.
Effect(at) ==
  \/ /\ Row' = Row /\ UNCHANGED <<record, uncleaned, signedOut>>
     /\ \/ UNCHANGED <<told, overlapped>>
        \/ told' = Overlapped /\ overlapped' = Lookups
  \/ /\ Row # NoRow /\ Row' = NoRow /\ record' = record /\ ~signedOut'
     /\ \/ at = "delete" /\ UNCHANGED <<told, overlapped, uncleaned>>
        \/ at = "remove" /\ uncleaned' /\ UNCHANGED <<told, overlapped>>
        \/ at = "remove" /\ ~uncleaned' /\ told' = Overlapped /\ overlapped' = Lookups
  \/ /\ at = "upsert" /\ Row' # NoRow /\ ~uncleaned' /\ ~signedOut'
     /\ record' \in {record, "before"} /\ told' = Overlapped /\ overlapped' = Lookups

LEMMA Commits ==
  ASSUME Inv, NEW at, NEW q, Leaves(plane, q, at), Committed(q, at = "remove")
  PROVE  Effect(at) /\ plane' = q
<1>0. /\ plane' = q /\ Row' = FindDevice(q, Mac)
      /\ uncleaned \in BOOLEAN /\ signedOut \in BOOLEAN
      /\ uncleaned \/ signedOut => Row = NoRow
  BY DEF Committed, Row, Inv, Typed, HubOk, GoneIsGone
<1>1. \/ Row' = Row
      \/ Row # NoRow /\ Row' = NoRow /\ at \in {"remove", "delete"}
      \/ Row = NoRow /\ Row' # NoRow /\ at = "upsert"
  BY <1>0 DEF Leaves, RowStep, Row
<1>2. CASE Row' = Row
  BY <1>0, <1>2 DEF Committed, Effect, RecordAfter
<1>3. CASE Row # NoRow /\ Row' = NoRow /\ at \in {"remove", "delete"}
  BY <1>0, <1>3 DEF Committed, Effect, RecordAfter
<1>4. CASE Row = NoRow /\ Row' # NoRow /\ at = "upsert"
  BY <1>0, <1>4 DEF Committed, Effect, RecordAfter
<1> QED BY <1>0, <1>1, <1>2, <1>3, <1>4

\* Handler s has got the answer of its call, which is about the tables as they are.
Answers(s) ==
  /\ task'[s].kind = task[s].kind /\ task'[s].at = task[s].at /\ task'[s].conn = task[s].conn
  /\ task'[s].seen = task[s].seen
  /\ task[s].at \in {"find", "recheck"} => task'[s].ans = Row /\ Row' = Row

LEMMA PlaneKeeps ==
  ASSUME Inv, NEW at, Leaves(plane, plane', at), Effect(at),
         uncleaned' \in BOOLEAN, signedOut' \in BOOLEAN,
         UNCHANGED <<pending, outdated, peer>>, late' \subseteq GivenUp,
         task' \in [Tasks -> Handlers],
         \A s \in Tasks : HandlerOk(task'[s]) /\ (task'[s] = task[s] \/ Answers(s)),
         at = "delete" => \E s \in Tasks : task[s].kind = "signout" /\ task[s].at = "delete"
  PROVE  Inv'
<1>0. /\ Typed /\ told \in [owner : Accounts \cup {NoAccount}, by : Tellers]
      /\ \A s \in Tasks : /\ task'[s].kind = task[s].kind /\ task'[s].at = task[s].at
                          /\ task'[s].conn = task[s].conn /\ task'[s].seen = task[s].seen
      /\ Lookups' = Lookups /\ SignOutRuns' = SignOutRuns
      /\ Row \in Device \cup {NoRow}
  <2>1. \A s \in Tasks : /\ task'[s].kind = task[s].kind /\ task'[s].at = task[s].at
                         /\ task'[s].conn = task[s].conn /\ task'[s].seen = task[s].seen
    BY DEF Answers
  <2>2. Lookups' = Lookups
    BY <2>1 DEF Lookups
  <2>3. SignOutRuns' = SignOutRuns
    BY <2>1 DEF SignOutRuns, Of
  <2>4. Row \in Device \cup {NoRow}
    BY RowIsDevice DEF Inv, Typed, Row
  <2> QED BY <2>1, <2>2, <2>3, <2>4 DEF Inv, Typed, HubOk
<1>1. /\ Overlapped \in [owner : Accounts \cup {NoAccount}, by : Tellers]
      /\ Overlapped.by = "overlapped lookup"
  BY <1>0 DEF Overlapped, Tellers
<1>2. Row' = Row => Owner' = Owner
  BY DEF Owner
<1>3. Typed'
  <2>1. MacTables(plane)'
    BY DEF Leaves
  <2>2. record' \in {"none", "before", "after"}
    BY <1>0 DEF Effect, Typed, HubOk
  <2>3. told' \in [owner : Accounts \cup {NoAccount}, by : Tellers]
    BY <1>0, <1>1 DEF Effect
  <2> QED BY <1>0, <2>1, <2>2, <2>3 DEF Typed, HubOk
<1>4. FoundRowsAreOld'
  <2>1. \A i \in Nat : OldId(plane, i) => OldId(plane', i)
    BY DEF Leaves
  <2>2. Row \in Device => OldId(plane, Row.id)
    BY RowIsDevice, NoRowAssumption DEF Inv, Typed, Row
  <2> SUFFICES ASSUME NEW s \in Tasks, task'[s].kind = "signout"
               PROVE  /\ task'[s].at = "find" /\ task'[s].ans \in Device => OldId(plane', task'[s].ans.id)
                      /\ task'[s].at \in {"codes", "delete"} => OldId(plane', task'[s].seen.id)
    BY DEF FoundRowsAreOld
  <2>3. ASSUME task'[s].at = "find", task'[s].ans \in Device
        PROVE  OldId(plane', task'[s].ans.id)
    <3>1. OldId(plane, task'[s].ans.id)
      BY <1>0, <2>2, <2>3 DEF Answers, Inv, FoundRowsAreOld
    <3>2. task'[s].ans.id \in Nat
      BY <2>3 DEF Device
    <3> QED BY <2>1, <3>1, <3>2
  <2>4. ASSUME task'[s].at \in {"codes", "delete"}
        PROVE  OldId(plane', task'[s].seen.id)
    <3>1. OldId(plane, task'[s].seen.id)
      BY <1>0, <2>4 DEF Inv, FoundRowsAreOld
    <3>2. task'[s].seen.id \in Nat
      BY <3>1 DEF OldId
    <3> QED BY <2>1, <3>1, <3>2
  <2> QED BY <2>3, <2>4
<1>5. GoneIsGone'
  BY DEF Inv, GoneIsGone, Effect
<1>6. \A s \in Tasks : Rechecked(s)' =>
        \/ Rechecked(s) /\ task'[s] = task[s]
        \/ task'[s].ans = Row /\ Row # NoRow /\ Row' = Row
  <2>1. \A s \in Tasks : Rechecked(s)' /\ task'[s] = task[s] => Rechecked(s)
    BY DEF Rechecked
  <2>2. \A s \in Tasks : Rechecked(s)' /\ Answers(s) => task'[s].ans = Row /\ Row # NoRow /\ Row' = Row
    BY <1>0, NoRowAssumption DEF Rechecked, Answers
  <2> QED BY <2>1, <2>2
<1>7. LookupsAreTrue'
  <2>1. CASE Row' = Row /\ UNCHANGED <<record, uncleaned, told, overlapped>>
    <3>1. /\ Owner' = Owner /\ (Row # NoRow => Owner = Row.owner)
          /\ outdated' = outdated /\ overlapped' = overlapped
          /\ record' = record /\ uncleaned' = uncleaned
      BY <1>2, <2>1 DEF Owner
    <3> SUFFICES ASSUME ~SignOutRuns, record # "after", ~uncleaned,
                        NEW s \in Tasks, Rechecked(s)', s \notin outdated \cup overlapped
                 PROVE  task'[s].ans.owner = Owner
      BY <1>0, <3>1 DEF LookupsAreTrue
    <3>2. CASE Rechecked(s) /\ task'[s] = task[s]
      BY <3>2 DEF Inv, LookupsAreTrue
    <3> QED BY <1>6, <3>1, <3>2
  <2>2. CASE overlapped' = Lookups
    <3>1. \A s \in Tasks : Rechecked(s)' => s \in Lookups
      BY <1>0 DEF Rechecked, Lookups
    <3> QED BY <2>2, <3>1 DEF LookupsAreTrue
  <2>3. CASE uncleaned'
    BY <2>3 DEF LookupsAreTrue
  <2>4. CASE at = "delete"
    <3>1. SignOutRuns
      BY <2>4 DEF SignOutRuns, Of
    <3> QED BY <1>0, <3>1 DEF LookupsAreTrue
  <2> QED BY <2>1, <2>2, <2>3, <2>4 DEF Effect
<1>8. SignedOutLookups'
  <2>1. signedOut' => signedOut /\ Row = NoRow
    BY DEF Effect, Inv, GoneIsGone
  <2> QED BY <1>6, <2>1 DEF Inv, SignedOutLookups
<1>9. ToldIsTrue'
  <2>1. \A s \in Tasks : /\ SigningOut(s)' => SigningOut(s)
                         /\ SignOutTells(s) => SignOutTells(s)'
    BY <1>0 DEF SigningOut, SignOutTells
  <2>2. ASSUME Row' = Row \/ Row' = NoRow, NEW s \in Tasks, Telling(s), ~Unsure(s)
        PROVE  ~Unsure(s)'
    <3>2. CASE task'[s] = task[s]
      <4>1. Asked(s)' = Asked(s) /\ (Rechecked(s)' => Rechecked(s))
        BY <3>2 DEF Asked, Rechecked
      <4> QED BY <1>2, <2>2, <3>2, <4>1 DEF Unsure
    <3>3. CASE Answers(s)
      <4>1. task[s].at \in {"find", "recheck"}
        BY <1>0, <2>2 DEF Typed, HandlerOk, InPhase, Telling
      <4>2. task'[s].ans = Row /\ Row' = Row /\ Owner' = Owner
        BY <1>2, <3>3, <4>1 DEF Answers
      <4>3. Row # NoRow => Owner = Row.owner
        BY DEF Owner
      <4>4. CASE task[s].at = "find"
        <5>1. task'[s].at = "find"
          BY <1>0, <4>4
        <5>2. Asked(s)' = Row /\ ~Rechecked(s)'
          BY <4>2, <5>1 DEF Asked, Rechecked
        <5> QED BY <4>2, <4>3, <5>2 DEF Unsure
      <4>5. CASE task[s].at = "recheck"
        <5>1. task'[s].at = "recheck" /\ task'[s].seen = task[s].seen
          BY <1>0, <4>5
        <5>2. task[s].seen \in Device /\ Row # NoRow => task[s].seen.owner = Owner
          BY <2>2, <4>5 DEF Unsure, Asked
        <5>3. Asked(s)' = task[s].seen /\ (Rechecked(s)' => Row # NoRow)
          BY <4>2, <5>1, NoRowAssumption DEF Asked, Rechecked
        <5> QED BY <4>2, <4>3, <5>2, <5>3 DEF Unsure
      <4> QED BY <4>1, <4>4, <4>5
    <3> QED BY <3>2, <3>3
  <2>7. \A s \in Tasks : Telling(s) => Telling(s)'
    BY <1>0 DEF Telling
  <2>3. CASE told' = Overlapped
    BY <1>1, <2>3 DEF ToldIsTrue
  <2>4. CASE Row' = Row /\ UNCHANGED <<told, uncleaned>>
    BY <1>0, <1>2, <2>1, <2>2, <2>4, <2>7 DEF Inv, ToldIsTrue
  <2>5. CASE uncleaned'
    BY <2>5 DEF ToldIsTrue
  <2>6. CASE at = "delete" /\ Row # NoRow /\ Row' = NoRow /\ UNCHANGED <<told, uncleaned>>
    <3>1. PICK s \in Tasks : task[s].kind = "signout" /\ task[s].at = "delete"
      BY <2>6
    <3>2. task[s].conn = peer => SignOutTells(s)
      BY <3>1 DEF SignOutTells
    <3>3. SigningOut(s)
      BY <3>1 DEF SigningOut
    <3> QED BY <2>1, <2>2, <2>6, <2>7, <3>2, <3>3 DEF Inv, ToldIsTrue
  <2> QED BY <2>3, <2>4, <2>5, <2>6 DEF Effect
<1> QED BY <1>3, <1>4, <1>5, <1>7, <1>8, <1>9 DEF Inv

\* What a call of each kind leaves, and what it may answer.
AnswerTo(at, x) ==
  \/ at \in {"find", "recheck"} /\ x = Row
  \/ at \in {"rename", "remove", "upsert"} /\ x \in Device \cup {Refused}
  \/ at = "claim" /\ x \in Hosts \cup {Refused}
  \/ at \in {"codes", "delete"} /\ x \in BOOLEAN

LEMMA RenameAnswers ==
  ASSUME NEW p, MacTables(p), NEW a \in Accounts
  PROVE  RenameHost(p, a, Mac).plane = p /\ RenameHost(p, a, Mac).answer \in Device \cup {Refused}
<1>1. FindDevice(p, Mac) \in Device \cup {NoRow}
  BY RowIsDevice
<1>2. ActiveHostOf(p, a, Mac) => FindDevice(p, Mac) # NoRow
  BY NoRowIsNone DEF ActiveHostOf, MacTables, Sound
<1> QED BY <1>1, <1>2 DEF RenameHost, Answer, Refuse

LEMMA ServedOk ==
  ASSUME Inv, NEW t \in Tasks, InFlight(t)
  PROVE  /\ Leaves(plane, Served(task[t]).plane, task[t].at)
         /\ AnswerTo(task[t].at, Served(task[t]).answer)
<1> DEFINE at == task[t].at
           r == Served(task[t])
<1>0. /\ Typed /\ MacTables(plane) /\ task[t] \in Handlers /\ HandlerOk(task[t]) /\ at \in Calls
  BY DEF Inv, Typed, InFlight
<1>1. CASE at \in {"find", "recheck"}
  <2>1. r = Answer(plane, Row)
    BY <1>1 DEF Served
  <2> QED BY <1>0, <1>1, <2>1, Untouched DEF Answer, AnswerTo
<1>2. CASE at = "rename"
  <2>1. r = RenameHost(plane, task[t].who, Mac)
    BY <1>2 DEF Served
  <2>2. task[t].who \in Accounts
    BY <1>0, <1>2 DEF HandlerOk, InPhase, HoldsOk
  <2> QED BY <1>0, <1>2, <2>1, <2>2, Untouched, RenameAnswers DEF AnswerTo
<1>3. CASE at = "remove"
  <2>1. r = RemoveHost(plane, task[t].who, Mac)
    BY <1>3 DEF Served
  <2>2. task[t].who \in Accounts
    BY <1>0, <1>3 DEF HandlerOk, InPhase, HoldsOk
  <2> QED BY <1>0, <1>3, <2>1, <2>2, RemoveLeaves DEF AnswerTo
<1>4. CASE at = "claim"
  <2>1. r = ClaimCode(plane, LinkCode)
    BY <1>4 DEF Served
  <2> QED BY <1>0, <1>4, <2>1, ClaimLeaves DEF AnswerTo
<1>5. CASE at = "upsert"
  <2>1. r = UpsertDevice(plane, task[t].who, Mac)
    BY <1>5 DEF Served, LinkRow
  <2>2. task[t].who \in Accounts
    BY <1>0, <1>5 DEF HandlerOk, InPhase, HoldsOk
  <2> QED BY <1>0, <1>5, <2>1, <2>2, UpsertLeaves DEF AnswerTo
<1>6. CASE at = "codes"
  <2>1. r = DeleteCodes(plane, Mac)
    BY <1>6 DEF Served
  <2> QED BY <1>0, <1>6, <2>1, DeleteCodesLeaves DEF AnswerTo
<1>7. CASE at = "delete"
  <2>1. r = DeleteDevice(plane, task[t].seen.id)
    BY <1>7 DEF Served
  <2>2. task[t].seen.id \in Nat
    BY <1>0, <1>7 DEF HandlerOk, InPhase, HoldsOk, Device
  <2> QED BY <1>0, <1>7, <2>1, <2>2, DeleteLeaves DEF AnswerTo
<1> QED BY <1>0, <1>1, <1>2, <1>3, <1>4, <1>5, <1>6, <1>7 DEF Calls

LEMMA ServeKeeps ==
  ASSUME Inv, NEW t \in Tasks, Serve(t)
  PROVE  Inv'
<1> DEFINE at == task[t].at
           r == Served(task[t])
           x == [task[t] EXCEPT !.ans = r.answer]
<1>0. /\ Typed /\ task[t] \in Handlers /\ HandlerOk(task[t]) /\ task \in [Tasks -> Handlers]
      /\ \A s \in Tasks : HandlerOk(task[s])
      /\ InFlight(t) /\ Committed(r.plane, at = "remove")
      /\ task' = [task EXCEPT ![t] = x] /\ late \subseteq GivenUp
      /\ UNCHANGED <<pending, outdated, peer, late>>
      /\ uncleaned \in BOOLEAN /\ signedOut \in BOOLEAN
  BY DEF Inv, Typed, HubOk, Serve
<1>1. Leaves(plane, r.plane, at) /\ AnswerTo(at, r.answer)
  BY <1>0, ServedOk
<1>2. Effect(at) /\ plane' = r.plane
  BY <1>0, <1>1, Commits
<1>3. Row \in Device \cup {NoRow}
  BY RowIsDevice DEF Inv, Typed, Row
<1>4. /\ x \in Handlers /\ x.kind = task[t].kind /\ x.at = task[t].at /\ x.conn = task[t].conn
      /\ x.seen = task[t].seen /\ x.who = task[t].who /\ x.mark = task[t].mark /\ x.ans = r.answer
  BY <1>0, <1>1, <1>3 DEF Handlers, AnswerTo
<1> HIDE DEF x
<1>5. HandlerOk(x)
  BY <1>0, <1>1, <1>3, <1>4 DEF HandlerOk, InPhase, AnswerOk, HoldsOk, AnswerTo
<1>6. at \in {"find", "recheck"} => Row' = Row /\ r.answer = Row
  <2>1. at \in {"find", "recheck"} => r = Answer(plane, Row)
    BY DEF Served
  <2> QED BY <1>2, <2>1 DEF Answer, Row
<1>7. /\ task' \in [Tasks -> Handlers] /\ task'[t] = x
      /\ \A s \in Tasks \ {t} : task'[s] = task[s]
  BY <1>0, <1>4
<1>9. Answers(t)
  BY <1>4, <1>6, <1>7 DEF Answers
<1>10. \A s \in Tasks : HandlerOk(task'[s]) /\ (task'[s] = task[s] \/ Answers(s))
  BY <1>0, <1>5, <1>7, <1>9
<1>11. uncleaned' \in BOOLEAN /\ signedOut' \in BOOLEAN
  BY <1>0 DEF Committed
<1>12. at = "delete" => task[t].kind = "signout"
  BY <1>0 DEF HandlerOk, InPhase
<1> HIDE DEF at, r
<1> QED BY <1>0, <1>1, <1>2, <1>7, <1>10, <1>11, <1>12, PlaneKeeps DEF at

LEMMA LateCommitKeeps ==
  ASSUME Inv, NEW m \in late, LateCommit(m)
  PROVE  Inv'
<1> DEFINE q == RemoveHost(plane, m.by, Mac).plane
<1>0. /\ Typed /\ MacTables(plane) /\ uncleaned \in BOOLEAN /\ signedOut \in BOOLEAN
      /\ late \subseteq GivenUp /\ task \in [Tasks -> Handlers]
      /\ \A s \in Tasks : HandlerOk(task[s])
      /\ late' = late \ {m} /\ m.by \in Accounts /\ Committed(q, TRUE)
      /\ UNCHANGED <<pending, outdated, peer, task>>
  BY DEF Inv, Typed, HubOk, LateCommit, GivenUp
<1>1. Leaves(plane, q, "remove")
  BY <1>0, RemoveLeaves
<1> HIDE DEF q
<1>2. Committed(q, "remove" = "remove")
  BY <1>0 DEF Committed
<1>3. Effect("remove") /\ plane' = q
  BY <1>1, <1>2, Commits
<1>4. uncleaned' \in BOOLEAN /\ signedOut' \in BOOLEAN
  BY <1>0 DEF Committed
<1> QED BY <1>0, <1>1, <1>3, <1>4, PlaneKeeps

LEMMA ShowCodeKeeps ==
  ASSUME Inv, ShowCode
  PROVE  Inv'
<1>0. /\ Typed /\ MacTables(plane) /\ uncleaned \in BOOLEAN /\ signedOut \in BOOLEAN
      /\ late \subseteq GivenUp /\ task \in [Tasks -> Handlers]
      /\ \A s \in Tasks : HandlerOk(task[s])
      /\ plane' = CreateCode(plane, Mac, LinkCode).plane
      /\ UNCHANGED <<record, pending, outdated, peer, told, late, uncleaned, signedOut, overlapped, task>>
  BY DEF Inv, Typed, HubOk, ShowCode, hub
<1>1. Leaves(plane, plane', "code")
  BY <1>0, CreateCodeLeaves
<1>2. Effect("code")
  BY <1>0, <1>1 DEF Effect, Leaves, RowStep, Row
<1> QED BY <1>0, <1>1, <1>2, PlaneKeeps

LEMMA LoseKeeps ==
  ASSUME Inv, NEW t \in Tasks, Lose(t)
  PROVE  Inv'
<1> DEFINE x == [task[t] EXCEPT !.ans = Lost]
<1>0. /\ Typed /\ task[t] \in Handlers /\ HandlerOk(task[t]) /\ task \in [Tasks -> Handlers]
      /\ \A s \in Tasks : HandlerOk(task[s])
      /\ task' = [task EXCEPT ![t] = x] /\ Lost \notin Device
      /\ UNCHANGED <<record, pending, outdated, peer, told, plane, uncleaned, signedOut, overlapped>>
      /\ Row' = Row /\ Owner' = Owner
  BY DEF Inv, Typed, HubOk, Lose, hub, Row, Owner
<1>1. /\ x \in Handlers /\ x.kind = task[t].kind /\ x.at = task[t].at /\ x.conn = task[t].conn
      /\ x.seen = task[t].seen /\ x.who = task[t].who /\ x.mark = task[t].mark /\ x.ans = Lost
  BY <1>0 DEF Handlers
<1> HIDE DEF x
<1>2. /\ task' \in [Tasks -> Handlers] /\ task'[t] = x
      /\ \A s \in Tasks \ {t} : task'[s] = task[s]
  BY <1>0, <1>1
<1>3. \A s \in Tasks : /\ task'[s].kind = task[s].kind /\ task'[s].at = task[s].at
                       /\ task'[s].conn = task[s].conn /\ task'[s].seen = task[s].seen
  BY <1>1, <1>2
<1>4. Typed'
  <2>1. HandlerOk(x)
    BY <1>0, <1>1 DEF HandlerOk, InPhase, AnswerOk, HoldsOk
  <2>2. late' \subseteq GivenUp
    BY <1>0 DEF Lose, Typed, HubOk, HandlerOk, HoldsOk, Handlers, GivenUp
  <2>3. outdated' \subseteq Lookups'
    BY <1>0, <1>3 DEF Typed, HubOk, Lookups
  <2> QED BY <1>0, <1>2, <2>1, <2>2, <2>3 DEF Typed, HubOk
<1>5. \A s \in Tasks : Rechecked(s)' => Rechecked(s) /\ task'[s] = task[s]
  BY <1>0, <1>1, <1>2 DEF Rechecked
<1>6. FoundRowsAreOld'
  BY <1>0, <1>1, <1>2 DEF Inv, FoundRowsAreOld
<1>7. GoneIsGone'
  BY <1>0 DEF Inv, GoneIsGone
<1>8. SignOutRuns' = SignOutRuns
  BY <1>3 DEF SignOutRuns, Of
<1>9. LookupsAreTrue' /\ SignedOutLookups'
  BY <1>0, <1>5, <1>8 DEF Inv, LookupsAreTrue, SignedOutLookups
<1>10. ToldIsTrue'
  <2>1. \A s \in Tasks : /\ SigningOut(s)' => SigningOut(s)
                         /\ SignOutTells(s) => SignOutTells(s)'
                         /\ Telling(s) => Telling(s)'
    BY <1>0, <1>3 DEF SigningOut, SignOutTells, Telling
  <2>2. \A s \in Tasks : ~Unsure(s) => ~Unsure(s)'
    BY <1>0, <1>1, <1>2, <1>5 DEF Unsure, Asked
  <2> QED BY <1>0, <1>3, <2>1, <2>2 DEF Inv, ToldIsTrue
<1> QED BY <1>4, <1>6, <1>7, <1>9, <1>10 DEF Inv

\* Only the marker, or what may still be committed, changes.
LEMMA QuietKeeps ==
  ASSUME Inv, pending' \in Marker, late' \subseteq GivenUp,
         UNCHANGED <<record, outdated, peer, told, plane, uncleaned, signedOut, overlapped, task>>
  PROVE  Inv'
<1>1. Typed'
  BY DEF Inv, Typed, HubOk, Lookups
<1>2. FoundRowsAreOld' /\ GoneIsGone'
  BY DEF Inv, FoundRowsAreOld, GoneIsGone, Row
<1>3. LookupsAreTrue' /\ SignedOutLookups'
  BY DEF Inv, LookupsAreTrue, SignedOutLookups, SignOutRuns, Of, Rechecked, Owner, Row
<1>4. ToldIsTrue'
  BY DEF Inv, ToldIsTrue, SigningOut, SignOutTells, Telling, Unsure, Asked, Rechecked, Owner, Row
<1> QED BY <1>1, <1>2, <1>3, <1>4 DEF Inv

LEMMA ForgottenKeeps ==
  ASSUME Inv, NEW m \in late, Forgotten(m)
  PROVE  Inv'
BY QuietKeeps DEF Forgotten, hub, Inv, Typed, HubOk

LEMMA MarkerAgesKeeps ==
  ASSUME Inv, MarkerAges
  PROVE  Inv'
<1>1. pending' \in Marker
  BY DEF MarkerAges, Marker, Inv, Typed, HubOk
<1> QED BY <1>1, QuietKeeps DEF MarkerAges, world, Inv, Typed, HubOk

LEMMA DisconnectKeeps ==
  ASSUME Inv, Disconnect
  PROVE  Inv'
<1>0. /\ Typed /\ peer' = 0
      /\ UNCHANGED <<record, pending, outdated, told, plane, late, uncleaned, signedOut, overlapped, task>>
  BY DEF Inv, Disconnect, world
<1>1. Typed'
  BY <1>0 DEF Typed, HubOk, Lookups
<1>2. FoundRowsAreOld' /\ GoneIsGone'
  BY <1>0 DEF Inv, FoundRowsAreOld, GoneIsGone, Row
<1>3. LookupsAreTrue' /\ SignedOutLookups'
  BY <1>0 DEF Inv, LookupsAreTrue, SignedOutLookups, SignOutRuns, Of, Rechecked, Owner, Row
<1>4. ToldIsTrue'
  BY <1>0 DEF ToldIsTrue
<1> QED BY <1>1, <1>2, <1>3, <1>4 DEF Inv

\* With every handler idle, nothing is looked up, signed out or told.
LEMMA IdleKeeps ==
  ASSUME Inv, \A s \in Tasks : task'[s] = Idle, task' \in [Tasks -> Handlers],
         record' \in {"none", "before", "after"}, outdated' = {}, late' \subseteq GivenUp,
         UNCHANGED <<pending, told, plane, uncleaned, signedOut>>,
         peer' = 0 \/ (peer' = peer /\ UNCHANGED task)
  PROVE  Inv'
<1>0. \A s \in Tasks : task'[s].kind = "idle"
  BY IdleOk
<1>1. Typed'
  <2>1. \A s \in Tasks : HandlerOk(task'[s])
    BY IdleOk
  <2> QED BY <2>1 DEF Inv, Typed, HubOk
<1>2. FoundRowsAreOld' /\ GoneIsGone'
  BY <1>0 DEF Inv, FoundRowsAreOld, GoneIsGone, Row
<1>3. LookupsAreTrue' /\ SignedOutLookups'
  BY <1>0 DEF LookupsAreTrue, SignedOutLookups, Rechecked
<1>4. ToldIsTrue'
  <2>1. CASE peer' = 0
    BY <2>1 DEF ToldIsTrue
  <2>2. CASE peer' = peer /\ UNCHANGED task
    <3>1. \A s \in Tasks : ~SignOutTells(s) /\ ~Telling(s) /\ ~SigningOut(s)'
      BY <1>0, <2>2 DEF SignOutTells, Telling, SigningOut
    <3> QED BY <2>2, <3>1 DEF Inv, ToldIsTrue, Owner, Row
  <2> QED BY <2>1, <2>2
<1> QED BY <1>1, <1>2, <1>3, <1>4 DEF Inv

LEMMA RecordExpiresKeeps ==
  ASSUME Inv, RecordExpires
  PROVE  Inv'
<1>1. /\ \A s \in Tasks : task'[s] = Idle /\ task[s].kind = "idle"
      /\ UNCHANGED <<pending, outdated, told, plane, late, uncleaned, signedOut, peer, task>>
      /\ record' = "none"
  BY IdleOk DEF RecordExpires, world
<1>2. outdated' = {}
  BY <1>1 DEF Inv, Typed, HubOk, Lookups
<1> QED BY <1>1, <1>2, IdleKeeps DEF Inv, Typed, HubOk

LEMMA RebuildKeeps ==
  ASSUME Inv, Rebuild
  PROVE  Inv'
<1>1. late' \subseteq GivenUp
  BY DEF Rebuild, Of, Inv, Typed, HubOk, HandlerOk, HoldsOk, Handlers, GivenUp
<1>2. task' \in [Tasks -> Handlers] /\ \A s \in Tasks : task'[s] = Idle
  BY IdleOk DEF Rebuild
<1> QED BY <1>1, <1>2, IdleKeeps DEF Rebuild, Inv, Typed, HubOk

LEMMA StutterKeeps ==
  ASSUME Inv, UNCHANGED vars
  PROVE  Inv'
BY QuietKeeps DEF vars, hub, world, Inv, Typed, HubOk

-----------------------------------------------------------------------------
(* The theorems.                                                           *)

LEMMA InitHolds ==
  ASSUME Init
  PROVE  Inv
<1> DEFINE a == CHOOSE b \in Accounts : TRUE
           r == [id |-> 1, device |-> Mac, owner |-> a]
<1>0. a \in Accounts
  OBVIOUS
<1>1. r \in Device /\ r.id = 1 /\ r.device = Mac
  BY <1>0 DEF Device
<1>2. /\ plane.devices = {r} /\ plane.codes = {} /\ plane.pairings = {} /\ plane.approvals = {}
      /\ plane.next = 2
      /\ plane \in Plane
  <2>1. /\ plane.devices = {r} /\ plane.codes = {} /\ plane.pairings = {} /\ plane.approvals = {}
        /\ plane.next = 2
        /\ plane = [devices |-> {r}, codes |-> {}, pairings |-> {}, approvals |-> {}, next |-> 2]
    BY DEF Init, Linked, EmptyPlane
  <2> HIDE DEF r
  <2> QED BY <1>1, <2>1 DEF Plane
<1> HIDE DEF r
<1>3. Sound(plane)
  BY <1>1, <1>2 DEF Sound, DevicesSound, CodesSound, PairingsSound, ApprovalsSound, OwnIds
<1>4. MacTables(plane)
  BY <1>1, <1>2, <1>3 DEF MacTables, OldId
<1>5. /\ task \in [Tasks -> Handlers] /\ \A s \in Tasks : task[s] = Idle /\ HandlerOk(task[s])
      /\ \A s \in Tasks : task[s].kind = "idle"
  BY IdleOk DEF Init
<1>6. HubOk
  <2>1. /\ record = "none" /\ pending = NoMarker /\ outdated = {} /\ late = {} /\ peer = 0
        /\ told = [owner |-> NoAccount, by |-> "none"] /\ uncleaned = FALSE /\ signedOut = FALSE
    BY DEF Init
  <2>2. told \in [owner : Accounts \cup {NoAccount}, by : Tellers]
    BY <2>1 DEF Tellers
  <2>3. peer \in 0 .. MaxConnections /\ pending \in Marker
    BY <2>1, IdleOk
  <2> QED BY <2>1, <2>2, <2>3 DEF HubOk
<1> QED BY <1>4, <1>5, <1>6
        DEF Inv, Typed, FoundRowsAreOld, GoneIsGone, LookupsAreTrue, SignedOutLookups, ToldIsTrue,
            Rechecked, Init

LEMMA StepKeeps ==
  ASSUME Inv, [Next]_vars
  PROVE  Inv'
<1>1. ASSUME NEW t \in Tasks, Handler(t)
      PROVE  Inv'
  BY <1>1, ServeKeeps, ConnectFoundKeeps, ConnectRecheckedKeeps, RenameAnsweredKeeps,
     RenameRecheckedKeeps, RemoveFoundKeeps, RemoveAnsweredKeeps, RemoveRecheckedKeeps,
     MarkerForgottenKeeps, ClaimWaitsKeep, ClaimLinkedKeeps, ClaimToldKeeps,
     SignOutFoundKeeps, SignOutDeletesKeeps, SignOutForgetsKeeps, AlarmFoundKeeps
  DEF Handler
<1>2. ASSUME NEW t \in Tasks, Requests(t)
      PROVE  Inv'
  BY <1>2, ConnectKeeps, SignOutKeeps, RenameKeeps, RemoveKeeps, RetryKeeps, ClaimKeeps
  DEF Requests
<1>3. ASSUME NEW t \in Tasks, Lose(t) \/ Alarm(t)
      PROVE  Inv'
  BY <1>3, LoseKeeps, AlarmKeeps
<1>4. ASSUME NEW m \in late, LateCommit(m) \/ Forgotten(m)
      PROVE  Inv'
  BY <1>4, LateCommitKeeps, ForgottenKeeps
<1>5. CASE ShowCode \/ Disconnect \/ MarkerAges \/ RecordExpires \/ Rebuild
  BY <1>5, ShowCodeKeeps, DisconnectKeeps, MarkerAgesKeeps, RecordExpiresKeeps, RebuildKeeps
<1>6. CASE UNCHANGED vars
  BY <1>6, StutterKeeps
<1> QED BY <1>1, <1>2, <1>3, <1>4, <1>5, <1>6 DEF Next

LEMMA AlwaysInv == Spec => []Inv
<1>1. Init => Inv
  BY InitHolds
<1>2. Inv /\ [Next]_vars => Inv'
  BY StepKeeps
<1> QED BY <1>1, <1>2, PTL DEF Spec

\* What a Mac was told about its account is so, whichever of the account
\* service's answers were lost and whatever ran meanwhile (finishHostRemoval,
\* currentHostIdentity, pushLinkedHostIdentity).
THEOREM MacIsToldTheOwner == Spec => []ToldTheOwner
<1>1. Inv => TypeOK
  BY DEF Inv, Typed, HubOk, MacTables, Sound, TypeOK, Handlers, Marker, GivenUp
<1>2. Inv => LookupToldTheOwner
  <2> SUFFICES ASSUME Inv, Quiet, ~uncleaned, peer # 0, told.by = "lookup", told.owner # NoAccount
               PROVE  told.owner = Owner
    BY DEF LookupToldTheOwner
  <2>1. \A t \in Tasks : task[t].kind = "idle"
    BY IdleOk DEF Quiet
  <2> QED BY <2>1 DEF Inv, ToldIsTrue, SignOutTells, Telling
<1>3. Inv => ToldTheOwner
  BY <1>1, <1>2 DEF ToldTheOwner
<1> QED BY <1>3, AlwaysInv, PTL

-----------------------------------------------------------------------------
(* After a Sign Out.                                                       *)

\* The Mac is told nothing that a lookup found.
Silent == told' = told \/ told'.by # "lookup"

LEMMA CommitIsSilent ==
  ASSUME Inv, NEW q, NEW removal, Committed(q, removal)
  PROVE  Silent
<1>1. Overlapped.by = "overlapped lookup"
  BY DEF Overlapped, Inv, Typed, HubOk
<1> QED BY <1>1 DEF Committed, Silent

LEMMA HandlersAreSilent ==
  ASSUME Inv, NEW t \in Tasks, Handler(t), ~ConnectFound(t), ~ConnectRechecked(t), ~RenameRechecked(t)
  PROVE  Silent
<1>0. /\ told \in [owner : Accounts \cup {NoAccount}, by : Tellers]
      /\ Overlapped.by = "overlapped lookup"
  BY DEF Overlapped, Inv, Typed, HubOk
<1>1. CASE Serve(t)
  BY <1>1, CommitIsSilent DEF Serve
<1>2. CASE RenameAnswered(t)
  BY <1>2 DEF RenameAnswered, Silent
<1>3. CASE RemoveFound(t) \/ RemoveAnswered(t) \/ RemoveRechecked(t) \/ AlarmFound(t)
  <2>1. told' = told \/ Tell(NoAccount, "removal")
    BY <1>3 DEF RemoveFound, RemoveAnswered, RemoveRechecked, AlarmFound, Finish
  <2> QED BY <2>1 DEF Tell, Silent
<1>4. CASE MarkerForgotten(t) \/ ClaimAnswered(t) \/ ClaimFound(t)
  BY <1>4 DEF MarkerForgotten, ClaimAnswered, ClaimFound, hub, Silent
<1>5. CASE ClaimLinked(t) \/ SignOutForgets(t)
  BY <1>0, <1>5 DEF ClaimLinked, SignOutForgets, TakesOver, Silent
<1>6. CASE ClaimTold(t)
  BY <1>6 DEF ClaimTold, Tell, Silent
<1>7. CASE SignOutFound(t) \/ SignOutDeletes(t)
  <2>1. told' = told \/ TellOn(t, NoAccount, "signout") \/ told' = [told EXCEPT !.by = "failure"]
    BY <1>7 DEF SignOutFound, SignOutDeletes, SignOutFails, SignOutEnds
  <2>2. [told EXCEPT !.by = "failure"].by = "failure"
    BY <1>0
  <2>3. TellOn(t, NoAccount, "signout") => Silent
    BY DEF TellOn, Silent
  <2> QED BY <2>1, <2>2, <2>3 DEF Silent
<1> QED BY <1>1, <1>2, <1>3, <1>4, <1>5, <1>6, <1>7 DEF Handler

LEMMA OthersAreSilent ==
  ASSUME Inv, Next, \A t \in Tasks : ~Handler(t)
  PROVE  Silent
<1>1. ASSUME NEW t \in Tasks, Requests(t)
      PROVE  told' = told
  BY <1>1 DEF Requests, Connect, SignOut, Rename, Remove, Retry, Claim, hub
<1>2. ASSUME NEW t \in Tasks, Lose(t) \/ Alarm(t)
      PROVE  told' = told
  BY <1>2 DEF Lose, Alarm, hub
<1>3. ASSUME NEW m \in late, LateCommit(m) \/ Forgotten(m)
      PROVE  Silent
  BY <1>3, CommitIsSilent DEF LateCommit, Forgotten, hub, Silent
<1>4. CASE ShowCode \/ Disconnect \/ MarkerAges \/ RecordExpires \/ Rebuild
  BY <1>4 DEF ShowCode, Disconnect, MarkerAges, RecordExpires, Rebuild, hub, Silent
<1> QED BY <1>1, <1>2, <1>3, <1>4 DEF Next, Silent

\* A lookup that a Sign Out outdated tells the Mac that it is not linked.
LEMMA LookupsHeedSignOut ==
  ASSUME Inv, NEW t \in Tasks, ConnectFound(t) \/ ConnectRechecked(t) \/ RenameRechecked(t),
         signedOut', told' # told
  PROVE  told'.owner = NoAccount
<1>1. CASE ConnectFound(t)
  BY <1>1 DEF ConnectFound, TellOn
<1>2. ASSUME ConnectRechecked(t) \/ RenameRechecked(t)
      PROVE  ~(Answered(t) /\ ~SignedOutSince(t) /\ LinkedRow(Got(t)))
  <2>1. signedOut /\ task[t].kind \in {"connect", "rename"} /\ task[t].at = "recheck"
    BY <1>2 DEF ConnectRechecked, RenameRechecked, At
  <2>2. ASSUME Answered(t), ~SignedOutSince(t), LinkedRow(Got(t))
        PROVE  FALSE
    <3>1. Rechecked(t)
      BY <2>1, <2>2, SecondAnswerHolds DEF Rechecked
    <3> QED BY <2>1, <2>2, <3>1 DEF Inv, SignedOutLookups, SignedOutSince
  <2> QED BY <2>2
<1>3. CASE ConnectRechecked(t)
  <2> DEFINE linked == Answered(t) /\ ~SignedOutSince(t) /\ LinkedRow(Got(t))
  <2>1. TellOn(t, IF linked THEN Got(t).owner ELSE NoAccount, By(t))
    BY <1>2, <1>3 DEF ConnectRechecked
  <2>2. ~linked
    BY <1>2, <1>3
  <2> HIDE DEF linked
  <2> QED BY <2>1, <2>2 DEF TellOn
<1>4. CASE RenameRechecked(t)
  BY <1>2, <1>4 DEF RenameRechecked
<1> QED BY <1>1, <1>3, <1>4

\* From host_unlinked on, no lookup, however slow, tells the Mac it is linked
\* until it is linked again (markHostUnlinked, hostUnlinkedSince).
THEOREM SignOutStaysFinal == Spec => SignOutIsFinal
<1>1. Inv /\ [Next]_vars =>
        [told' # told /\ told'.by = "lookup" /\ signedOut' => told'.owner = NoAccount]_vars
  <2> SUFFICES ASSUME Inv, Next, told' # told, told'.by = "lookup", signedOut'
               PROVE  told'.owner = NoAccount
    OBVIOUS
  <2>1. PICK t \in Tasks : Handler(t)
    BY OthersAreSilent DEF Silent
  <2>2. ConnectFound(t) \/ ConnectRechecked(t) \/ RenameRechecked(t)
    BY <2>1, HandlersAreSilent DEF Silent
  <2> QED BY <2>2, LookupsHeedSignOut
<1> QED BY <1>1, AlwaysInv, PTL DEF Spec, SignOutIsFinal

-----------------------------------------------------------------------------
(* The handlers change the tables by the service's mutations only.         *)

LEMMA SameRemove == \A p, a, d : Service!RemoveHost(p, a, d) = RemoveHost(p, a, d)
BY DEF Service!RemoveHost, RemoveHost, Service!ActiveHostOf, ActiveHostOf,
   Service!FindDevice, FindDevice, Service!First, First, Service!Answer, Answer,
   Service!Refuse, Refuse

LEMMA SameUpsert == \A p, a, d : Service!UpsertDevice(p, a, d) = UpsertDevice(p, a, d)
BY DEF Service!UpsertDevice, UpsertDevice, Service!FindDevice, FindDevice,
   Service!First, First, Service!Answer, Answer, Service!Refuse, Refuse

LEMMA SameDelete == \A p, i : Service!DeleteDevice(p, i) = DeleteDevice(p, i)
BY DEF Service!DeleteDevice, DeleteDevice, Service!FindDeviceById, FindDeviceById,
   Service!First, First, Service!Answer, Answer, Service!Refuse, Refuse

LEMMA SameClaim == \A p, c : Service!ClaimCode(p, c) = ClaimCode(p, c)
BY DEF Service!ClaimCode, ClaimCode, Service!Answer, Answer, Service!Refuse, Refuse,
   Service!Cardinality, Cardinality

LEMMA SameCodes == \A p, h : Service!DeleteCodes(p, h) = DeleteCodes(p, h)
BY DEF Service!DeleteCodes, DeleteCodes, Service!Answer, Answer

LEMMA SameCreate == \A p, h, c : Service!CreateCode(p, h, c) = CreateCode(p, h, c)
BY DEF Service!CreateCode, CreateCode, Service!Unclaimed, Unclaimed, Service!Newest, Newest,
   Service!Answer, Answer, Service!Refuse, Refuse, Service!Cardinality, Cardinality

\* A Sign Out deletes a row that is the Mac's, or that has gone.
LEMMA OldIdIsHosts ==
  ASSUME MacTables(plane), NEW i, OldId(plane, i)
  PROVE  i \in Service!RowIds(Hosts)
<1>1. plane.next \in Nat /\ i \in 1 .. plane.next - 1
  BY DEF MacTables, Sound, Plane, OldId
<1>2. /\ i \notin {r.id : r \in plane.codes} /\ i \notin {r.id : r \in plane.approvals}
      /\ i \notin {r.id : r \in {s \in plane.devices : s.device \notin Hosts}}
  BY DEF MacTables, OldId
<1> QED BY <1>1, <1>2 DEF Service!RowIds, Service!Ids

LEMMA ServeImplements ==
  ASSUME Inv, NEW t \in Tasks, Serve(t)
  PROVE  Service!Next \/ plane' = plane
<1>0. /\ plane' = Served(task[t]).plane /\ task[t].at \in Calls /\ HandlerOk(task[t])
      /\ MacTables(plane) /\ (task[t].at = "upsert" => plane.next <= MaxIds)
  BY DEF Serve, Committed, InFlight, Inv, Typed
<1>1. CASE task[t].at \in {"find", "recheck", "rename"}
  <2>1. Served(task[t]) = Answer(plane, Row) \/ Served(task[t]) = RenameHost(plane, task[t].who, Mac)
    BY <1>1 DEF Served
  <2> QED BY <1>0, <2>1 DEF Answer, RenameHost, Refuse
<1>2. CASE task[t].at = "remove"
  <2>1. plane' = RemoveHost(plane, task[t].who, Mac).plane /\ task[t].who \in Accounts
    BY <1>0, <1>2 DEF Served, HandlerOk, InPhase, HoldsOk
  <2> QED BY <2>1, SameRemove DEF Service!Next, Service!Removes
<1>3. CASE task[t].at = "claim"
  <2>1. plane' = ClaimCode(plane, LinkCode).plane
    BY <1>0, <1>3 DEF Served
  <2> QED BY <2>1, SameClaim DEF Service!Next, Service!ClaimsCode
<1>4. CASE task[t].at = "upsert"
  <2>1. plane' = UpsertDevice(plane, task[t].who, Mac).plane /\ task[t].who \in Accounts
    BY <1>0, <1>4 DEF Served, LinkRow, HandlerOk, InPhase, HoldsOk
  <2> QED BY <1>0, <1>4, <2>1, SameUpsert DEF Service!Next, Service!Registers, Service!CanGrow
<1>5. CASE task[t].at = "codes"
  <2>1. plane' = DeleteCodes(plane, Mac).plane
    BY <1>0, <1>5 DEF Served
  <2> QED BY <2>1, SameCodes DEF Service!Next, Service!DeletesCodes
<1>6. CASE task[t].at = "delete"
  <2>1. plane' = DeleteDevice(plane, task[t].seen.id).plane /\ task[t].kind = "signout"
    BY <1>0, <1>6 DEF Served, HandlerOk, InPhase
  <2>2. OldId(plane, task[t].seen.id)
    BY <1>6, <2>1 DEF Inv, FoundRowsAreOld
  <2>3. task[t].seen.id \in Service!RowIds(Hosts)
    BY <1>0, <2>2, OldIdIsHosts
  <2> QED BY <2>1, <2>3, SameDelete DEF Service!Next, Service!Removes
<1> QED BY <1>0, <1>1, <1>2, <1>3, <1>4, <1>5, <1>6 DEF Calls

LEMMA StepImplements ==
  ASSUME Inv, [Next]_vars
  PROVE  [Service!Next]_plane
<1>1. ASSUME NEW t \in Tasks, Handler(t)
      PROVE  Service!Next \/ plane' = plane
  BY <1>1, ServeImplements
     DEF Handler, ConnectFound, ConnectRechecked, RenameAnswered, RenameRechecked, RemoveFound,
         RemoveAnswered, RemoveRechecked, MarkerForgotten, ClaimAnswered, ClaimFound, ClaimLinked,
         ClaimTold, SignOutFound, SignOutDeletes, SignOutForgets, AlarmFound, world
<1>2. ASSUME NEW t \in Tasks, Requests(t) \/ Lose(t) \/ Alarm(t)
      PROVE  plane' = plane
  BY <1>2 DEF Requests, Connect, SignOut, Rename, Remove, Retry, Claim, Lose, Alarm, world
<1>3. ASSUME NEW m \in late, LateCommit(m) \/ Forgotten(m)
      PROVE  Service!Next \/ plane' = plane
  BY <1>3, SameRemove
     DEF LateCommit, Forgotten, Committed, Service!Next, Service!Removes, Inv, Typed, HubOk, GivenUp
<1>4. CASE ShowCode
  BY <1>4, SameCreate DEF ShowCode, Service!Next, Service!CreatesCode, Service!CanGrow
<1>5. CASE Disconnect \/ MarkerAges \/ RecordExpires \/ Rebuild \/ UNCHANGED vars
  BY <1>5 DEF Disconnect, MarkerAges, RecordExpires, Rebuild, vars, world
<1> QED BY <1>1, <1>2, <1>3, <1>4, <1>5 DEF Next

\* Whichever calls of the hub are lost, late or repeated, the account's tables
\* change as the account service specifies (accountPlane.ts called by index.ts).
THEOREM HubImplementsService == Spec => ImplementsService
<1>1. Init => Service!Init
  BY DEF Init, Service!Init
<1>2. Inv /\ [Next]_vars => [Service!Next]_plane
  BY StepImplements
<1> QED BY <1>1, <1>2, AlwaysInv, PTL DEF Spec, ImplementsService, Service!Spec
-----------------------------------------------------------------------------
(* A committed removal keeps its marker.                                   *)

Removing == {t \in Tasks : task[t].at = "remove"}

\* A removal asked of the service has a marker of its own, not an old one; one
\* that was given up is asked by no handler that still hopes for its answer.
MarkersApart ==
  /\ \A t \in Removing : ~task[t].mark.old
  /\ \A s, t \in Removing : task[s].mark = task[t].mark => s = t
  /\ \A m \in late : ~m.old /\ \A t \in Removing : task[t].mark = m => task[t].ans = Lost

\* Who could still drop the marker of a committed removal: a handler that has
\* cleaned up, its own if it was refused, the alarm if it found the Mac linked.
OwedIsKept ==
  owed =>
    /\ pending # NoMarker /\ Row = NoRow /\ ~Forgetting(pending)
    /\ \A t \in Removing : task[t].mark = pending => task[t].ans \notin {Waiting, Refused}
    /\ \A t \in Tasks :
         task[t].kind = "alarm" /\ task[t].at = "find" /\ task[t].mark = pending /\ pending.old
           => task[t].ans \notin Device

Tracked == MarkersApart /\ OwedIsKept

\* A handler goes on or ends, without asking for a removal or, while one is
\* owed, having cleaned up.
GoesOn(t) ==
  /\ \A s \in Tasks \ {t} : task'[s] = task[s]
  /\ task'[t].at # "remove" /\ task'[t].ans = Waiting
  /\ owed' /\ task'[t].at = "forget" => task'[t].kind = "signout"

LEMMA EndGoesOn ==
  ASSUME Typed, NEW t \in Tasks, End(t)
  PROVE  GoesOn(t)
<1>1. Idle.at = "idle" /\ Idle.ans = Waiting
  BY DEF Idle
<1>2. task'[t] = Idle /\ \A s \in Tasks \ {t} : task'[s] = task[s]
  BY Ends
<1>3. task'[t].at = "idle" /\ task'[t].ans = Waiting
  BY <1>1, <1>2
<1> QED BY <1>2, <1>3 DEF GoesOn

LEMMA BecomesGoesOn ==
  ASSUME NEW t \in Tasks, NEW at, NEW seen, NEW mark, Becomes(t, at, seen, mark),
         at # "remove", owed' /\ at = "forget" => task[t].kind = "signout"
  PROVE  GoesOn(t)
BY DEF GoesOn, Becomes

LEMMA BeginGoesOn ==
  ASSUME Typed, NEW t \in Tasks, NEW kind \in Kinds, NEW who \in Accounts \cup {NoAccount},
         NEW at \in Calls \ {"remove"}, NEW conn \in 0 .. MaxConnections, Start(t, kind, who, at, conn)
  PROVE  GoesOn(t)
<1>1. Begins(t, kind, who, at, conn) /\ at \notin {"remove", "forget"}
  BY Starts DEF Calls
<1> QED BY <1>1 DEF GoesOn, Begins

LEMMA GoesOnKeeps ==
  ASSUME Inv, Tracked, NEW t \in Tasks, GoesOn(t), late' = late,
         owed' => owed /\ pending' = pending /\ Row' = Row
  PROVE  Tracked'
<1>1. \A s \in Tasks : task'[s] = task[s] \/ s = t
  BY DEF GoesOn
<1>2. \A s \in Removing' : s \in Removing /\ task'[s] = task[s]
  BY <1>1 DEF GoesOn, Removing
<1>3. MarkersApart'
  BY <1>2 DEF Tracked, MarkersApart
<1>4. ASSUME owed'
      PROVE  /\ pending' = pending /\ Row' = Row /\ owed
             /\ ~Forgetting(pending)'
             /\ \A s \in Tasks : task'[s].kind = "alarm" /\ task'[s].at = "find"
                                   /\ task'[s].mark = pending /\ pending.old
                                 => task'[s].ans \notin Device
  <2>1. owed /\ pending' = pending /\ Row' = Row
    BY <1>4
  <2>2. ~Forgetting(pending)'
    BY <1>1, <1>4, <2>1 DEF Tracked, OwedIsKept, Forgetting, GoesOn
  <2>3. task'[t].ans \notin Device
    BY DEF GoesOn
  <2> QED BY <1>1, <2>1, <2>2, <2>3 DEF Tracked, OwedIsKept
<1>5. OwedIsKept'
  BY <1>2, <1>4 DEF Tracked, OwedIsKept
<1> QED BY <1>3, <1>5 DEF Tracked

\* No handler moves, and the marker stays.
LEMMA IdlingKeeps ==
  ASSUME Tracked, late' \subseteq late, UNCHANGED <<task, pending, owed>>, Row' = Row
  PROVE  Tracked'
<1>1. MarkersApart'
  BY DEF Tracked, MarkersApart, Removing
<1>2. OwedIsKept'
  BY DEF Tracked, OwedIsKept, Removing, Forgetting
<1> QED BY <1>1, <1>2 DEF Tracked

LEMMA FinishTracks ==
  ASSUME Inv, Tracked, NEW t \in Tasks, NEW m \in Marker, Finish(t, m), late' = late
  PROVE  Tracked'
<1>1. Becomes(t, "forget", task[t].seen, m) /\ ~owed'
  BY GoesMarked DEF Finish, Inv
<1> QED BY <1>1, BecomesGoesOn, GoesOnKeeps

\* Handlers that look up, claim and sign out.
LEMMA LookupsTrack ==
  ASSUME Inv, Tracked, NEW t \in Tasks,
         ConnectFound(t) \/ ConnectRechecked(t) \/ RenameAnswered(t) \/ RenameRechecked(t)
  PROVE  Tracked'
<1>1. UNCHANGED <<pending, plane, late, owed>> /\ Row' = Row /\ Typed
  BY DEF ConnectFound, ConnectRechecked, RenameAnswered, RenameRechecked, Row, Inv
<1>2. CASE ConnectRechecked(t) \/ RenameRechecked(t)
  <2>1. GoesOn(t)
    BY <1>1, <1>2, EndGoesOn DEF ConnectRechecked, RenameRechecked, EndLookup
  <2> QED BY <1>1, <2>1, GoesOnKeeps
<1>3. CASE ConnectFound(t) \/ RenameAnswered(t)
  <2>1. CASE EndLookup(t)
    BY <1>1, <2>1, EndGoesOn, GoesOnKeeps DEF EndLookup
  <2>2. CASE /\ task' = [task EXCEPT ![t].at = "recheck", ![t].ans = Waiting, ![t].seen = Got(t)]
             /\ Got(t) \in Device
    <3>1. Becomes(t, "recheck", Got(t), task[t].mark)
      BY <1>1, <2>2, GoesSeeing DEF Calls
    <3> QED BY <1>1, <3>1, BecomesGoesOn, GoesOnKeeps
  <2>3. CASE ~EndLookup(t)
    <3>1. /\ task' = [task EXCEPT ![t].at = "recheck", ![t].ans = Waiting, ![t].seen = Got(t)]
          /\ Answered(t) /\ HandlerOk(task[t])
          /\ \/ At(t, "connect", "find") /\ Got(t) # NoRow
             \/ At(t, "rename", "rename") /\ Got(t) # Refused
      BY <1>1, <1>3, <2>3 DEF ConnectFound, RenameAnswered, LinkedRow, Typed
    <3>2. Got(t) \in Device
      BY <3>1 DEF HandlerOk, AnswerOk, At, Answered, Got
    <3> QED BY <2>2, <3>1, <3>2
  <2> QED BY <2>1, <2>3
<1> QED BY <1>2, <1>3

LEMMA ClaimsTrack ==
  ASSUME Inv, Tracked, NEW t \in Tasks,
         ClaimAnswered(t) \/ ClaimFound(t) \/ ClaimLinked(t) \/ ClaimTold(t)
  PROVE  Tracked'
<1>1. UNCHANGED <<plane, late>> /\ Row' = Row /\ Typed
  BY DEF ClaimAnswered, ClaimFound, ClaimLinked, ClaimTold, world, Row, Inv
<1>2. End(t) \/ \E at \in {"find", "upsert", "tell"} : Goto(t, at)
  BY DEF ClaimAnswered, ClaimFound, ClaimLinked, ClaimTold
<1>3. GoesOn(t)
  BY <1>1, <1>2, EndGoesOn, Goes, BecomesGoesOn DEF Calls
<1>4. owed' => owed /\ pending' = pending
  BY DEF ClaimAnswered, ClaimFound, ClaimLinked, ClaimTold, TakesOver, hub, world
<1> QED BY <1>1, <1>3, <1>4, GoesOnKeeps

LEMMA SignOutsTrack ==
  ASSUME Inv, Tracked, NEW t \in Tasks,
         SignOutFound(t) \/ SignOutDeletes(t) \/ SignOutForgets(t)
  PROVE  Tracked'
<1>1. /\ UNCHANGED <<plane, late>> /\ Row' = Row /\ Typed /\ HandlerOk(task[t])
      /\ task[t].kind = "signout"
  BY DEF SignOutFound, SignOutDeletes, SignOutForgets, At, Row, Inv, Typed
<1>2. \/ End(t) \/ Goto(t, "delete") \/ Goto(t, "forget")
      \/ /\ task' = [task EXCEPT ![t].at = "codes", ![t].ans = Waiting, ![t].seen = Got(t)]
         /\ Got(t) \in Device
  <2>1. CASE SignOutFound(t)
    BY <1>1, <2>1 DEF SignOutFound, SignOutFails, SignOutEnds, HandlerOk, AnswerOk, At, Answered, Got
  <2>2. CASE SignOutDeletes(t) \/ SignOutForgets(t)
    BY <2>2 DEF SignOutDeletes, SignOutForgets, SignOutFails, SignOutEnds
  <2> QED BY <2>1, <2>2
<1>3. GoesOn(t)
  BY <1>1, <1>2, EndGoesOn, Goes, GoesSeeing, BecomesGoesOn DEF Calls
<1>4. owed' => owed /\ pending' = pending
  BY DEF SignOutFound, SignOutDeletes, SignOutForgets, TakesOver
<1> QED BY <1>1, <1>3, <1>4, GoesOnKeeps

LEMMA RequestsTrack ==
  ASSUME Inv, Tracked, NEW t \in Tasks, Requests(t) \/ Alarm(t)
  PROVE  Tracked'
<1>1. UNCHANGED <<pending, plane, late, owed>> /\ Row' = Row /\ Typed
  BY DEF Requests, Connect, SignOut, Rename, Remove, Retry, Claim, Alarm, hub, world, Row, Inv
<1>0. /\ {"connect", "signout", "rename", "remove", "claim"} \subseteq Kinds
      /\ {"find", "rename", "claim"} \subseteq Calls \ {"remove"}
      /\ 0 \in 0 .. MaxConnections /\ peer \in 0 .. MaxConnections
  BY <1>1 DEF Kinds, Calls, Typed, HubOk
<1>2. CASE Connect(t)
  <2>1. PICK conn \in 0 .. MaxConnections : Start(t, "connect", NoAccount, "find", conn)
    BY <1>0, <1>2 DEF Connect
  <2>2. GoesOn(t)
    BY <1>0, <1>1, <2>1, BeginGoesOn
  <2> QED BY <1>1, <2>2, GoesOnKeeps
<1>3. CASE SignOut(t)
  <2>1. PICK conn \in 0 .. MaxConnections : Start(t, "signout", NoAccount, "find", conn)
    BY <1>0, <1>3 DEF SignOut
  <2>2. GoesOn(t)
    BY <1>0, <1>1, <2>1, BeginGoesOn
  <2> QED BY <1>1, <2>2, GoesOnKeeps
<1>4. ASSUME NEW a \in Accounts, Rename(t, a) \/ Remove(t, a) \/ Claim(t, a)
      PROVE  Tracked'
  <2>1. \/ Start(t, "rename", a, "rename", 0) \/ Start(t, "remove", a, "find", 0)
        \/ Start(t, "claim", a, "claim", 0)
    BY <1>4 DEF Rename, Remove, Claim
  <2>2. GoesOn(t)
    BY <1>0, <1>1, <2>1, BeginGoesOn
  <2> QED BY <1>1, <2>2, GoesOnKeeps
<1>5. ASSUME Alarm(t) \/ \E a \in Accounts : Retry(t, a)
      PROVE  GoesOn(t)
  <2> DEFINE alarm == [Idle EXCEPT !.kind = "alarm", !.at = "find", !.mark = pending]
             retry(a) == [Idle EXCEPT !.kind = "remove", !.who = a, !.at = "find"]
  <2>1. /\ alarm.at = "find" /\ alarm.ans = Waiting
        /\ \A a : retry(a).at = "find" /\ retry(a).ans = Waiting
    BY DEF Idle
  <2>2. task' = [task EXCEPT ![t] = alarm] \/ \E a \in Accounts : task' = [task EXCEPT ![t] = retry(a)]
    BY <1>5 DEF Alarm, Retry
  <2> HIDE DEF alarm, retry
  <2> QED BY <1>1, <2>1, <2>2 DEF GoesOn, Typed
<1> QED BY <1>1, <1>2, <1>3, <1>4, <1>5, GoesOnKeeps DEF Requests

LEMMA RemoveFoundTracks ==
  ASSUME Inv, Tracked, NEW t \in Tasks, RemoveFound(t)
  PROVE  Tracked'
<1>0. /\ Typed /\ pending \in Marker /\ late' = late /\ Row' = Row
      /\ task[t] \in Handlers /\ task[t].who \in Accounts
  BY DEF Inv, Typed, HubOk, HandlerOk, HoldsOk, RemoveFound, At, Row
<1>1. CASE Finish(t, pending)
  BY <1>0, <1>1, FinishTracks
<1>2. CASE End(t) /\ UNCHANGED <<pending, owed>>
  BY <1>0, <1>2, EndGoesOn, GoesOnKeeps
<1>3. CASE /\ \E n \in NewNumbers : NewMarker(n, task[t].who)
           /\ task' = [task EXCEPT ![t].at = "remove", ![t].ans = Waiting, ![t].mark = pending']
  <2>1. PICK n \in NewNumbers : pending' = [by |-> task[t].who, n |-> n, old |-> FALSE]
    BY <1>3 DEF NewMarker
  <2>2. pending' \in Marker /\ pending' # NoMarker /\ ~pending'.old /\ ~owed'
    BY <1>0, <1>3, <2>1 DEF NewMarker, NewNumbers, Marker, NoMarker
  <2>3. pending' \notin Markers
    BY <2>1 DEF NewNumbers
  <2>4. pending' \notin late /\ \A s \in Tasks : task[s].mark # pending'
    BY <2>2, <2>3 DEF Markers
  <2>5. Becomes(t, "remove", task[t].seen, pending')
    BY <1>0, <1>3, <2>2, GoesMarked DEF Calls
  <2>6. \A s \in Removing' : s = t \/ (s \in Removing /\ task'[s] = task[s])
    BY <2>5 DEF Becomes, Removing
  <2>7. task'[t].mark = pending'
    BY <2>5 DEF Becomes
  <2>8. MarkersApart'
    BY <1>0, <2>2, <2>4, <2>6, <2>7 DEF Tracked, MarkersApart, Removing
  <2> QED BY <2>2, <2>8 DEF Tracked, OwedIsKept
<1> QED BY <1>1, <1>2, <1>3 DEF RemoveFound

LEMMA RemoveEndsTrack ==
  ASSUME Inv, Tracked, NEW t \in Tasks,
         RemoveAnswered(t) \/ RemoveRechecked(t) \/ MarkerForgotten(t)
  PROVE  Tracked'
<1>0. Typed /\ late' = late /\ Row' = Row /\ task[t].mark \in Marker
  BY DEF Inv, Typed, Handlers, RemoveAnswered, RemoveRechecked, MarkerForgotten, world, Row
<1>1. CASE Finish(t, task[t].mark)
  BY <1>0, <1>1, FinishTracks
<1>2. CASE Goto(t, "recheck") /\ UNCHANGED <<pending, owed>>
  BY <1>0, <1>2, Goes, BecomesGoesOn, GoesOnKeeps DEF Calls
<1>3. CASE End(t) /\ owed' = owed /\ (owed => pending' = pending)
  BY <1>0, <1>3, EndGoesOn, GoesOnKeeps
<1>4. CASE RemoveAnswered(t)
  <2>1. Got(t) = Refused /\ owed => task[t].mark # pending
    BY <1>4 DEF RemoveAnswered, At, Got, Removing, Tracked, OwedIsKept
  <2> QED BY <1>1, <1>2, <1>3, <1>4, <2>1 DEF RemoveAnswered, ForgetMarker
<1>5. CASE RemoveRechecked(t)
  BY <1>1, <1>3, <1>5 DEF RemoveRechecked
<1>6. CASE MarkerForgotten(t)
  <2>1. owed => task[t].mark # pending
    BY <1>6 DEF MarkerForgotten, Tracked, OwedIsKept, Forgetting
  <2> QED BY <1>3, <1>6, <2>1 DEF MarkerForgotten, ForgetMarker, world
<1> QED BY <1>4, <1>5, <1>6

LEMMA AlarmFoundTracks ==
  ASSUME Inv, Tracked, NEW t \in Tasks, AlarmFound(t)
  PROVE  Tracked'
<1>0. Typed /\ late' = late /\ Row' = Row /\ pending \in Marker /\ HandlerOk(task[t])
  BY DEF Inv, Typed, HubOk, AlarmFound, Row
<1>1. CASE Finish(t, pending)
  BY <1>0, <1>1, FinishTracks
<1>2. CASE End(t) /\ owed' = owed /\ (owed => pending' = pending)
  BY <1>0, <1>2, EndGoesOn, GoesOnKeeps
<1>3. CASE ~Unsettled(t) /\ Got(t) # NoRow
  <2>1. At(t, "alarm", "find") /\ Got(t) \in Device /\ task[t].mark = pending
    BY <1>0, <1>3 DEF AlarmFound, Unsettled, HandlerOk, AnswerOk, At, Got
  <2>2. owed => ~pending.old
    BY <2>1 DEF At, Got, Tracked, OwedIsKept
  <2> QED BY <1>2, <1>3, <2>2 DEF AlarmFound
<1> QED BY <1>1, <1>2, <1>3 DEF AlarmFound

\* A removal that the service refuses leaves the tables as they are.
LEMMA RefusedRemovesNothing ==
  ASSUME NEW p, MacTables(p), NEW a, RemoveHost(p, a, Mac).answer = Refused
  PROVE  RemoveHost(p, a, Mac).plane = p
BY RowIsDevice DEF RemoveHost, Answer, Refuse

\* What is committed under the stored marker becomes owed.
LEMMA CommitTracks ==
  ASSUME Inv, NEW p, NEW m, Committed(p, m # NoMarker), CommittedUnder(p, m), owed', ~owed
  PROVE  m # NoMarker /\ m = pending /\ Row # NoRow /\ Row' = NoRow /\ ~Forgetting(m)
BY DEF Committed, CommittedUnder, Row

LEMMA OwedHasNoRow ==
  ASSUME NEW p, NEW removal, NEW m, Committed(p, removal), CommittedUnder(p, m), owed'
  PROVE  Row' = NoRow
BY DEF Committed, CommittedUnder, Row

LEMMA ServeTracks ==
  ASSUME Inv, Tracked, NEW t \in Tasks, Serve(t)
  PROVE  Tracked'
<1> DEFINE r == Served(task[t])
           m == IF task[t].at = "remove" THEN task[t].mark ELSE NoMarker
           x == [task[t] EXCEPT !.ans = r.answer]
<1>0. /\ Typed /\ MacTables(plane) /\ task[t] \in Handlers /\ HandlerOk(task[t])
      /\ task \in [Tasks -> Handlers] /\ task[t].ans = Waiting
      /\ Committed(r.plane, task[t].at = "remove") /\ CommittedUnder(r.plane, m)
      /\ task' = [task EXCEPT ![t] = x] /\ UNCHANGED <<pending, late>>
  BY DEF Inv, Typed, Serve
<1>1. /\ x.kind = task[t].kind /\ x.at = task[t].at /\ x.mark = task[t].mark /\ x.ans = r.answer
  BY <1>0 DEF Handlers
<1>2. /\ task'[t] = x /\ \A s \in Tasks \ {t} : task'[s] = task[s]
  BY <1>0
<1> HIDE DEF x
<1>3. Removing' = Removing /\ \A k : Forgetting(k)' = Forgetting(k)
  <2>1. \A s \in Tasks : /\ task'[s].kind = task[s].kind /\ task'[s].at = task[s].at
                         /\ task'[s].mark = task[s].mark
    BY <1>1, <1>2
  <2>2. Removing' = Removing
    BY <2>1 DEF Removing
  <2>3. ASSUME NEW k PROVE Forgetting(k)' = Forgetting(k)
    BY <2>1 DEF Forgetting
  <2> QED BY <2>2, <2>3
<1>4. MarkersApart'
  BY <1>0, <1>1, <1>2, <1>3 DEF Tracked, MarkersApart
<1>5. OwedIsKept'
  <2> SUFFICES ASSUME owed'
               PROVE  /\ pending # NoMarker /\ Row' = NoRow /\ ~Forgetting(pending)
                      /\ \A s \in Removing : task'[s].mark = pending => task'[s].ans \notin {Waiting, Refused}
                      /\ \A s \in Tasks :
                           task'[s].kind = "alarm" /\ task'[s].at = "find" /\ task'[s].mark = pending
                             /\ pending.old
                           => task'[s].ans \notin Device
    BY <1>0, <1>3 DEF OwedIsKept
  <2>1. Row' = NoRow /\ plane' = r.plane
    BY <1>0, OwedHasNoRow DEF Committed
  <2>2. CASE owed
    <3>1. Row = NoRow /\ (task[t].at = "remove" => task[t].mark # pending)
      BY <1>0, <2>2 DEF Tracked, OwedIsKept, Removing
    <3>2. task[t].at = "find" => r.answer = NoRow
      BY <3>1 DEF Served, Answer
    <3>3. NoRow \notin Device
      BY NoRowAssumption
    <3>4. /\ pending # NoMarker /\ ~Forgetting(pending)
          /\ \A s \in Removing : task[s].mark = pending => task[s].ans \notin {Waiting, Refused}
          /\ \A s \in Tasks : /\ task[s].kind = "alarm" /\ task[s].at = "find"
                             /\ task[s].mark = pending /\ pending.old
                            => task[s].ans \notin Device
      BY <2>2 DEF Tracked, OwedIsKept
    <3>5. ASSUME NEW s \in Removing, task'[s].mark = pending
          PROVE  task'[s].ans \notin {Waiting, Refused}
      <4>1. s \in Tasks /\ task[s].at = "remove"
        BY DEF Removing
      <4>2. s # t
        BY <1>1, <1>2, <3>1, <3>5, <4>1
      <4> QED BY <1>2, <3>4, <3>5, <4>1, <4>2
    <3>6. ASSUME NEW s \in Tasks, task'[s].kind = "alarm" /\ task'[s].at = "find",
                 task'[s].mark = pending, pending.old
          PROVE  task'[s].ans \notin Device
      <4>1. CASE s = t
        BY <1>1, <1>2, <3>2, <3>3, <3>6, <4>1
      <4>2. CASE s # t
        BY <1>2, <3>4, <3>6, <4>2
      <4> QED BY <4>1, <4>2
    <3> QED BY <2>1, <3>4, <3>5, <3>6
  <2>3. CASE ~owed
    <3>1. task[t].at = "remove" /\ m = task[t].mark /\ m = pending /\ m # NoMarker
          /\ Row # NoRow /\ ~Forgetting(m)
      BY <1>0, <2>3 DEF CommittedUnder
    <3>2. t \in Removing /\ ~pending.old
      BY <3>1 DEF Removing, Tracked, MarkersApart
    <3>3. r = RemoveHost(plane, task[t].who, Mac)
      BY <3>1 DEF Served
    <3>4. r.answer # Refused
      BY <1>0, <2>1, <3>1, <3>3, RefusedRemovesNothing DEF Row
    <3>5. r.answer # Waiting
      <4>1. AnswerTo(task[t].at, r.answer)
        BY <1>0, ServedOk DEF Serve
      <4> QED BY <3>1, <4>1 DEF AnswerTo
    <3>6. \A s \in Removing : task[s].mark = pending => s = t
      BY <3>1, <3>2 DEF Tracked, MarkersApart
    <3> QED BY <1>1, <1>2, <2>1, <3>1, <3>2, <3>4, <3>5, <3>6 DEF Removing
  <2> QED BY <2>2, <2>3
<1> QED BY <1>4, <1>5 DEF Tracked

LEMMA LateCommitTracks ==
  ASSUME Inv, Tracked, NEW m \in late, LateCommit(m)
  PROVE  Tracked'
<1> DEFINE p == RemoveHost(plane, m.by, Mac).plane
<1>0. Committed(p, TRUE) /\ CommittedUnder(p, m) /\ late' = late \ {m} /\ UNCHANGED <<pending, task>>
  BY DEF LateCommit
<1>1. MarkersApart'
  BY <1>0 DEF Tracked, MarkersApart, Removing
<1>2. ASSUME owed'
      PROVE  OwedIsKept'
  <2>1. Row' = NoRow
    BY <1>0, <1>2, OwedHasNoRow
  <2>2. Removing' = Removing /\ \A k : Forgetting(k)' = Forgetting(k)
    BY <1>0 DEF Removing, Forgetting
  <2>3. CASE owed
    BY <1>0, <2>1, <2>2, <2>3 DEF Tracked, OwedIsKept
  <2>4. CASE ~owed
    <3>1. m # NoMarker /\ m = pending /\ ~Forgetting(m)
      BY <1>0, <1>2, <2>4 DEF CommittedUnder
    <3>2. ~pending.old /\ \A t \in Removing : task[t].mark = pending => task[t].ans = Lost
      BY <3>1 DEF Tracked, MarkersApart
    <3>3. /\ \A t \in Removing' : task'[t].mark = pending' => task'[t].ans \notin {Waiting, Refused}
          /\ ~pending'.old
      BY <1>0, <2>2, <3>2, AnswersAssumption
    <3>4. pending' # NoMarker /\ ~Forgetting(pending)'
      BY <1>0, <2>2, <3>1 DEF Forgetting
    <3> QED BY <2>1, <3>3, <3>4 DEF OwedIsKept
  <2> QED BY <2>3, <2>4
<1> QED BY <1>1, <1>2 DEF Tracked, OwedIsKept

LEMMA LoseTracks ==
  ASSUME Inv, Tracked, NEW t \in Tasks, Lose(t)
  PROVE  Tracked'
<1> DEFINE x == [task[t] EXCEPT !.ans = Lost]
<1>0. /\ task[t] \in Handlers /\ task \in [Tasks -> Handlers] /\ task' = [task EXCEPT ![t] = x]
      /\ UNCHANGED <<pending, owed>> /\ Row' = Row
  BY DEF Inv, Typed, Lose, hub, Row
<1>1. x.kind = task[t].kind /\ x.at = task[t].at /\ x.mark = task[t].mark /\ x.ans = Lost
  BY <1>0 DEF Handlers
<1> HIDE DEF x
<1>2. task'[t] = x /\ \A s \in Tasks \ {t} : task'[s] = task[s]
  BY <1>0
<1>3. Removing' = Removing /\ \A k : Forgetting(k)' = Forgetting(k)
  <2>1. \A s \in Tasks : /\ task'[s].kind = task[s].kind /\ task'[s].at = task[s].at
                         /\ task'[s].mark = task[s].mark
    BY <1>1, <1>2
  <2>2. Removing' = Removing
    BY <2>1 DEF Removing
  <2>3. ASSUME NEW k PROVE Forgetting(k)' = Forgetting(k)
    BY <2>1 DEF Forgetting
  <2> QED BY <2>2, <2>3
<1>4. \A m \in late' : m \in late \/ (t \in Removing /\ m = task[t].mark)
  BY DEF Lose, Removing
<1>5. \A s \in Tasks : task'[s].mark = task[s].mark /\ (task'[s].ans = task[s].ans \/ task'[s].ans = Lost)
  BY <1>1, <1>2
<1>6. MarkersApart'
  <2>1. \A m \in late', s \in Removing : task'[s].mark = m => task'[s].ans = Lost
    BY <1>1, <1>2, <1>4, <1>5 DEF Tracked, MarkersApart, Removing
  <2> QED BY <1>3, <1>4, <1>5, <2>1 DEF Tracked, MarkersApart, Removing
<1>7. OwedIsKept'
  <2>1. Lost \notin Device /\ Lost \notin {Waiting, Refused}
    BY AnswersAssumption
  <2>2. \A s \in Tasks : task'[s].kind = task[s].kind /\ task'[s].at = task[s].at
    BY <1>1, <1>2
  <2> QED BY <1>0, <1>3, <1>5, <2>1, <2>2 DEF Tracked, OwedIsKept, Removing
<1> QED BY <1>6, <1>7 DEF Tracked

LEMMA MarkerAgesTracks ==
  ASSUME Inv, Tracked, MarkerAges
  PROVE  Tracked'
<1>1. /\ UNCHANGED <<task, late, owed>> /\ Row' = Row /\ pending # NoMarker
      /\ pending' = [pending EXCEPT !.old = TRUE] /\ pending \in Marker /\ \A s \in Tasks : HandlerOk(task[s])
      /\ \A s \in Tasks : task[s].kind \notin {"remove", "alarm"}
  BY DEF MarkerAges, PastMaxAge, Of, world, Row, Inv, Typed, HubOk
<1>2. pending' # NoMarker
  BY <1>1 DEF Marker, NoMarker
<1>3. Removing = {} /\ Removing' = {} /\ \A k : ~Forgetting(k)'
  BY <1>1 DEF Removing, Forgetting, HandlerOk, InPhase
<1> QED BY <1>1, <1>2, <1>3 DEF Tracked, MarkersApart, OwedIsKept

LEMMA RebuildTracks ==
  ASSUME Inv, Tracked, Rebuild
  PROVE  Tracked'
<1>1. /\ UNCHANGED <<pending, owed>> /\ Row' = Row /\ \A s \in Tasks : task'[s] = Idle
      /\ \A m \in late' : m \in late \/ \E s \in Removing : m = task[s].mark
  BY DEF Rebuild, Row, Of, Removing
<1>2. Removing' = {} /\ \A k : ~Forgetting(k)'
  <2>1. \A s \in Tasks : task'[s].at = "idle"
    BY <1>1 DEF Idle
  <2> QED BY <2>1 DEF Removing, Forgetting
<1>3. MarkersApart'
  BY <1>1, <1>2 DEF Tracked, MarkersApart
<1>4. OwedIsKept'
  BY <1>1, <1>2 DEF Tracked, OwedIsKept, Idle
<1> QED BY <1>3, <1>4 DEF Tracked

LEMMA OthersTrack ==
  ASSUME Inv, Tracked,
         \/ ShowCode \/ Disconnect \/ RecordExpires \/ UNCHANGED vars
         \/ \E m \in late : Forgotten(m)
  PROVE  Tracked'
<1>1. late' \subseteq late /\ UNCHANGED <<task, pending, owed>>
  BY DEF ShowCode, Disconnect, RecordExpires, Forgotten, vars, hub, world
<1>2. Row' = Row
  <2>1. CASE ShowCode
    <3>1. Leaves(plane, CreateCode(plane, Mac, LinkCode).plane, "code")
      BY CreateCodeLeaves DEF Inv, Typed
    <3> QED BY <2>1, <3>1 DEF ShowCode, Leaves, RowStep, Row
  <2> QED BY <2>1 DEF Disconnect, RecordExpires, Forgotten, vars, world, Row
<1> QED BY <1>1, <1>2, IdlingKeeps

LEMMA StepTracks ==
  ASSUME Inv, Tracked, [Next]_vars
  PROVE  Tracked'
<1>1. ASSUME NEW t \in Tasks, Handler(t)
      PROVE  Tracked'
  BY <1>1, ServeTracks, LookupsTrack, RemoveFoundTracks, RemoveEndsTrack, ClaimsTrack,
     SignOutsTrack, AlarmFoundTracks DEF Handler
<1>2. ASSUME NEW t \in Tasks, Lose(t) \/ Requests(t) \/ Alarm(t)
      PROVE  Tracked'
  BY <1>2, LoseTracks, RequestsTrack
<1>3. ASSUME NEW m \in late, LateCommit(m) \/ Forgotten(m)
      PROVE  Tracked'
  BY <1>3, LateCommitTracks, OthersTrack
<1>4. CASE ShowCode \/ Disconnect \/ MarkerAges \/ RecordExpires \/ Rebuild \/ UNCHANGED vars
  BY <1>4, OthersTrack, MarkerAgesTracks, RebuildTracks
<1> QED BY <1>1, <1>2, <1>3, <1>4 DEF Next

\* A removal that the service committed under the stored marker keeps it there
\* until somebody has begun to clean up, whichever answers were lost, however
\* often the object was rebuilt and whoever else was refused meanwhile
\* (rememberPendingRemoval, forgetPendingRemoval, finishPendingRemovals).
THEOREM RemovalStaysTracked == Spec => []RemovalIsTracked
<1>1. Init => Tracked
  BY DEF Init, Tracked, MarkersApart, OwedIsKept, Removing, Idle
<1>2. Inv /\ Tracked /\ [Next]_vars => Tracked'
  BY StepTracks
<1>3. Tracked => RemovalIsTracked
  BY DEF Tracked, OwedIsKept, RemovalIsTracked
<1> QED BY <1>1, <1>2, <1>3, AlwaysInv, PTL DEF Spec
=============================================================================
