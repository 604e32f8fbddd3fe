--------------------------- MODULE AccountPlaneProofs ---------------------------
(***************************************************************************)
(* What every mutation of the account service keeps of its tables, for any *)
(* accounts, devices and codes, and whatever it is called with.            *)
(*                                                                         *)
(* What TablesAgree says is not inductive: that a mutation replaces the    *)
(* row it found, and no other, needs the rows of a table to have ids of    *)
(* their own, below the next one; and a Mac's removal takes no browser's   *)
(* row, since a pairing that is in force has a browser at its other end.   *)
(***************************************************************************)
EXTENDS AccountPlane, FiniteSetTheorems, TLAPS

OwnIds(rows, next) ==
  /\ \A r \in rows : r.id < next
  /\ \A r, s \in rows : r.id = s.id => r = s

DevicesSound(p) ==
  /\ OwnIds(p.devices, p.next)
  /\ \A r, s \in p.devices : r.device = s.device => r = s

CodesSound(p) ==
  /\ OwnIds(p.codes, p.next)
  /\ \A r, s \in p.codes : r.code = s.code /\ r.state = "live" /\ s.state = "live" => r = s

\* Both ends of pairing r have their rows, and the phone is no Mac.
HasBothEnds(p, r) ==
  /\ \E d \in p.devices : d.id = r.host /\ d.device \in Hosts /\ d.owner = r.owner
  /\ \E d \in p.devices : d.id = r.phone /\ d.device \in Browsers \ Hosts /\ d.owner = r.owner

PairingsSound(p) ==
  /\ \A r \in p.pairings : ~r.revoked => HasBothEnds(p, r)
  /\ \A r, s \in p.pairings :
       r.revoked /\ s.owner = r.owner /\ s.host = r.host /\ s.phone = r.phone => s.revoked

ApprovalsSound(p) ==
  \A r, s \in p.approvals :
     r.status = "pending" /\ s.status = "pending" /\ r.host = s.host
       /\ r.requester = s.requester => r = s

Sound(p) ==
  p \in Plane /\ DevicesSound(p) /\ CodesSound(p) /\ PairingsSound(p) /\ ApprovalsSound(p)

\* No code row that was spent in p is live in q.
KeepsSpent(p, q) ==
  \A r \in p.codes, s \in q.codes : r.id = s.id /\ r.state # "live" => s.state # "live"

-----------------------------------------------------------------------------
(* The mutations.                                                          *)

\* A query answers a row of the table, or none when there is none.
LEMMA FirstIsRow ==
  ASSUME NEW rows, rows # {}
  PROVE  First(rows) \in rows
BY DEF First

LEMMA FindsDevice ==
  ASSUME NEW p, p \in Plane, NEW d, FindDevice(p, d) # NoRow
  PROVE  FindDevice(p, d) \in p.devices /\ FindDevice(p, d).device = d
BY FirstIsRow DEF FindDevice, First

LEMMA FindsDeviceById ==
  ASSUME NEW p, p \in Plane, NEW id, FindDeviceById(p, id) # NoRow
  PROVE  FindDeviceById(p, id) \in p.devices /\ FindDeviceById(p, id).id = id
BY FirstIsRow DEF FindDeviceById, First

LEMMA NoRowIsNone ==
  ASSUME NEW p, p \in Plane, NEW d, FindDevice(p, d) = NoRow
  PROVE  \A r \in p.devices : r.device # d
<1> SUFFICES ASSUME NEW r \in p.devices, r.device = d
             PROVE  FALSE
  OBVIOUS
<1>1. FindDevice(p, d) \in p.devices
  BY FirstIsRow, r \in {s \in p.devices : s.device = d} DEF FindDevice
<1> QED BY <1>1, NoRowAssumption DEF Plane

\* Dropping rows of codes, pairings and approvals leaves the rest sound.
LEMMA FewerRows ==
  ASSUME NEW p, Sound(p), NEW q \in Plane,
         q.devices = p.devices, q.next = p.next, q.codes \subseteq p.codes,
         q.pairings \subseteq p.pairings, q.approvals \subseteq p.approvals
  PROVE  Sound(q) /\ KeepsSpent(p, q)
BY DEF Sound, Plane, DevicesSound, CodesSound, PairingsSound, ApprovalsSound, OwnIds,
       HasBothEnds, KeepsSpent, Code

LEMMA UpsertDeviceSound ==
  ASSUME NEW p, Sound(p), NEW a \in Accounts, NEW d \in Hosts \cup Browsers
  PROVE  Sound(UpsertDevice(p, a, d).plane) /\ KeepsSpent(p, UpsertDevice(p, a, d).plane)
<1> DEFINE new == [id |-> p.next, device |-> d, owner |-> a]
           rows == p.devices \cup {new}
           n == p.next + 1
           q == [p EXCEPT !.devices = rows, !.next = n]
<1>0. Sound(p) /\ KeepsSpent(p, p)
  BY DEF KeepsSpent, Sound, CodesSound, OwnIds
<1>1. CASE FindDevice(p, d) # NoRow
  BY <1>0, <1>1 DEF UpsertDevice, Answer, Refuse
<1>2. CASE FindDevice(p, d) = NoRow
  <2>1. UpsertDevice(p, a, d).plane = q
    BY <1>2 DEF UpsertDevice, Answer
  <2>2. rows \in SUBSET Device /\ n \in Nat
    BY DEF Sound, Plane, Device
  <2> HIDE DEF rows, n
  <2>3. /\ q \in Plane /\ q.devices = rows /\ q.next = n
        /\ q.codes = p.codes /\ q.pairings = p.pairings /\ q.approvals = p.approvals
    BY <2>2 DEF Sound, Plane
  <2> USE DEF rows, n
  <2> HIDE DEF q
  <2>4. DevicesSound(q)
    BY <2>3, <1>2, NoRowIsNone DEF Sound, DevicesSound, OwnIds, Plane, Device
  <2>5. CodesSound(q)
    BY <2>3 DEF Sound, CodesSound, OwnIds, Plane, Code
  <2>6. PairingsSound(q)
    BY <2>3 DEF Sound, PairingsSound, HasBothEnds
  <2>7. ApprovalsSound(q) /\ KeepsSpent(p, q)
    BY <2>3, <1>0 DEF Sound, ApprovalsSound, KeepsSpent
  <2> QED BY <2>1, <2>3, <2>4, <2>5, <2>6, <2>7 DEF Sound
<1> QED BY <1>1, <1>2

LEMMA RemoveHostSound ==
  ASSUME NEW p, Sound(p), NEW a \in Accounts, NEW d \in Hosts
  PROVE  Sound(RemoveHost(p, a, d).plane) /\ KeepsSpent(p, RemoveHost(p, a, d).plane)
<1> DEFINE row == FindDevice(p, d)
           rows == p.devices \ {row}
           paired == {r \in p.pairings : r.host # row.id}
           asked == {r \in p.approvals : r.host # row.id}
           shown == {r \in p.codes : r.host # d}
           q == [p EXCEPT !.devices = rows, !.pairings = paired,
                          !.approvals = asked, !.codes = shown]
<1>0. Sound(p) /\ KeepsSpent(p, p)
  BY DEF KeepsSpent, Sound, CodesSound, OwnIds
<1>1. CASE ~ActiveHostOf(p, a, d)
  BY <1>0, <1>1 DEF RemoveHost, Answer, Refuse
<1>2. CASE ActiveHostOf(p, a, d)
  <2>1. RemoveHost(p, a, d).plane = q
    BY <1>2 DEF RemoveHost, Answer
  <2>2. row \in p.devices /\ row.device \in Hosts
    BY <1>2, NoRowIsNone, FindsDevice DEF ActiveHostOf, Sound
  <2>3. /\ rows \in SUBSET Device /\ paired \in SUBSET Pairing
        /\ asked \in SUBSET Approval /\ shown \in SUBSET Code
    BY DEF Sound, Plane
  <2> HIDE DEF row, rows, paired, asked, shown
  <2>4. /\ q \in Plane /\ q.devices = rows /\ q.next = p.next
        /\ q.codes = shown /\ q.pairings = paired /\ q.approvals = asked
    BY <2>3 DEF Sound, Plane
  <2> USE DEF rows, paired, asked, shown
  <2> HIDE DEF q
  <2>5. DevicesSound(q) /\ CodesSound(q) /\ ApprovalsSound(q) /\ KeepsSpent(p, q)
    BY <2>4, <1>0 DEF Sound, DevicesSound, CodesSound, OwnIds, ApprovalsSound, KeepsSpent
  <2>6. PairingsSound(q)
    <3>1. ASSUME NEW r \in paired, ~r.revoked
          PROVE  HasBothEnds(q, r)
      BY <2>2, <2>4, <3>1 DEF Sound, PairingsSound, HasBothEnds
    <3> QED BY <2>4, <3>1 DEF Sound, PairingsSound
  <2> QED BY <2>1, <2>4, <2>5, <2>6 DEF Sound
<1> QED BY <1>1, <1>2

LEMMA DeleteDeviceSound ==
  ASSUME NEW p, Sound(p), NEW id \in Nat
  PROVE  Sound(DeleteDevice(p, id).plane) /\ KeepsSpent(p, DeleteDevice(p, id).plane)
<1> DEFINE rows == {r \in p.devices : r.id # id}
           paired == {r \in p.pairings : r.host # id /\ r.phone # id}
           asked == {r \in p.approvals : r.host # id}
           q == [p EXCEPT !.devices = rows, !.pairings = paired, !.approvals = asked]
<1>0. Sound(p) /\ KeepsSpent(p, p)
  BY DEF KeepsSpent, Sound, CodesSound, OwnIds
<1>1. CASE FindDeviceById(p, id) = NoRow
  BY <1>0, <1>1 DEF DeleteDevice, Answer
<1>2. CASE FindDeviceById(p, id) # NoRow
  <2>1. DeleteDevice(p, id).plane = q
    BY <1>2 DEF DeleteDevice, Answer
  <2>2. rows \in SUBSET Device /\ paired \in SUBSET Pairing /\ asked \in SUBSET Approval
    BY DEF Sound, Plane
  <2> HIDE DEF rows, paired, asked
  <2>3. /\ q \in Plane /\ q.devices = rows /\ q.next = p.next
        /\ q.codes = p.codes /\ q.pairings = paired /\ q.approvals = asked
    BY <2>2 DEF Sound, Plane
  <2> USE DEF rows, paired, asked
  <2> HIDE DEF q
  <2>4. DevicesSound(q) /\ CodesSound(q) /\ ApprovalsSound(q) /\ KeepsSpent(p, q)
    BY <2>3, <1>0 DEF Sound, DevicesSound, CodesSound, OwnIds, ApprovalsSound, KeepsSpent
  <2>5. PairingsSound(q)
    <3>1. ASSUME NEW r \in paired, ~r.revoked
          PROVE  HasBothEnds(q, r)
      BY <2>3, <3>1 DEF Sound, PairingsSound, HasBothEnds
    <3> QED BY <2>3, <3>1 DEF Sound, PairingsSound
  <2> QED BY <2>1, <2>3, <2>4, <2>5 DEF Sound
<1> QED BY <1>1, <1>2

\* Only codes, and perhaps the next id, change.
LEMMA OnlyCodes ==
  ASSUME NEW p, Sound(p), NEW q \in Plane, p.next <= q.next, q.devices = p.devices,
         q.pairings = p.pairings, q.approvals = p.approvals
  PROVE  DevicesSound(q) /\ PairingsSound(q) /\ ApprovalsSound(q)
BY DEF Sound, Plane, Device, DevicesSound, OwnIds, PairingsSound, HasBothEnds, ApprovalsSound

LEMMA CreateCodeSound ==
  ASSUME NEW p, Sound(p), NEW h \in Hosts, NEW c \in Codes
  PROVE  Sound(CreateCode(p, h, c).plane) /\ KeepsSpent(p, CreateCode(p, h, c).plane)
<1> DEFINE new == [id |-> p.next, code |-> c, host |-> h, state |-> "live"]
           all == p.codes \cup {new}
           old == Unclaimed(all, h) \ Newest(Unclaimed(all, h))
           rows == all \ old
           n == p.next + 1
           q == [p EXCEPT !.codes = rows, !.next = n]
<1>0. Sound(p) /\ KeepsSpent(p, p)
  BY DEF KeepsSpent, Sound, CodesSound, OwnIds
<1>1. CASE \E r \in p.codes : r.code = c /\ r.state = "live"
  BY <1>0, <1>1 DEF CreateCode, Answer, Refuse
<1>2. CASE ~\E r \in p.codes : r.code = c /\ r.state = "live"
  <2>1. CreateCode(p, h, c).plane = q
    BY <1>2 DEF CreateCode, Answer
  <2>2. new \in Code /\ p.next \in Nat
    BY DEF Code, Sound, Plane
  <2>3. /\ p.codes \subseteq Code /\ rows \in SUBSET Code /\ rows \subseteq p.codes \cup {new}
        /\ n \in Nat /\ p.next <= n
    BY <2>2 DEF Sound, Plane
  <2> HIDE DEF rows, n, q
  <2>4. /\ q \in Plane /\ q.codes = rows /\ q.next = n /\ q.devices = p.devices
        /\ q.pairings = p.pairings /\ q.approvals = p.approvals
    BY <2>3 DEF q, Sound, Plane
  <2>5. CodesSound(q)
    BY <1>2, <2>2, <2>3, <2>4 DEF n, Sound, CodesSound, OwnIds, Code
  <2>6. KeepsSpent(p, q)
    BY <2>2, <2>3, <2>4 DEF Sound, CodesSound, OwnIds, KeepsSpent, Code
  <2> QED BY <2>1, <2>3, <2>4, <2>5, <2>6, OnlyCodes DEF Sound
<1> QED BY <1>1, <1>2

\* A code row spent in place, whichever way.
LEMMA SpendCodeSound ==
  ASSUME NEW p, Sound(p), NEW row \in p.codes, NEW st \in {"expired", "claimed"},
         NEW q, q = [p EXCEPT !.codes = (@ \ {row}) \cup {[row EXCEPT !.state = st]}]
  PROVE  Sound(q) /\ KeepsSpent(p, q)
<1> DEFINE new == [row EXCEPT !.state = st]
           rows == (p.codes \ {row}) \cup {new}
<1>1. p.codes \subseteq Code /\ p.next \in Nat
  BY DEF Sound, Plane
<1>2. new \in Code /\ new.id = row.id /\ new.state = st
  BY <1>1 DEF Code
<1>3. rows \in SUBSET Code
  BY <1>1, <1>2
<1>4. q = [p EXCEPT !.codes = rows]
  OBVIOUS
<1> HIDE DEF rows, new
<1>5. /\ q \in Plane /\ q.codes = rows /\ q.next = p.next /\ q.devices = p.devices
      /\ q.pairings = p.pairings /\ q.approvals = p.approvals
  BY <1>3, <1>4 DEF Sound, Plane
<1>6. CodesSound(q) /\ KeepsSpent(p, q)
  BY <1>1, <1>2, <1>5 DEF rows, Sound, CodesSound, OwnIds, KeepsSpent
<1>7. q.next <= q.next
  BY <1>1, <1>5
<1> QED BY <1>5, <1>6, <1>7, OnlyCodes DEF Sound

LEMMA ClaimCodeSound ==
  ASSUME NEW p, Sound(p), NEW c \in Codes
  PROVE  Sound(ClaimCode(p, c).plane) /\ KeepsSpent(p, ClaimCode(p, c).plane)
<1> DEFINE live == {r \in p.codes : r.code = c /\ r.state = "live"}
           row == CHOOSE r \in live : TRUE
<1>1. CASE Cardinality(live) # 1
  BY <1>1 DEF ClaimCode, Answer, Refuse, KeepsSpent, Sound, CodesSound, OwnIds
<1>2. CASE Cardinality(live) = 1
  <2>1. live # {}
    BY <1>2, FS_EmptySet
  <2>2. row \in p.codes
    BY <2>1
  <2>3. ClaimCode(p, c).plane
          = [p EXCEPT !.codes = (@ \ {row}) \cup {[row EXCEPT !.state = "claimed"]}]
    BY <1>2 DEF ClaimCode, Answer
  <2> HIDE DEF row
  <2> QED BY <2>2, <2>3, SpendCodeSound
<1> QED BY <1>1, <1>2

\* Codes are deleted: those of a Mac, or those that expired long ago.
LEMMA DropCodesSound ==
  ASSUME NEW p, Sound(p), NEW rows, rows \subseteq p.codes, NEW q, q = [p EXCEPT !.codes = rows]
  PROVE  Sound(q) /\ KeepsSpent(p, q)
<1>1. /\ q \in Plane /\ q.codes = rows /\ q.devices = p.devices /\ q.next = p.next
      /\ q.pairings = p.pairings /\ q.approvals = p.approvals
  BY DEF Sound, Plane
<1> QED BY <1>1, FewerRows

\* Only pairings change.
LEMMA OnlyPairings ==
  ASSUME NEW p, Sound(p), NEW rows \in SUBSET Pairing,
         NEW q, q = [p EXCEPT !.pairings = rows], PairingsSound(q)
  PROVE  Sound(q) /\ KeepsSpent(p, q)
<1>1. /\ q \in Plane /\ q.codes = p.codes /\ q.devices = p.devices /\ q.next = p.next
      /\ q.approvals = p.approvals
  BY DEF Sound, Plane
<1> QED BY <1>1 DEF Sound, DevicesSound, CodesSound, OwnIds, ApprovalsSound, KeepsSpent

LEMMA PairingsOf ==
  ASSUME NEW p \in Plane, NEW rows
  PROVE  LET q == [p EXCEPT !.pairings = rows]
         IN  q.pairings = rows /\ q.devices = p.devices
BY DEF Plane

LEMMA EnsurePairingSound ==
  ASSUME NEW p, Sound(p), NEW a \in Accounts, NEW h \in Nat, NEW b \in Nat
  PROVE  Sound(EnsurePairing(p, a, h, b).plane) /\ KeepsSpent(p, EnsurePairing(p, a, h, b).plane)
<1> DEFINE host == FindDeviceById(p, h)
           phone == FindDeviceById(p, b)
           new == [owner |-> a, host |-> h, phone |-> b, revoked |-> FALSE]
           refused == \/ host = NoRow \/ phone = NoRow
                      \/ host.device \notin Hosts \/ phone.device \in Hosts
                      \/ host.owner # a \/ phone.owner # a
                      \/ RevokedPairing(p, a, h, b)
           rows == p.pairings \cup {new}
           q == [p EXCEPT !.pairings = rows]
<1>1. CASE refused
  BY <1>1 DEF EnsurePairing, Answer, Refuse, KeepsSpent, Sound, CodesSound, OwnIds
<1>2. CASE ~refused
  <2>1. EnsurePairing(p, a, h, b).plane = q
    BY <1>2 DEF EnsurePairing, Answer
  <2>2. /\ host \in p.devices /\ host.id = h /\ host.device \in Hosts /\ host.owner = a
        /\ phone \in p.devices /\ phone.id = b /\ phone.device \notin Hosts /\ phone.owner = a
    BY <1>2, FindsDeviceById DEF Sound
  <2>3. phone.device \in Browsers \ Hosts
    BY <2>2 DEF Sound, Plane, Device
  <2>4. rows \in SUBSET Pairing
    <3>1. new \in Pairing
      BY DEF Pairing
    <3> QED BY <3>1 DEF Sound, Plane
  <2>5. q.pairings = rows /\ q.devices = p.devices
    BY PairingsOf DEF Sound
  <2> HIDE DEF host, phone, q
  <2>6. HasBothEnds(q, new)
    BY <2>2, <2>3, <2>5 DEF HasBothEnds
  <2>7. ~RevokedPairing(p, a, h, b)
    BY <1>2
  <2>8. PairingsSound(q)
    BY <2>5, <2>6, <2>7 DEF Sound, PairingsSound, HasBothEnds, RevokedPairing, Between
  <2> QED BY <2>1, <2>4, <2>8, OnlyPairings DEF q
<1> QED BY <1>1, <1>2

LEMMA RevokePairingSound ==
  ASSUME NEW p, Sound(p), NEW a \in Accounts, NEW h \in Nat, NEW b \in Nat
  PROVE  Sound(RevokePairing(p, a, h, b).plane) /\ KeepsSpent(p, RevokePairing(p, a, h, b).plane)
<1> DEFINE found == {r \in p.pairings : r.host = h /\ r.phone = b}
           mark == [owner |-> a, host |-> h, phone |-> b, revoked |-> TRUE]
           marked == {[r EXCEPT !.revoked = TRUE] : r \in found}
           rows == (p.pairings \ found) \cup {mark} \cup marked
           q == [p EXCEPT !.pairings = rows]
<1>1. RevokePairing(p, a, h, b).plane = q
  BY DEF RevokePairing, Answer
<1>2. p.pairings \subseteq Pairing
  BY DEF Sound, Plane
<1>3. \A r \in {mark} \cup marked : r \in Pairing /\ r.host = h /\ r.phone = b /\ r.revoked
  <2>1. mark \in Pairing /\ mark.host = h /\ mark.phone = b /\ mark.revoked
    BY DEF Pairing
  <2>2. \A r \in found : LET t == [r EXCEPT !.revoked = TRUE]
                         IN  t \in Pairing /\ t.host = h /\ t.phone = b /\ t.revoked
    BY <1>2 DEF Pairing
  <2> QED BY <2>1, <2>2
<1>4. rows \in SUBSET Pairing
  BY <1>2, <1>3
<1>5. q.pairings = rows /\ q.devices = p.devices
  BY PairingsOf DEF Sound
<1> HIDE DEF mark, marked, q
<1>6. PairingsSound(q)
  BY <1>3, <1>5 DEF Sound, PairingsSound, HasBothEnds
<1> QED BY <1>1, <1>4, <1>6, OnlyPairings DEF q

LEMMA DeleteRevokedPairingsSound ==
  ASSUME NEW p, Sound(p), NEW a, NEW h, NEW b
  PROVE  /\ Sound(DeleteRevokedPairings(p, a, h, b).plane)
         /\ KeepsSpent(p, DeleteRevokedPairings(p, a, h, b).plane)
<1> DEFINE rows == {r \in p.pairings : ~(r \in Between(p, a, h, b) /\ r.revoked)}
           q == [p EXCEPT !.pairings = rows]
<1>1. DeleteRevokedPairings(p, a, h, b).plane = q
  BY DEF DeleteRevokedPairings, Answer
<1>2. rows \in SUBSET Pairing
  BY DEF Sound, Plane
<1>3. q.pairings = rows /\ q.devices = p.devices
  BY PairingsOf DEF Sound
<1> HIDE DEF q
<1>4. PairingsSound(q)
  BY <1>3 DEF Sound, PairingsSound, HasBothEnds
<1> QED BY <1>1, <1>2, <1>4, OnlyPairings DEF q

\* Only approvals, and perhaps the next id, change.
LEMMA OnlyApprovals ==
  ASSUME NEW p, Sound(p), NEW q \in Plane, p.next <= q.next, q.devices = p.devices,
         q.codes = p.codes, q.pairings = p.pairings, ApprovalsSound(q)
  PROVE  Sound(q) /\ KeepsSpent(p, q)
<1>1. p.devices \subseteq Device /\ p.codes \subseteq Code /\ p.next \in Nat /\ q.next \in Nat
  BY DEF Sound, Plane
<1> QED BY <1>1 DEF Sound, Device, Code, DevicesSound, CodesSound, OwnIds, PairingsSound,
           HasBothEnds, KeepsSpent

LEMMA InsertApprovalSound ==
  ASSUME NEW p, Sound(p), NEW a \in Accounts, NEW h \in Nat, NEW b \in Nat
  PROVE  Sound(InsertApproval(p, a, h, b).plane) /\ KeepsSpent(p, InsertApproval(p, a, h, b).plane)
<1> DEFINE pending == {r \in PendingApprovals(p, h) : r.requester = b}
           new == [id |-> p.next, owner |-> a, host |-> h, requester |-> b, status |-> "pending"]
           rows == p.approvals \cup {new}
           n == p.next + 1
           q == [p EXCEPT !.approvals = rows, !.next = n]
<1>1. CASE pending # {}
  BY <1>1 DEF InsertApproval, Answer, KeepsSpent, Sound, CodesSound, OwnIds
<1>2. CASE pending = {}
  <2>1. InsertApproval(p, a, h, b).plane = q
    BY <1>2 DEF InsertApproval, Answer
  <2>2. new \in Approval /\ p.next \in Nat
    BY DEF Sound, Plane, Approval
  <2>3. rows \in SUBSET Approval /\ n \in Nat /\ p.next <= n
    BY <2>2 DEF Sound, Plane
  <2>4. \A r \in p.approvals : ~(r.host = h /\ r.status = "pending" /\ r.requester = b)
    BY <1>2 DEF PendingApprovals
  <2> HIDE DEF rows, n
  <2>5. /\ q \in Plane /\ q.next = n /\ q.devices = p.devices /\ q.codes = p.codes
        /\ q.pairings = p.pairings /\ q.approvals = rows
    BY <2>3 DEF Sound, Plane
  <2> HIDE DEF q
  <2>6. ApprovalsSound(q)
    BY <2>4, <2>5 DEF rows, Sound, ApprovalsSound
  <2> QED BY <2>1, <2>3, <2>5, <2>6, OnlyApprovals
<1> QED BY <1>1, <1>2

LEMMA MarkApprovalSound ==
  ASSUME NEW p, Sound(p), NEW id, NEW s \in {"approved", "rejected", "expired"}
  PROVE  Sound(MarkApproval(p, id, s).plane) /\ KeepsSpent(p, MarkApproval(p, id, s).plane)
<1> DEFINE Marked(r) == IF r.id = id THEN [r EXCEPT !.status = s] ELSE r
           rows == {Marked(r) : r \in p.approvals}
           q == [p EXCEPT !.approvals = rows]
<1>1. MarkApproval(p, id, s).plane = q
  BY DEF MarkApproval, Answer
<1>2. \A r \in p.approvals :
        Marked(r) \in Approval /\ (Marked(r).status = "pending" => Marked(r) = r)
  BY DEF Sound, Plane, Approval
<1> HIDE DEF Marked
<1>3. rows \in SUBSET Approval
  BY <1>2
<1> HIDE DEF rows
<1>4. /\ q \in Plane /\ q.next = p.next /\ q.devices = p.devices /\ q.codes = p.codes
      /\ q.pairings = p.pairings /\ q.approvals = rows
  BY <1>3 DEF Sound, Plane
<1> HIDE DEF q
<1>5. ApprovalsSound(q)
  BY <1>2, <1>4 DEF rows, Sound, ApprovalsSound
<1>6. p.next <= q.next
  BY <1>4 DEF Sound, Plane
<1> QED BY <1>1, <1>4, <1>5, <1>6, OnlyApprovals
=============================================================================
