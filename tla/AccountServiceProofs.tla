------------------------ MODULE AccountServiceProofs ------------------------
(***************************************************************************)
(* The account service and its callers.  The tables agree with each other  *)
(* after any mutations (Sound of AccountPlaneProofs is the inductive       *)
(* invariant).  A link code kept in a browser serves the person it was     *)
(* shown to.  And of the access of one browser to one Mac: what a person   *)
(* was told about it holds everywhere, and the handlers that keep it use   *)
(* the account service as it promises.                                     *)
(***************************************************************************)
EXTENDS MCAccountService, AccountPlaneProofs

LEMMA StartSound == ASSUME Init PROVE Sound(plane)
BY StartAssumption DEF Init, Sound, Plane, Device, DevicesSound, CodesSound, OwnIds,
   PairingsSound, ApprovalsSound

LEMMA IdsAreNat ==
  ASSUME plane \in Plane
  PROVE  Ids \subseteq Nat /\ \A kinds : RowIds(kinds) \subseteq Nat
BY DEF Plane, Ids, RowIds

\* What a step leaves, for the invariant and for what a step may not do.
LEMMA StepSound ==
  ASSUME Sound(plane), [Next]_plane
  PROVE  Sound(plane') /\ KeepsSpent(plane, plane')
<1>0. plane \in Plane
  BY DEF Sound
<1>1. CASE Registers
  <2>1. PICK a \in Accounts, d \in Hosts \cup Browsers :
               plane' = UpsertDevice(plane, a, d).plane
    BY <1>1 DEF Registers
  <2> QED BY <2>1, UpsertDeviceSound
<1>2. CASE Removes
  BY <1>0, <1>2, RemoveHostSound, DeleteDeviceSound, IdsAreNat DEF Removes
<1>3. CASE CreatesCode
  BY <1>3, CreateCodeSound DEF CreatesCode
<1>4. CASE ClaimsCode
  BY <1>4, ClaimCodeSound DEF ClaimsCode
<1>5. CASE CodeExpires
  <2>1. PICK r \in plane.codes : plane' = ExpireCode(plane, r)
    BY <1>5 DEF CodeExpires
  <2> QED BY <2>1, SpendCodeSound DEF ExpireCode
<1>6. CASE PrunesCodes
  <2>1. PICK spent : plane' = PruneCodes(plane, spent)
    BY <1>6 DEF PrunesCodes
  <2>2. plane' = [plane EXCEPT !.codes = plane.codes \ spent] /\ plane.codes \ spent \subseteq plane.codes
    BY <2>1 DEF PruneCodes
  <2> QED BY <2>2, DropCodesSound
<1>7. CASE DeletesCodes
  <2>1. PICK h \in Hosts : plane' = DeleteCodes(plane, h).plane
    BY <1>7 DEF DeletesCodes
  <2> DEFINE spent == {r \in plane.codes : r.host # h}
  <2>2. plane' = [plane EXCEPT !.codes = spent] /\ spent \subseteq plane.codes
    BY <2>1 DEF DeleteCodes, Answer
  <2> HIDE DEF spent
  <2> QED BY <2>2, DropCodesSound
<1>8. CASE Pairs
  BY <1>0, <1>8, EnsurePairingSound, IdsAreNat DEF Pairs
<1>9. CASE Revokes
  <2>1. PICK r \in plane.devices, b \in RowIds(Browsers) :
               plane' = RevokePairing(plane, r.owner, r.id, b).plane
    BY <1>9 DEF Revokes
  <2>2. r.owner \in Accounts /\ r.id \in Nat /\ b \in Nat
    BY <1>0, IdsAreNat DEF Plane, Device
  <2> QED BY <2>1, <2>2, RevokePairingSound
<1>10. CASE Restores
  BY <1>10, DeleteRevokedPairingsSound DEF Restores
<1>11. CASE AsksApproval
  BY <1>0, <1>11, InsertApprovalSound, IdsAreNat DEF AsksApproval
<1>12. CASE Decides
  BY <1>12, MarkApprovalSound DEF Decides
<1>13. CASE UNCHANGED plane
  BY <1>13 DEF KeepsSpent, Sound, CodesSound, OwnIds
<1> QED BY <1>1, <1>2, <1>3, <1>4, <1>5, <1>6, <1>7, <1>8, <1>9, <1>10, <1>11, <1>12, <1>13
        DEF Next

\* The account service's tables are sound whatever mutations ran.
LEMMA AlwaysSound == Spec => []Sound(plane)
<1>1. Init => Sound(plane)
  BY StartSound
<1>2. Sound(plane) /\ [Next]_plane => Sound(plane)'
  BY StepSound
<1> QED BY <1>1, <1>2, PTL DEF Spec

\* However registrations, removals, claims, revocations and approvals of any
\* accounts interleave, the tables agree with each other (accountPlane.ts).
THEOREM TablesAlwaysAgree == Spec => []TablesAgree
<1>1. Sound(plane) => TablesAgree
  BY DEF Sound, DevicesSound, CodesSound, PairingsSound, ApprovalsSound, HasBothEnds,
     TablesAgree, TypeOK, OneRowPerDevice, OneLiveRowPerCode, ActivePairingHasBothEnds,
     RevokedIsNotPaired, OnePendingApproval
<1> QED BY <1>1, AlwaysSound, PTL

\* No later mutation makes a claimed or expired link code work again
\* (createHostLinkCode, claimHostLinkCode).
THEOREM SpentCodesNeverReturn == Spec => SpentCodesStaySpent
<1>1. Sound(plane) /\ [Next]_plane
        => [\A r \in plane.codes, s \in plane'.codes :
              r.id = s.id /\ r.state # "live" => s.state # "live"]_plane
  BY StepSound DEF KeepsSpent
<1> QED BY <1>1, AlwaysSound, PTL DEF Spec, SpentCodesStaySpent

-----------------------------------------------------------------------------
(* The code a Mac opens the browser with (LinkCodes, with the names        *)
(* MCAccountService gives its variables).                                  *)

USE CodeAssumption

Known == opened \cup {None}
Named == Accounts \cup {None}
PageOf == [url : Known, form : Known, moved : Known, user : Named, forgot : BOOLEAN, sending : SUBSET Accounts]
Entry == [code : Known, savedAt : Nat, email : Named]

LinkTypes ==
  /\ now \in Nat /\ opened \subseteq PageCodes /\ session \in Named
  /\ kept \in Entry /\ kept.savedAt <= now /\ (kept.code = None => kept = Links!NoEntry)
  /\ tab \in [Tabs -> PageOf]

\* A code that one page or the storage holds, no other place holds.
HeldOnce ==
  \A t \in Tabs :
    /\ tab[t].url # None => tab[t].url # kept.code /\ \A u \in Tabs :
          tab[t].url # tab[u].form /\ (tab[t].url = tab[u].url => t = u)
    /\ tab[t].form # None => tab[t].form # kept.code /\ \A u \in Tabs :
          tab[t].form = tab[u].form => t = u

\* The address a kept code is bound to was named for it, and so is each that a
\* reset still under way may bind it to.
EmailNamed == kept.email # None => <<kept.code, kept.email>> \in named
SendingNamed == \A t \in Tabs : tab[t].moved # None => \A a \in tab[t].sending : <<tab[t].moved, a>> \in named

LinkInv == LinkTypes /\ HeldOnce /\ EmailNamed /\ SendingNamed /\ taken \subseteq named

\* What the storage holds, read fresh, is what it held or nothing.
LEMMA FreshEntry ==
  ASSUME LinkTypes
  PROVE  Links!Fresh \in {kept, Links!NoEntry} /\ Links!NoEntry \in Entry
         /\ Links!NoEntry.code = None /\ Links!NoEntry.email = None /\ Links!NoEntry.savedAt = 0
BY DEF Links!Fresh, Links!NoEntry, Entry, Known, Named, LinkTypes

\* A page changes, codes stay where they were or are gone.
LEMMA PageKeeps ==
  ASSUME LinkInv, NEW t \in Tabs, NEW p \in PageOf, tab' = [tab EXCEPT ![t] = p],
         opened' = opened, named' = named, taken' = taken, now' = now, session' \in Named,
         kept' \in {kept, Links!NoEntry} \/
           (kept' = [kept EXCEPT !.email = kept'.email] /\ kept.code # None /\ kept'.email \in Accounts
            /\ <<kept.code, kept'.email>> \in named),
         p.url \in {tab[t].url, None}, p.moved \in {tab[t].moved, None},
         p.form \in {tab[t].form, None} \/ (p.form = tab[t].url /\ p.url = None),
         p.sending \subseteq tab[t].sending
  PROVE  LinkInv'
<1>1. LinkTypes /\ HeldOnce /\ EmailNamed /\ SendingNamed /\ taken \subseteq named
  BY DEF LinkInv
<1>2. kept' \in Entry /\ kept'.code \in {kept.code, None} /\ kept'.savedAt \in {kept.savedAt, 0}
      /\ (kept'.code = None => kept' = Links!NoEntry)
      /\ (kept'.email # None => <<kept'.code, kept'.email>> \in named)
  <2>1. CASE kept' \in {kept, Links!NoEntry}
    BY <1>1, <2>1, FreshEntry DEF LinkTypes, EmailNamed
  <2>2. CASE kept' = [kept EXCEPT !.email = kept'.email] /\ kept.code # None /\ kept'.email \in Accounts
             /\ <<kept.code, kept'.email>> \in named
    BY <1>1, <2>2 DEF LinkTypes, Entry, Named
  <2> QED BY <2>1, <2>2
<1>3. /\ tab \in [Tabs -> PageOf] /\ tab'[t] = p /\ \A u \in Tabs \ {t} : tab'[u] = tab[u]
      /\ tab' \in [Tabs -> PageOf]
  BY <1>1 DEF LinkTypes
<1>4. LinkTypes'
  <2>1. Known' = Known /\ Entry' = Entry /\ PageOf' = PageOf
    BY DEF Known, Entry, PageOf
  <2>2. kept'.savedAt <= now'
    BY <1>1, <1>2 DEF LinkTypes, Entry
  <2> QED BY <1>1, <1>2, <1>3, <2>1, <2>2 DEF LinkTypes, Links!NoEntry
<1>5. HeldOnce'
  BY <1>1, <1>2, <1>3 DEF HeldOnce
<1>6. EmailNamed' /\ SendingNamed'
  BY <1>1, <1>2, <1>3 DEF EmailNamed, SendingNamed
<1> QED BY <1>1, <1>4, <1>5, <1>6 DEF LinkInv

\* The fields of a page after a change to it.
LEMMA PageTypes ==
  ASSUME LinkTypes, NEW t \in Tabs
  PROVE  /\ tab[t] \in PageOf /\ tab[t].url \in Known /\ tab[t].form \in Known /\ tab[t].moved \in Known
         /\ tab[t].user \in Named /\ tab[t].sending \subseteq Accounts /\ tab[t].forgot \in BOOLEAN
         /\ Links!Page \in PageOf
         /\ \A p \in PageOf, c \in Known, a \in Named, s \in SUBSET Accounts :
              /\ [p EXCEPT !.url = c] \in PageOf /\ [p EXCEPT !.form = c] \in PageOf
              /\ [p EXCEPT !.moved = c] \in PageOf /\ [p EXCEPT !.user = a] \in PageOf
              /\ [p EXCEPT !.forgot = FALSE] \in PageOf /\ [p EXCEPT !.forgot = TRUE] \in PageOf
              /\ [p EXCEPT !.sending = s] \in PageOf
<1>1. tab[t] \in PageOf
  BY DEF LinkTypes
<1>2. None \in Known /\ None \in Named /\ {} \in SUBSET Accounts /\ FALSE \in BOOLEAN /\ TRUE \in BOOLEAN
  BY DEF Known, Named
<1>3. Links!Page \in PageOf
  BY <1>2 DEF Links!Page, PageOf
<1>4. \A p \in PageOf, c \in Known, a \in Named, s \in SUBSET Accounts :
        /\ [p EXCEPT !.url = c] \in PageOf /\ [p EXCEPT !.form = c] \in PageOf
        /\ [p EXCEPT !.moved = c] \in PageOf /\ [p EXCEPT !.user = a] \in PageOf
        /\ [p EXCEPT !.sending = s] \in PageOf
  BY DEF PageOf
<1>5. \A p \in PageOf :
        [p EXCEPT !.forgot = FALSE] \in PageOf /\ [p EXCEPT !.forgot = TRUE] \in PageOf
  BY DEF PageOf
<1>6. /\ tab[t].url \in Known /\ tab[t].form \in Known /\ tab[t].moved \in Known
      /\ tab[t].user \in Named /\ tab[t].sending \subseteq Accounts
  BY <1>1 DEF PageOf
<1>7. tab[t].forgot \in BOOLEAN
  BY <1>1 DEF PageOf
<1> QED BY <1>1, <1>3, <1>4, <1>5, <1>6, <1>7

LEMMA CloseForgotKeeps == ASSUME LinkInv, NEW t \in Tabs, Links!CloseForgot(t) PROVE LinkInv'
<1>1. LinkTypes /\ session \in Named
  BY DEF LinkInv, LinkTypes
<1>2. PICK p : p = [tab[t] EXCEPT !.forgot = FALSE]
  OBVIOUS
<1>3. p \in PageOf /\ p.url = tab[t].url /\ p.form = tab[t].form /\ p.moved = tab[t].moved
      /\ p.sending = tab[t].sending
  <2>1. tab[t] \in PageOf /\ tab[t].url \in Known
    BY <1>1, PageTypes
  <2> QED BY <1>1, <1>2, <2>1 DEF PageOf
<1>4. /\ tab' = [tab EXCEPT ![t] = p]
      /\ UNCHANGED <<kept, session, now, opened, named, taken>>
  BY <1>2 DEF Links!CloseForgot
<1> QED BY <1>1, <1>3, <1>4, PageKeeps

LEMMA ResetAnsweredKeeps == ASSUME LinkInv, NEW t \in Tabs, Links!ResetAnswered(t) PROVE LinkInv'
<1>1. LinkTypes /\ session \in Named /\ SendingNamed
  BY DEF LinkInv, LinkTypes
<1>2. PICK a \in tab[t].sending : /\ tab' = [tab EXCEPT ![t].sending = tab[t].sending \ {a}]
                                  /\ kept' \in {Links!Bind(t, a), kept}
  BY DEF Links!ResetAnswered
<1>3. PICK p : p = [tab[t] EXCEPT !.sending = tab[t].sending \ {a}]
  OBVIOUS
<1>4. tab[t].sending \ {a} \in SUBSET Accounts
  BY <1>1, PageTypes
<1>5. p \in PageOf /\ p.url = tab[t].url /\ p.form = tab[t].form /\ p.moved = tab[t].moved
      /\ p.sending \subseteq tab[t].sending
  <2>1. p \in PageOf
    BY <1>1, <1>3, <1>4, PageTypes
  <2> QED BY <1>1, <1>3, <2>1, PageTypes DEF PageOf
<1>6. tab' = [tab EXCEPT ![t] = p] /\ UNCHANGED <<session, now, opened, named, taken>>
  BY <1>2, <1>3 DEF Links!ResetAnswered
<1>7. kept' \in {kept, Links!NoEntry} \/
        (kept' = [kept EXCEPT !.email = kept'.email] /\ kept.code # None /\ kept'.email \in Accounts
         /\ <<kept.code, kept'.email>> \in named)
  <2>1. CASE kept' = Links!Bind(t, a) /\ tab[t].moved # None /\ Links!Fresh.code = tab[t].moved
    <3>1. Links!Fresh = kept
      BY <1>1, <2>1, FreshEntry
    <3>2. kept' = [kept EXCEPT !.email = a] /\ kept.code = tab[t].moved
      BY <2>1, <3>1 DEF Links!Bind
    <3>3. kept'.email = a
      BY <1>1, <3>2 DEF LinkTypes, Entry
    <3>4. a \in Accounts /\ <<kept.code, a>> \in named
      BY <1>1, <2>1, <3>2, PageTypes DEF SendingNamed
    <3> QED BY <2>1, <3>2, <3>3, <3>4
  <2>2. CASE kept' = kept \/ tab[t].moved = None \/ Links!Fresh.code # tab[t].moved
    BY <1>1, <1>2, <2>2, FreshEntry DEF Links!Bind
  <2> QED BY <1>2, <2>1, <2>2
<1> QED BY <1>1, <1>5, <1>6, <1>7, PageKeeps

LEMMA AdoptKeeps == ASSUME LinkInv, NEW t \in Tabs, Links!Adopt(t) PROVE LinkInv'
<1>1. LinkTypes /\ session \in Named /\ None \in Known
  BY DEF LinkInv, LinkTypes, Known
<1>2. PICK p : p = [tab[t] EXCEPT !.user = session, !.form = None, !.forgot = FALSE]
  OBVIOUS
<1>3. p \in PageOf /\ p.url = tab[t].url /\ p.form = None /\ p.moved = tab[t].moved
      /\ p.sending = tab[t].sending
  <2>1. tab[t] \in PageOf /\ tab[t].url \in Known
    BY <1>1, PageTypes
  <2> QED BY <1>1, <1>2, <2>1 DEF PageOf
<1>4. /\ tab' = [tab EXCEPT ![t] = p]
      /\ UNCHANGED <<kept, session, now, opened, named, taken>>
  BY <1>1, <1>2 DEF Links!Adopt, LinkTypes
<1> QED BY <1>1, <1>3, <1>4, PageKeeps

LEMMA SignOutKeeps == ASSUME LinkInv, NEW t \in Tabs, Links!SignOut(t) PROVE LinkInv'
<1>1. LinkTypes /\ None \in Known /\ None \in Named
  BY DEF LinkInv, LinkTypes, Known, Named
<1>2. PICK p : p = [tab[t] EXCEPT !.user = None, !.form = None, !.moved = None]
  OBVIOUS
<1>3. p \in PageOf /\ p.url = tab[t].url /\ p.form = None /\ p.moved = None
      /\ p.sending = tab[t].sending
  <2>1. tab[t] \in PageOf /\ tab[t].url \in Known
    BY <1>1, PageTypes
  <2> QED BY <1>1, <1>2, <2>1 DEF PageOf
<1>4. /\ tab' = [tab EXCEPT ![t] = p] /\ kept' = Links!NoEntry /\ session' = None
      /\ UNCHANGED <<now, opened, named, taken>>
  BY <1>1, <1>2 DEF Links!SignOut, LinkTypes
<1> QED BY <1>1, <1>3, <1>4, PageKeeps

LEMMA TakeCodeKeeps == ASSUME LinkInv, NEW t \in Tabs, Links!TakeCode(t) PROVE LinkInv'
<1>1. LinkTypes /\ None \in Known /\ session \in Named /\ tab[t].url \in Known
  BY PageTypes DEF LinkInv, LinkTypes, Known
<1>2. PICK p : p = [tab[t] EXCEPT !.url = None, !.form = tab[t].url]
  OBVIOUS
<1>3. p \in PageOf /\ p.url = None /\ p.form = tab[t].url /\ p.moved = tab[t].moved
      /\ p.sending = tab[t].sending
  <2>1. tab[t] \in PageOf /\ tab[t].url \in Known
    BY <1>1, PageTypes
  <2> QED BY <1>1, <1>2, <2>1 DEF PageOf
<1>4. /\ tab' = [tab EXCEPT ![t] = p]
      /\ UNCHANGED <<kept, session, now, opened, named, taken>>
  BY <1>1, <1>2 DEF Links!TakeCode, LinkTypes
<1> QED BY <1>1, <1>3, <1>4, PageKeeps

LEMMA ClaimKeeps == ASSUME LinkInv, NEW t \in Tabs, Links!Claim(t) PROVE LinkInv'
<1>1. LinkTypes /\ None \in Known /\ session \in Named /\ tab[t].moved \in Known
  BY PageTypes DEF LinkInv, LinkTypes, Known
<1>2. PICK m : m = IF tab[t].moved = tab[t].form THEN None ELSE tab[t].moved
  OBVIOUS
<1>3. PICK p : p = [tab[t] EXCEPT !.form = None, !.moved = m]
  OBVIOUS
<1>4. p \in PageOf /\ p.url = tab[t].url /\ p.form = None /\ p.moved \in {tab[t].moved, None}
      /\ p.sending = tab[t].sending
  <2>1. m \in Known /\ m \in {tab[t].moved, None}
    BY <1>1, <1>2
  <2>2. p \in PageOf
    BY <1>1, <1>3, <2>1, PageTypes
  <2> QED BY <1>1, <1>3, <2>1, <2>2, PageTypes DEF PageOf
<1>5. /\ tab' = [tab EXCEPT ![t] = p] /\ kept' \in {kept, Links!NoEntry}
      /\ UNCHANGED <<session, now, opened, named, taken>>
  BY <1>1, <1>2, <1>3 DEF Links!Claim, Links!Cleared, LinkTypes
<1> QED BY <1>1, <1>4, <1>5, PageKeeps

LEMMA ReloadKeeps == ASSUME LinkInv, NEW t \in Tabs, Links!Reload(t) PROVE LinkInv'
<1>1. LinkTypes /\ session \in Named /\ tab[t].url \in Known
  BY PageTypes DEF LinkInv, LinkTypes
<1>2. PICK p : p = [Links!Page EXCEPT !.url = tab[t].url, !.user = session]
  OBVIOUS
<1>3. p \in PageOf /\ p.url = tab[t].url /\ p.form = None /\ p.moved = None /\ p.sending = {}
  BY <1>1, <1>2, PageTypes DEF PageOf, Links!Page
<1>4. /\ tab' = [tab EXCEPT ![t] = p]
      /\ UNCHANGED <<kept, session, now, opened, named, taken>>
  BY <1>1, <1>2 DEF Links!Reload, LinkTypes
<1> QED BY <1>1, <1>3, <1>4, PageKeeps

\* Addresses are named for a code, and one may be in an email under way.
LEMMA RequestResetKeeps ==
  ASSUME LinkInv, NEW t \in Tabs, NEW a \in Accounts, Links!RequestReset(t, a) PROVE LinkInv'
<1>1. LinkTypes /\ HeldOnce /\ EmailNamed /\ SendingNamed /\ taken \subseteq named
  BY DEF LinkInv
<1>2. /\ tab' = [tab EXCEPT ![t].sending = tab[t].sending \cup {a}]
      /\ named' = IF tab[t].moved = None THEN named ELSE named \cup {<<tab[t].moved, a>>}
      /\ UNCHANGED <<kept, session, now, opened, taken>>
  BY DEF Links!RequestReset
<1>3. PICK p : p = [tab[t] EXCEPT !.sending = tab[t].sending \cup {a}]
  OBVIOUS
<1>4. tab[t].sending \cup {a} \in SUBSET Accounts
  BY <1>1, PageTypes
<1>5. p \in PageOf /\ p.url = tab[t].url /\ p.form = tab[t].form /\ p.moved = tab[t].moved
      /\ p.sending = tab[t].sending \cup {a}
  <2>1. p \in PageOf
    BY <1>1, <1>3, <1>4, PageTypes
  <2> QED BY <1>1, <1>3, <2>1, PageTypes DEF PageOf
<1>6. /\ tab' = [tab EXCEPT ![t] = p] /\ tab'[t] = p /\ \A u \in Tabs \ {t} : tab'[u] = tab[u]
      /\ tab' \in [Tabs -> PageOf]
  BY <1>1, <1>2, <1>3, <1>5 DEF LinkTypes
<1>7. named \subseteq named' /\ (tab[t].moved # None => <<tab[t].moved, a>> \in named')
  BY <1>2
<1>8. LinkTypes'
  <2>1. Known' = Known /\ Entry' = Entry /\ PageOf' = PageOf
    BY <1>2 DEF Known, Entry, PageOf
  <2> QED BY <1>1, <1>2, <1>6, <2>1 DEF LinkTypes, Links!NoEntry
<1>9. HeldOnce'
  BY <1>1, <1>2, <1>5, <1>6 DEF HeldOnce
<1>10. EmailNamed' /\ SendingNamed'
  BY <1>1, <1>2, <1>5, <1>6, <1>7 DEF EmailNamed, SendingNamed
<1> QED BY <1>1, <1>2, <1>7, <1>8, <1>9, <1>10 DEF LinkInv

\* The code leaves the address bar for the storage, bound to the address named.
LEMMA OpenForgotKeeps ==
  ASSUME LinkInv, NEW t \in Tabs, NEW a \in Named, Links!OpenForgot(t, a) PROVE LinkInv'
<1>1. LinkTypes /\ HeldOnce /\ EmailNamed /\ SendingNamed /\ taken \subseteq named
  BY DEF LinkInv
<1>2. session \in Named /\ now \in Nat /\ tab[t] \in PageOf /\ tab[t].url \in Known /\ None \in Known
  BY <1>1, PageTypes DEF LinkTypes, Known
<1>3. UNCHANGED <<session, now, opened, taken>>
  BY DEF Links!OpenForgot
<1>4. CASE tab[t].url = None
  <2>1. PICK p : p = [tab[t] EXCEPT !.forgot = TRUE]
    OBVIOUS
  <2>2. p \in PageOf /\ p.url = tab[t].url /\ p.form = tab[t].form /\ p.moved = tab[t].moved
        /\ p.sending = tab[t].sending
    <3>1. p \in PageOf
      BY <1>1, <1>2, <2>1, PageTypes
    <3> QED BY <1>2, <2>1, <3>1 DEF PageOf
  <2>3. tab' = [tab EXCEPT ![t] = p] /\ UNCHANGED <<kept, named>>
    BY <1>1, <1>4, <2>1 DEF Links!OpenForgot, LinkTypes
  <2> QED BY <1>2, <1>3, <2>2, <2>3, PageKeeps
<1>5. CASE tab[t].url # None
  <2>1. /\ kept' = [code |-> tab[t].url, savedAt |-> now, email |-> a]
        /\ named' = named \cup ({tab[t].url} \X ({a} \cup tab[t].sending))
        /\ tab' = [tab EXCEPT ![t].forgot = TRUE, ![t].url = None, ![t].moved = tab[t].url]
    BY <1>5 DEF Links!OpenForgot
  <2>2. PICK p : p = [tab[t] EXCEPT !.forgot = TRUE, !.url = None, !.moved = tab[t].url]
    OBVIOUS
  <2>3. p \in PageOf /\ p.url = None /\ p.form = tab[t].form /\ p.moved = tab[t].url
        /\ p.sending = tab[t].sending
    <3>1. p \in PageOf
      BY <1>1, <1>2, <2>2, PageTypes
    <3> QED BY <1>1, <1>2, <2>2, <3>1, PageTypes DEF PageOf
  <2>4. /\ tab' = [tab EXCEPT ![t] = p] /\ tab'[t] = p /\ \A u \in Tabs \ {t} : tab'[u] = tab[u]
        /\ tab' \in [Tabs -> PageOf]
    BY <1>1, <2>1, <2>2, <2>3 DEF LinkTypes
  <2>5. kept' \in Entry /\ kept'.code = tab[t].url /\ kept'.savedAt = now /\ kept'.email = a
    BY <1>2, <2>1 DEF Entry
  <2>6. LinkTypes'
    <3>1. Known' = Known /\ Entry' = Entry /\ PageOf' = PageOf
      BY <1>3 DEF Known, Entry, PageOf
    <3> QED BY <1>1, <1>2, <1>3, <1>5, <2>4, <2>5, <3>1 DEF LinkTypes
  <2>7. HeldOnce'
    BY <1>1, <1>5, <2>3, <2>4, <2>5 DEF HeldOnce
  <2>8. EmailNamed' /\ SendingNamed'
    <3>1. \A e \in {a} \cup tab[t].sending : <<tab[t].url, e>> \in named'
      BY <2>1
    <3>2. named \subseteq named'
      BY <2>1
    <3> QED BY <1>1, <2>3, <2>4, <2>5, <3>1, <3>2 DEF EmailNamed, SendingNamed
  <2> QED BY <1>1, <1>3, <2>1, <2>6, <2>7, <2>8 DEF LinkInv
<1> QED BY <1>4, <1>5

\* A sign-in to the account a kept code is bound to puts it into the address bar.
LEMMA SignInKeeps ==
  ASSUME LinkInv, NEW t \in Tabs, NEW a \in Accounts, Links!SignIn(t, a) PROVE LinkInv'
<1>1. LinkTypes /\ HeldOnce /\ EmailNamed /\ SendingNamed /\ taken \subseteq named
  BY DEF LinkInv
<1>2. a \in Named /\ now \in Nat /\ tab[t] \in PageOf /\ None \in Known /\ kept.code \in Known
  BY <1>1, PageTypes DEF LinkTypes, Known, Named, Entry
<1>3. session' = a /\ UNCHANGED <<now, opened, named>>
  BY DEF Links!SignIn
<1>4. CASE ~Links!IsRestored(t, a)
  <2>1. PICK p : p = [tab[t] EXCEPT !.user = a, !.forgot = FALSE]
    OBVIOUS
  <2>2. p \in PageOf /\ p.url = tab[t].url /\ p.form = tab[t].form /\ p.moved = tab[t].moved
        /\ p.sending = tab[t].sending
    BY <1>1, <1>2, <2>1, PageTypes DEF PageOf
  <2>3. /\ tab' = [tab EXCEPT ![t] = p] /\ UNCHANGED taken
        /\ kept' = IF tab[t].url = None THEN Links!Fresh ELSE kept
    BY <1>1, <1>4, <2>1 DEF Links!SignIn, LinkTypes
  <2>4. kept' \in {kept, Links!NoEntry}
    BY <1>1, <2>3, FreshEntry
  <2> QED BY <1>2, <1>3, <2>2, <2>3, <2>4, PageKeeps
<1>5. CASE Links!IsRestored(t, a)
  <2>1. tab[t].url = None /\ kept.code # None /\ kept.email = a
    BY <1>1, <1>5, FreshEntry DEF Links!IsRestored
  <2>2. /\ kept' = Links!NoEntry /\ taken' = taken \cup {<<kept.code, a>>}
        /\ tab' = [tab EXCEPT ![t].user = a, ![t].forgot = FALSE, ![t].url = kept.code, ![t].moved = None]
    BY <1>5 DEF Links!SignIn, Links!Taken
  <2>3. PICK p : p = [tab[t] EXCEPT !.user = a, !.forgot = FALSE, !.url = kept.code, !.moved = None]
    OBVIOUS
  <2>4. p \in PageOf /\ p.url = kept.code /\ p.form = tab[t].form /\ p.moved = None
    <3>1. p \in PageOf
      BY <1>1, <1>2, <2>3, PageTypes
    <3> QED BY <1>1, <1>2, <2>3, <3>1, PageTypes DEF PageOf
  <2>5. /\ tab' = [tab EXCEPT ![t] = p] /\ tab'[t] = p /\ \A u \in Tabs \ {t} : tab'[u] = tab[u]
        /\ tab' \in [Tabs -> PageOf]
    BY <1>1, <2>2, <2>3, <2>4 DEF LinkTypes
  <2>6. kept' \in Entry /\ kept'.code = None /\ kept'.savedAt = 0 /\ kept'.email = None
    BY <1>1, <2>2, FreshEntry
  <2>7. LinkTypes'
    <3>1. Known' = Known /\ Entry' = Entry /\ PageOf' = PageOf
      BY <1>3 DEF Known, Entry, PageOf
    <3> QED BY <1>1, <1>2, <1>3, <2>2, <2>5, <2>6, <3>1 DEF LinkTypes, Links!NoEntry
  <2>8. HeldOnce'
    BY <1>1, <2>1, <2>4, <2>5, <2>6 DEF HeldOnce
  <2>9. EmailNamed' /\ SendingNamed'
    BY <1>1, <1>3, <2>4, <2>5, <2>6 DEF EmailNamed, SendingNamed
  <2>10. <<kept.code, a>> \in named
    BY <1>1, <2>1 DEF EmailNamed
  <2> QED BY <1>1, <1>3, <2>2, <2>7, <2>8, <2>9, <2>10 DEF LinkInv
<1> QED BY <1>4, <1>5

\* A Mac opens the browser with a code of its own.
LEMMA FromMacKeeps ==
  ASSUME LinkInv, NEW t \in Tabs, NEW c \in PageCodes, Links!FromMac(t, c) PROVE LinkInv'
<1>1. LinkTypes /\ HeldOnce /\ EmailNamed /\ SendingNamed /\ taken \subseteq named
  BY DEF LinkInv
<1>2. /\ c \notin opened /\ opened' = opened \cup {c}
      /\ tab' = [tab EXCEPT ![t] = [Links!Page EXCEPT !.url = c, !.user = session]]
      /\ UNCHANGED <<kept, session, now, named, taken>>
  BY DEF Links!FromMac
<1>3. Known' = Known \cup {c} /\ c \notin Known /\ c # None
  BY <1>2 DEF Known
<1>4. PICK p : p = [Links!Page EXCEPT !.url = c, !.user = session]
  OBVIOUS
<1>5. p \in PageOf' /\ p.url = c /\ p.form = None /\ p.moved = None /\ p.sending = {}
  <2>1. session \in Named /\ None \in Named /\ c \in Known' /\ None \in Known'
    BY <1>1, <1>3 DEF LinkTypes, Named, Known
  <2>2. p = [url |-> c, form |-> None, moved |-> None, user |-> session, forgot |-> FALSE, sending |-> {}]
    BY <1>4 DEF Links!Page
  <2>3. FALSE \in BOOLEAN /\ {} \in SUBSET Accounts
    OBVIOUS
  <2> QED BY <2>1, <2>2, <2>3 DEF PageOf
<1>6. PageOf \subseteq PageOf' /\ Entry \subseteq Entry'
  BY <1>3 DEF PageOf, Entry
<1>7. /\ tab' = [tab EXCEPT ![t] = p] /\ tab'[t] = p /\ \A u \in Tabs \ {t} : tab'[u] = tab[u]
      /\ tab' \in [Tabs -> PageOf']
  BY <1>1, <1>2, <1>4, <1>5, <1>6 DEF LinkTypes
<1>8. LinkTypes'
  BY <1>1, <1>2, <1>6, <1>7 DEF LinkTypes, Links!NoEntry
<1>9. HeldOnce'
  <2>1. kept.code # c /\ \A u \in Tabs : tab[u].url # c /\ tab[u].form # c
    BY <1>1, <1>3, PageTypes DEF LinkTypes, Entry
  <2>2. kept'.code = kept.code /\ tab'[t].url = c /\ tab'[t].form = None
    BY <1>2, <1>5, <1>7
  <2>3. \A u \in Tabs \ {t} : tab'[u].url = tab[u].url /\ tab'[u].form = tab[u].form
    BY <1>7
  <2> QED BY <1>1, <2>1, <2>2, <2>3 DEF HeldOnce
<1>10. EmailNamed' /\ SendingNamed'
  BY <1>1, <1>2, <1>5, <1>7 DEF EmailNamed, SendingNamed
<1> QED BY <1>1, <1>2, <1>8, <1>9, <1>10 DEF LinkInv

LEMMA LinkBegins == Links!Init => LinkInv
<1> SUFFICES ASSUME Links!Init PROVE LinkInv
  OBVIOUS
<1>1. /\ tab = [t \in Tabs |-> Links!Page] /\ kept = Links!NoEntry /\ session = None
      /\ now = 0 /\ opened = {} /\ named = {} /\ taken = {}
  BY DEF Links!Init
<1>2. None \in Known /\ None \in Named /\ {} \in SUBSET Accounts /\ FALSE \in BOOLEAN
  BY DEF Known, Named
<1>3. Links!Page \in PageOf /\ Links!Page.url = None /\ Links!Page.form = None /\ Links!Page.moved = None
  BY <1>2 DEF Links!Page, PageOf
<1>4. Links!NoEntry \in Entry /\ Links!NoEntry.savedAt = 0 /\ Links!NoEntry.email = None
  BY <1>2 DEF Links!NoEntry, Entry
<1>5. LinkTypes
  BY <1>1, <1>2, <1>3, <1>4 DEF LinkTypes
<1>6. HeldOnce /\ EmailNamed /\ SendingNamed
  BY <1>1, <1>3, <1>4 DEF HeldOnce, EmailNamed, SendingNamed
<1> QED BY <1>1, <1>5, <1>6 DEF LinkInv

LEMMA LinkNext == LinkInv /\ [Links!Next]_(Links!vars) => LinkInv'
<1> SUFFICES ASSUME LinkInv, [Links!Next]_(Links!vars) PROVE LinkInv'
  OBVIOUS
<1>1. ASSUME UNCHANGED <<tab, kept, session, opened, named, taken>>, now' \in Nat, now' >= now
      PROVE  LinkInv'
  <2>1. LinkTypes'
    <3>1. Known' = Known /\ Entry' = Entry /\ PageOf' = PageOf
      BY <1>1 DEF Known, Entry, PageOf
    <3>2. kept'.savedAt <= now'
      BY <1>1 DEF LinkInv, LinkTypes, Entry
    <3> QED BY <1>1, <3>1, <3>2 DEF LinkInv, LinkTypes, Links!NoEntry
  <2>2. (HeldOnce /\ EmailNamed /\ SendingNamed)'
    BY <1>1 DEF LinkInv, HeldOnce, EmailNamed, SendingNamed
  <2> QED BY <1>1, <2>1, <2>2 DEF LinkInv
<1>2. now \in Nat
  BY DEF LinkInv, LinkTypes
<1>3. CASE UNCHANGED Links!vars
  BY <1>1, <1>2, <1>3 DEF Links!vars
<1>4. CASE Links!Tick
  BY <1>1, <1>2, <1>4 DEF Links!Tick
<1>5. ASSUME NEW t \in Tabs,
             \/ Links!CloseForgot(t) \/ Links!ResetAnswered(t) \/ Links!Adopt(t) \/ Links!SignOut(t)
             \/ Links!TakeCode(t) \/ Links!Claim(t) \/ Links!Reload(t)
      PROVE  LinkInv'
  BY <1>5, CloseForgotKeeps, ResetAnsweredKeeps, AdoptKeeps, SignOutKeeps, TakeCodeKeeps, ClaimKeeps,
     ReloadKeeps
<1>6. ASSUME NEW t \in Tabs, NEW a \in Accounts,
             Links!OpenForgot(t, a) \/ Links!RequestReset(t, a) \/ Links!SignIn(t, a)
      PROVE  LinkInv'
  <2>1. a \in Named
    BY DEF Named
  <2> QED BY <1>6, <2>1, OpenForgotKeeps, RequestResetKeeps, SignInKeeps
<1>7. ASSUME NEW t \in Tabs, Links!OpenForgot(t, None) PROVE LinkInv'
  <2>1. None \in Named
    BY DEF Named
  <2> QED BY <1>7, <2>1, OpenForgotKeeps
<1> QED BY <1>3, <1>4, <1>5, <1>6, <1>7, FromMacKeeps DEF Links!Next

LEMMA AlwaysLinkInv == Links!Spec => []LinkInv
BY LinkBegins, LinkNext, PTL DEF Links!Spec

\* A link code that waits for a new password is in one place, and comes back
\* only for an account whose address was named in the tab that moved it,
\* whatever resets, sign-ins and sign-outs other tabs of the browser make.
THEOREM CodeServesItsAccount == Links!Spec => []HeldForItsAccount
<1>1. LinkInv => HeldForItsAccount
  <2> SUFFICES ASSUME LinkInv PROVE HeldForItsAccount
    OBVIOUS
  <2>0. LinkTypes /\ HeldOnce /\ taken \subseteq named
    BY DEF LinkInv
  <2>1. Links!TypeOK
    <3>1. /\ kept.code \in PageCodes \cup {None} /\ kept.savedAt \in 0 .. now
          /\ kept.email \in Accounts \cup {None} /\ (kept.code = None => kept = Links!NoEntry)
      BY <2>0 DEF LinkTypes, Entry, Known, Named
    <3>2. ASSUME NEW t \in Tabs
          PROVE  /\ {tab[t].url, tab[t].form, tab[t].moved} \subseteq opened \cup {None}
                 /\ tab[t].user \in Accounts \cup {None}
      BY <2>0, PageTypes DEF Known, Named
    <3> QED BY <3>1, <3>2 DEF Links!TypeOK
  <2>2. ASSUME NEW c \in PageCodes, NEW p \in Links!Holders(c), NEW q \in Links!Holders(c) PROVE p = q
    <3>1. c # None
      OBVIOUS
    <3>2. /\ \/ \E t \in Tabs : tab[t].url = c /\ p = <<t, "url">>
             \/ \E t \in Tabs : tab[t].form = c /\ p = <<t, "form">>
             \/ kept.code = c /\ p = <<None, "kept">>
          /\ \/ \E t \in Tabs : tab[t].url = c /\ q = <<t, "url">>
             \/ \E t \in Tabs : tab[t].form = c /\ q = <<t, "form">>
             \/ kept.code = c /\ q = <<None, "kept">>
      BY DEF Links!Holders
    <3> QED BY <2>0, <3>1, <3>2 DEF HeldOnce
  <2> QED BY <2>0, <2>1, <2>2 DEF HeldForItsAccount, Links!HeldForItsAccount, Links!OneHolder,
                                  Links!KeptForItsAddress
<1> QED BY <1>1, AlwaysLinkInv, PTL

-----------------------------------------------------------------------------
(* The access of one browser to one Mac (PairAccess, with the names        *)
(* MCAccountService gives its variables).                                  *)

USE PairAssumption

ApprovalKinds == {"ask", "expire", "approve", "reject"}
PairIds == 3 .. granted.next - 1

\* The account's tables: the two devices, and rows about them only.
PairTables ==
  /\ Sound(granted) /\ granted.devices = Access!Linked.devices /\ granted.codes = {}
  /\ granted.next >= 3 /\ \A r \in granted.approvals : r.id \in PairIds
  /\ rows = [revoked |-> rows.revoked, again |-> rows.again, lifted |-> rows.lifted]

\* The pairing is recorded, or was taken away and given back.
WasPaired == Access!Between(granted, a1, 1, 2) # {} \/ rows.lifted
ApprovedWasPaired == (\E r \in granted.approvals : r.status = "approved") => WasPaired

\* The work of a handler or of a call left behind: what it holds is of the
\* tables, and an approval is marked approved for a recorded pairing.
WorkOk(x) ==
  /\ x = [kind |-> x.kind, at |-> x.at, ans |-> x.ans, n |-> x.n]
  /\ x.at \in Access!Calls \cup {"idle"}
  /\ x.at \in {"unrevoke", "restore"} => x.kind \in {"register", "claim"}
  /\ x.at = "deny" => x.kind = "revoke"
  /\ x.at = "mark" => x.kind \in ApprovalKinds
  /\ x.at \in {"ensure", "mark"} /\ x.kind \in ApprovalKinds => x.n \in PairIds
  /\ x.at = "pending" /\ x.ans \notin {Waiting, Lost} => x.ans \subseteq PairIds
  /\ x.kind = "approve" /\ (x.at = "mark" \/ (x.at = "ensure" /\ x.ans \notin {Waiting, Lost, Refused}))
       => WasPaired

HubTypes ==
  /\ phoneAuth \in {"none", "told", "untold"}
  /\ queued \subseteq {"phone", "host"} /\ on \subseteq {"phone", "host"}

\* A revocation that passed the hub's denial, or the relay's, is denied there
\* unless access was given back since it began.
Denying(x) == x.kind = "revoke" /\ x.at \in {"deny", "revoke", "signout"}
RelayDenied(x) ==
  x.kind = "revoke" /\ (x.at \in {"revoke", "signout"} \/ (x.at = "deny" /\ x.ans \notin {Waiting, Lost, Refused}))
RevocationsHold ==
  \A t \in Tasks : ~giving => (Denying(task[t]) => denied) /\ (RelayDenied(task[t]) => relayDenied)

\* While a revocation is confirmed nobody is about to lift it.
LiftsNothing(x) == x.at # "restore" /\ (x.at = "unrevoke" => x.ans \in {Waiting, Lost})
ConfirmedEverywhere ==
  confirmed => /\ denied /\ relayDenied
               /\ \A t \in Tasks : LiftsNothing(task[t])
               /\ \A x \in late : LiftsNothing(x)

TasksOk == task = [t \in Tasks |-> task[t]] /\ \A t \in Tasks : WorkOk(task[t])
LateOk == \A x \in late : WorkOk(x) /\ x.at \in Access!Calls /\ x.ans = Waiting

AccessInv ==
  /\ PairTables /\ ApprovedWasPaired /\ HubTypes /\ TasksOk /\ LateOk
  /\ Access!DeniedForgets /\ RevocationsHold /\ ConfirmedEverywhere /\ ~leaked

LEMMA SameEnsure == \A p, a, h, b :
  /\ Access!EnsurePairing(p, a, h, b) = EnsurePairing(p, a, h, b)
  /\ Access!Service!EnsurePairing(p, a, h, b) = EnsurePairing(p, a, h, b)
BY DEF Access!EnsurePairing, EnsurePairing, Access!FindDeviceById, FindDeviceById, Access!First, First,
   Access!RevokedPairing, RevokedPairing, Access!Between, Between, Access!Answer, Answer,
   Access!Refuse, Refuse, Access!Service!EnsurePairing, Access!Service!FindDeviceById,
   Access!Service!First, Access!Service!RevokedPairing, Access!Service!Between,
   Access!Service!Answer, Access!Service!Refuse

LEMMA SameRevoke == \A p, a, h, b :
  /\ Access!RevokePairing(p, a, h, b) = RevokePairing(p, a, h, b)
  /\ Access!Service!RevokePairing(p, a, h, b) = RevokePairing(p, a, h, b)
BY DEF Access!RevokePairing, RevokePairing, Access!Answer, Answer, Access!Service!RevokePairing,
   Access!Service!Answer

LEMMA SameLift == \A p, a, h, b :
  /\ Access!DeleteRevokedPairings(p, a, h, b) = DeleteRevokedPairings(p, a, h, b)
  /\ Access!Service!DeleteRevokedPairings(p, a, h, b) = DeleteRevokedPairings(p, a, h, b)
BY DEF Access!DeleteRevokedPairings, DeleteRevokedPairings, Access!Between, Between,
   Access!RevokedPairing, RevokedPairing, Access!Answer, Answer,
   Access!Service!DeleteRevokedPairings, Access!Service!Between, Access!Service!RevokedPairing,
   Access!Service!Answer

LEMMA SameInsert == \A p, a, h, b :
  /\ Access!InsertApproval(p, a, h, b) = InsertApproval(p, a, h, b)
  /\ Access!Service!InsertApproval(p, a, h, b) = InsertApproval(p, a, h, b)
BY DEF Access!InsertApproval, InsertApproval, Access!PendingApprovals, PendingApprovals,
   Access!First, First, Access!Answer, Answer, Access!Service!InsertApproval,
   Access!Service!PendingApprovals, Access!Service!First, Access!Service!Answer

LEMMA SameMark == \A p, i, s :
  /\ Access!MarkApproval(p, i, s) = MarkApproval(p, i, s)
  /\ Access!Service!MarkApproval(p, i, s) = MarkApproval(p, i, s)
BY DEF Access!MarkApproval, MarkApproval, Access!Answer, Answer, Access!Service!MarkApproval,
   Access!Service!Answer

\* The pair's tables as the service sees them.
LEMMA PairRows ==
  ASSUME PairTables
  PROVE  /\ granted \in Plane /\ granted.next \in Nat /\ PairIds \subseteq Nat
         /\ granted.devices = {[id |-> 1, device |-> h1, owner |-> a1], [id |-> 2, device |-> b1, owner |-> a1]}
         /\ 1 \in Access!Service!RowIds(Hosts) /\ 2 \in Access!Service!RowIds(Browsers)
         /\ PairIds \subseteq Access!Service!Ids
<1>1. granted \in Plane /\ granted.next \in Nat /\ granted.next >= 3
  BY DEF PairTables, Sound, Plane
<1>2. granted.devices = {[id |-> 1, device |-> h1, owner |-> a1], [id |-> 2, device |-> b1, owner |-> a1]}
  BY DEF PairTables, Access!Linked, Access!EmptyPlane, Access!M, Access!B
<1>3. /\ Access!Service!Ids = 1 .. granted.next - 1
      /\ {r.id : r \in granted.codes} = {} /\ \A r \in granted.approvals : r.id >= 3
  BY <1>1 DEF PairTables, PairIds, Access!Service!Ids
<1>4. 1 \in Access!Service!RowIds(Hosts)
  <2>1. 1 \in Access!Service!Ids /\ 1 \notin {r.id : r \in granted.approvals}
    BY <1>1, <1>3
  <2>2. \A s \in granted.devices : s.device \notin Hosts => s.id = 2
    BY <1>2
  <2> QED BY <1>3, <2>1, <2>2 DEF Access!Service!RowIds
<1>5. 2 \in Access!Service!RowIds(Browsers)
  <2>1. 2 \in Access!Service!Ids /\ 2 \notin {r.id : r \in granted.approvals}
    BY <1>1, <1>3
  <2>2. \A s \in granted.devices : s.device \notin Browsers => s.id = 1
    BY <1>2
  <2> QED BY <1>3, <2>1, <2>2 DEF Access!Service!RowIds
<1> QED BY <1>1, <1>2, <1>3, <1>4, <1>5 DEF PairIds

\* A mutation that leaves the devices and the approvals.
LEMMA PairingsChange ==
  ASSUME PairTables, Sound(granted'), granted' = [granted EXCEPT !.pairings = granted'.pairings],
         rows' = [revoked |-> rows'.revoked, again |-> rows'.again, lifted |-> rows'.lifted]
  PROVE  PairTables' /\ granted'.next = granted.next /\ granted'.approvals = granted.approvals
<1>1. granted \in Plane
  BY PairRows
<1>2. /\ granted'.devices = granted.devices /\ granted'.codes = granted.codes
      /\ granted'.next = granted.next /\ granted'.approvals = granted.approvals
  BY <1>1 DEF Plane
<1>3. Access!Linked.devices' = Access!Linked.devices /\ PairIds' = PairIds
  BY <1>2 DEF Access!Linked, Access!EmptyPlane, PairIds
<1> QED BY <1>2, <1>3 DEF PairTables

\* What a served call leaves and answers.
CommitOk(x) ==
  /\ PairTables' /\ (ApprovedWasPaired => ApprovedWasPaired') /\ (WasPaired => WasPaired')
  /\ granted'.next >= granted.next
  /\ Access!Service!Next \/ granted' = granted
  /\ x.at = "ensure" /\ Access!Answered(x).answer # Refused => WasPaired'
  /\ x.at = "pending" => Access!Answered(x).answer \subseteq PairIds'

LEMMA QueryCommits ==
  ASSUME PairTables, NEW x, x.at \in Access!Calls \ {"unrevoke", "ensure", "revoke", "insert", "mark"},
         Access!Commit(x)
  PROVE  CommitOk(x)
<1>1. PICK a : Access!Answered(x) = Access!Answer(granted, a) /\ (x.at = "pending" => a = Access!Pending)
  BY DEF Access!Answered
<1>2. granted' = granted /\ rows' = rows /\ Access!Answered(x).answer = a
  BY <1>1 DEF Access!Commit, Access!Answer, Access!Calls
<1>3. PairTables' /\ PairIds' = PairIds /\ WasPaired' = WasPaired /\ ApprovedWasPaired' = ApprovedWasPaired
  <2>1. Access!Linked.devices' = Access!Linked.devices
    BY DEF Access!Linked, Access!EmptyPlane
  <2>2. PairIds' = PairIds /\ WasPaired' = WasPaired
    BY <1>2 DEF PairIds, WasPaired, Access!Between
  <2> QED BY <1>2, <2>1, <2>2 DEF PairTables, ApprovedWasPaired, Sound, DevicesSound, CodesSound,
              OwnIds, PairingsSound, ApprovalsSound, HasBothEnds
<1>4. x.at = "pending" => a \subseteq PairIds
  BY <1>1 DEF Access!Pending, Access!PendingApprovals, Access!M, PairTables
<1>5. granted'.next >= granted.next
  BY <1>2, PairRows
<1> QED BY <1>2, <1>3, <1>4, <1>5 DEF CommitOk

LEMMA LiftCommits ==
  ASSUME PairTables, NEW x, x.at = "unrevoke", Access!Commit(x)
  PROVE  CommitOk(x)
<1> DEFINE lifted == {r \in granted.pairings : ~(r \in Between(granted, a1, 1, 2) /\ r.revoked)}
<1>1. Access!Answered(x) = DeleteRevokedPairings(granted, a1, 1, 2)
  BY SameLift DEF Access!Answered, Access!LiftPairing, Access!M, Access!B
<1>2. /\ granted' = DeleteRevokedPairings(granted, a1, 1, 2).plane
      /\ rows' = [rows EXCEPT !.revoked = 0, !.lifted = @ \/ Access!Revoked]
  BY <1>1 DEF Access!Commit
<1>3. granted' = [granted EXCEPT !.pairings = lifted] /\ granted \in Plane
  BY <1>2, PairRows DEF DeleteRevokedPairings, Answer
<1>4. granted'.pairings = lifted
  BY <1>3 DEF Plane
<1>5. Sound(granted')
  BY <1>2, DeleteRevokedPairingsSound DEF PairTables
<1>6. rows'.lifted = (rows.lifted \/ Access!Revoked)
      /\ rows' = [revoked |-> rows'.revoked, again |-> rows'.again, lifted |-> rows'.lifted]
  BY <1>2 DEF PairTables
<1>7. /\ PairTables' /\ granted'.next = granted.next /\ granted'.approvals = granted.approvals
  BY <1>3, <1>4, <1>5, <1>6, PairingsChange
<1>8. WasPaired => WasPaired'
  <2>1. CASE Access!Revoked
    BY <1>6, <2>1 DEF WasPaired
  <2>2. CASE ~Access!Revoked
    <3>1. \A r \in Between(granted, a1, 1, 2) : ~r.revoked
      BY <2>2 DEF Access!Revoked, Access!RevokedPairing, Access!Between, Between, Access!M, Access!B
    <3>2. granted'.pairings = granted.pairings
      BY <1>4, <3>1
    <3> QED BY <1>6, <3>2 DEF WasPaired, Access!Between
  <2> QED BY <2>1, <2>2
<1>9. Access!Service!Next
  <2>1. PICK r \in granted.devices : r = [id |-> 1, device |-> h1, owner |-> a1]
    BY PairRows
  <2>2. r.device \in Hosts /\ r.owner = a1 /\ r.id = 1
    BY <2>1
  <2>3. granted' = Access!Service!DeleteRevokedPairings(granted, r.owner, r.id, 2).plane
    BY <1>2, <2>2, SameLift
  <2> QED BY <2>2, <2>3, PairRows DEF Access!Service!Next, Access!Service!Restores
<1>10. granted'.next >= granted.next
  BY <1>7, PairRows
<1> QED BY <1>7, <1>8, <1>9, <1>10 DEF CommitOk, ApprovedWasPaired

LEMMA EnsureCommits ==
  ASSUME PairTables, NEW x, x.at = "ensure", Access!Commit(x)
  PROVE  CommitOk(x)
<1> DEFINE new == [owner |-> a1, host |-> 1, phone |-> 2, revoked |-> FALSE]
           r == EnsurePairing(granted, a1, 1, 2)
<1>1. Access!Answered(x) = r
  BY SameEnsure DEF Access!Answered, Access!M, Access!B
<1>2. granted' = r.plane /\ rows' \in {rows, [rows EXCEPT !.again = x.n]}
  BY <1>1 DEF Access!Commit
<1>3. granted \in Plane
  BY PairRows
<1>4. \/ granted' = granted /\ r.answer = Refused
      \/ granted' = [granted EXCEPT !.pairings = granted.pairings \cup {new}]
  BY <1>2 DEF EnsurePairing, Answer, Refuse
<1>5. /\ granted' = [granted EXCEPT !.pairings = granted'.pairings]
      /\ granted.pairings \subseteq granted'.pairings
      /\ r.answer = Refused \/ new \in granted'.pairings
  BY <1>3, <1>4 DEF Plane
<1>6. Sound(granted')
  BY <1>2, EnsurePairingSound DEF PairTables
<1>7. /\ rows' = [revoked |-> rows'.revoked, again |-> rows'.again, lifted |-> rows'.lifted]
      /\ rows'.lifted = rows.lifted
  BY <1>2 DEF PairTables
<1>8. PairTables' /\ granted'.next = granted.next /\ granted'.approvals = granted.approvals
  BY <1>5, <1>6, <1>7, PairingsChange
<1>9. WasPaired => WasPaired'
  BY <1>5, <1>7 DEF WasPaired, Access!Between
<1>10. r.answer # Refused => WasPaired'
  <2>1. new \in granted'.pairings => new \in Access!Between(granted', a1, 1, 2)
    BY DEF Access!Between
  <2> QED BY <1>5, <2>1 DEF WasPaired, Access!Between
<1>11. Access!Service!Next
  <2>1. granted' = Access!Service!EnsurePairing(granted, a1, 1, 2).plane
    BY <1>2, SameEnsure
  <2> QED BY <2>1, PairRows DEF Access!Service!Next, Access!Service!Pairs
<1>12. granted'.next >= granted.next
  BY <1>8, PairRows
<1> QED BY <1>1, <1>8, <1>9, <1>10, <1>11, <1>12 DEF CommitOk, ApprovedWasPaired

LEMMA RevokeCommits ==
  ASSUME PairTables, NEW x, x.at = "revoke", Access!Commit(x)
  PROVE  CommitOk(x)
<1> DEFINE mark == [owner |-> a1, host |-> 1, phone |-> 2, revoked |-> TRUE]
           found == {r \in granted.pairings : r.host = 1 /\ r.phone = 2}
           marked == (granted.pairings \ found) \cup {mark} \cup {[r EXCEPT !.revoked = TRUE] : r \in found}
<1>1. Access!Answered(x) = RevokePairing(granted, a1, 1, 2)
  BY SameRevoke DEF Access!Answered, Access!M, Access!B
<1>2. /\ granted' = RevokePairing(granted, a1, 1, 2).plane
      /\ rows' = [rows EXCEPT !.revoked = clock', !.again = 0]
  BY <1>1 DEF Access!Commit
<1>3. granted' = [granted EXCEPT !.pairings = marked] /\ granted \in Plane
  BY <1>2, PairRows DEF RevokePairing, Answer
<1>4. granted'.pairings = marked
  BY <1>3 DEF Plane
<1>5. Sound(granted')
  BY <1>2, RevokePairingSound DEF PairTables
<1>6. rows' = [revoked |-> rows'.revoked, again |-> rows'.again, lifted |-> rows'.lifted]
  BY <1>2 DEF PairTables
<1>7. PairTables' /\ granted'.next = granted.next /\ granted'.approvals = granted.approvals
  BY <1>3, <1>4, <1>5, <1>6, PairingsChange
<1>8. WasPaired'
  <2>1. mark \in Access!Between(granted', a1, 1, 2)
    BY <1>4 DEF Access!Between
  <2> QED BY <2>1 DEF WasPaired, Access!Between
<1>9. Access!Service!Next
  <2>1. PICK r \in granted.devices : r = [id |-> 1, device |-> h1, owner |-> a1]
    BY PairRows
  <2>2. r.device \in Hosts /\ r.owner = a1 /\ r.id = 1
    BY <2>1
  <2>3. granted' = Access!Service!RevokePairing(granted, r.owner, r.id, 2).plane
    BY <1>2, <2>2, SameRevoke
  <2> QED BY <2>2, <2>3, PairRows DEF Access!Service!Next, Access!Service!Revokes
<1>10. granted'.next >= granted.next
  BY <1>7, PairRows
<1> QED BY <1>7, <1>8, <1>9, <1>10 DEF CommitOk, ApprovedWasPaired

\* A mutation that leaves the devices and the pairings.
LEMMA ApprovalsChange ==
  ASSUME PairTables, Sound(granted'), rows' = rows,
         granted'.devices = granted.devices, granted'.codes = granted.codes,
         granted'.pairings = granted.pairings, granted'.next >= granted.next,
         \A r \in granted'.approvals : r.id \in PairIds'
  PROVE  PairTables' /\ WasPaired' = WasPaired
<1>1. Access!Linked.devices' = Access!Linked.devices
  BY DEF Access!Linked, Access!EmptyPlane
<1>2. granted'.next >= 3
  <2>1. granted' \in Plane
    BY DEF Sound
  <2> QED BY <2>1, PairRows DEF Plane, PairTables
<1> QED BY <1>1, <1>2 DEF PairTables, WasPaired, Access!Between

LEMMA InsertCommits ==
  ASSUME PairTables, NEW x, x.at = "insert", Access!Commit(x)
  PROVE  CommitOk(x)
<1> DEFINE new == [id |-> granted.next, owner |-> a1, host |-> 1, requester |-> 2, status |-> "pending"]
           grown == [granted EXCEPT !.approvals = @ \cup {new}, !.next = @ + 1]
<1>1. Access!Answered(x) = InsertApproval(granted, a1, 1, 2)
  BY SameInsert DEF Access!Answered, Access!M, Access!B
<1>2. granted' = InsertApproval(granted, a1, 1, 2).plane /\ rows' = rows /\ granted.next <= MaxIds
  BY <1>1 DEF Access!Commit
<1>3. granted' = granted \/ granted' = grown
  BY <1>2 DEF InsertApproval, Answer
<1>4. granted \in Plane /\ granted.next \in Nat /\ granted.next >= 3
  BY PairRows DEF PairTables
<1>5. Sound(granted')
  BY <1>2, InsertApprovalSound DEF PairTables
<1>6. /\ granted'.devices = granted.devices /\ granted'.codes = granted.codes
      /\ granted'.pairings = granted.pairings
      /\ granted'.next \in {granted.next, granted.next + 1}
      /\ \A r \in granted'.approvals :
           r \in granted.approvals \/ (r = new /\ granted'.next = granted.next + 1)
  <2>1. CASE granted' = granted
    BY <1>4, <2>1
  <2>2. CASE granted' = grown
    <3>1. granted'.approvals = granted.approvals \cup {new} /\ granted'.next = granted.next + 1
      BY <1>4, <2>2 DEF Plane
    <3>2. /\ granted'.devices = granted.devices /\ granted'.codes = granted.codes
          /\ granted'.pairings = granted.pairings
      BY <1>4, <2>2 DEF Plane
    <3> QED BY <3>1, <3>2
  <2> QED BY <1>3, <2>1, <2>2
<1>7. \A r \in granted'.approvals : r.id \in PairIds'
  <2> SUFFICES ASSUME NEW r \in granted'.approvals PROVE r.id \in 3 .. granted'.next - 1
    BY DEF PairIds
  <2>1. CASE r \in granted.approvals
    BY <1>4, <1>6, <2>1 DEF PairTables, PairIds
  <2>2. CASE r = new /\ granted'.next = granted.next + 1
    <3>1. r.id = granted.next
      BY <2>2
    <3> QED BY <1>4, <2>2, <3>1
  <2> QED BY <1>6, <2>1, <2>2
<1>8. granted'.next >= granted.next
  BY <1>4, <1>6
<1>9. PairTables' /\ WasPaired' = WasPaired
  BY <1>2, <1>5, <1>6, <1>7, <1>8, ApprovalsChange
<1>10. ApprovedWasPaired => ApprovedWasPaired'
  BY <1>6, <1>9 DEF ApprovedWasPaired
<1>11. Access!Service!Next
  <2>1. granted' = Access!Service!InsertApproval(granted, a1, 1, 2).plane
    BY <1>2, SameInsert
  <2> QED BY <1>2, <2>1, PairRows
          DEF Access!Service!Next, Access!Service!AsksApproval, Access!Service!CanGrow
<1> QED BY <1>8, <1>9, <1>10, <1>11 DEF CommitOk

LEMMA MarkCommits ==
  ASSUME PairTables, NEW x, x.at = "mark", WorkOk(x), Access!Commit(x)
  PROVE  CommitOk(x)
<1> DEFINE s == CASE x.kind = "approve" -> "approved"
                  [] x.kind = "reject" -> "rejected" [] OTHER -> "expired"
           Marked(r) == IF r.id = x.n THEN [r EXCEPT !.status = s] ELSE r
           marked == {Marked(r) : r \in granted.approvals}
<1>0. /\ s \in {"approved", "rejected", "expired"}
      /\ (s = "approved" => x.kind = "approve")
  OBVIOUS
<1>00. x.n \in PairIds /\ (x.kind = "approve" => WasPaired)
  <2>1. x.kind \in ApprovalKinds => x.n \in PairIds
    BY DEF WorkOk
  <2>2. x.kind \in ApprovalKinds
    BY DEF WorkOk
  <2>3. x.kind = "approve" => WasPaired
    <3>1. x.kind = "approve" /\ (x.at = "mark" \/ (x.at = "ensure" /\ x.ans \notin {Waiting, Lost, Refused}))
            => WasPaired
      BY DEF WorkOk
    <3> QED BY <3>1
  <2> QED BY <2>1, <2>2, <2>3
<1>1. Access!Answered(x) = MarkApproval(granted, x.n, s)
  BY SameMark DEF Access!Answered
<1> HIDE DEF s
<1>2. granted' = MarkApproval(granted, x.n, s).plane /\ rows' = rows
  BY <1>1 DEF Access!Commit
<1>3. granted' = [granted EXCEPT !.approvals = marked] /\ granted \in Plane
  BY <1>2, PairRows DEF MarkApproval, Answer
<1>4. /\ granted'.devices = granted.devices /\ granted'.codes = granted.codes
      /\ granted'.pairings = granted.pairings /\ granted'.next = granted.next
      /\ granted'.approvals = marked
  BY <1>3 DEF Plane
<1>5. Sound(granted')
  BY <1>0, <1>2, MarkApprovalSound DEF PairTables
<1>6. \A r \in granted.approvals : /\ Marked(r).id = r.id
                                   /\ Marked(r).status = r.status \/ Marked(r).status = s
  BY <1>3 DEF Plane, Approval
<1>7. \A r \in granted'.approvals : r.id \in PairIds'
  <2>1. PairIds' = PairIds
    BY <1>4 DEF PairIds
  <2> QED BY <1>4, <1>6, <2>1 DEF PairTables
<1>8. granted'.next >= granted.next
  BY <1>4, PairRows
<1>9. PairTables' /\ WasPaired' = WasPaired
  BY <1>2, <1>4, <1>5, <1>7, <1>8, ApprovalsChange
<1>10. ApprovedWasPaired => ApprovedWasPaired'
  <2> SUFFICES ASSUME ApprovedWasPaired, NEW r \in granted.approvals, Marked(r).status = "approved"
               PROVE  WasPaired
    BY <1>4, <1>9 DEF ApprovedWasPaired
  <2>1. CASE Marked(r).status = r.status
    BY <2>1 DEF ApprovedWasPaired
  <2>2. CASE Marked(r).status = s
    BY <1>0, <1>00, <2>2
  <2> QED BY <1>6, <2>1, <2>2
<1>11. Access!Service!Next
  <2>1. granted' = Access!Service!MarkApproval(granted, x.n, s).plane
    BY <1>2, SameMark
  <2> QED BY <1>0, <1>00, <2>1, PairRows DEF Access!Service!Next, Access!Service!Decides
<1> QED BY <1>8, <1>9, <1>10, <1>11 DEF CommitOk

LEMMA CallCommits ==
  ASSUME PairTables, NEW x, WorkOk(x), x.at \in Access!Calls, Access!Commit(x)
  PROVE  CommitOk(x)
BY QueryCommits, LiftCommits, EnsureCommits, RevokeCommits, InsertCommits, MarkCommits

-----------------------------------------------------------------------------
(* The handlers' steps between their calls. *)

\* What a handler holds stays right while nothing is undone.
LEMMA WorkStaysOk ==
  ASSUME NEW x, WorkOk(x), PairIds \subseteq PairIds', WasPaired => WasPaired'
  PROVE  WorkOk(x)'
BY DEF WorkOk

\* The account's tables are left alone.
LEMMA TablesKept ==
  ASSUME PairTables, ApprovedWasPaired, UNCHANGED <<granted, rows>>
  PROVE  PairTables' /\ ApprovedWasPaired' /\ PairIds' = PairIds /\ (WasPaired => WasPaired')
<1>1. Access!Linked.devices' = Access!Linked.devices
  BY DEF Access!Linked, Access!EmptyPlane
<1>2. PairIds' = PairIds /\ WasPaired' = WasPaired
  BY DEF PairIds, WasPaired, Access!Between
<1> QED BY <1>1, <1>2 DEF PairTables, ApprovedWasPaired, Sound, DevicesSound, CodesSound,
            OwnIds, PairingsSound, ApprovalsSound, HasBothEnds

\* One handler goes on, holding y.
LEMMA TaskMoves ==
  ASSUME TasksOk, PairIds' = PairIds, WasPaired => WasPaired',
         NEW t \in Tasks, NEW y, WorkOk(y), task' = [task EXCEPT ![t] = y]
  PROVE  /\ TasksOk' /\ task'[t] = y
         /\ \A s \in Tasks : s # t => task'[s] = task[s]
<1>1. task' = [s \in Tasks |-> IF s = t THEN y ELSE task[s]]
  BY DEF TasksOk
<1>2. \A s \in Tasks : task'[s] = IF s = t THEN y ELSE task[s]
  BY <1>1
<1>3. ASSUME NEW s \in Tasks PROVE WorkOk(task[s])'
  <2>1. PICK z : z = task'[s]
    OBVIOUS
  <2>2. WorkOk(z)
    BY <1>2, <2>1 DEF TasksOk
  <2>3. WorkOk(z)'
    BY <2>2, WorkStaysOk
  <2> QED BY <2>1, <2>3 DEF WorkOk
<1>4. task' = [s \in Tasks |-> task'[s]]
  BY <1>1
<1> QED BY <1>2, <1>3, <1>4 DEF TasksOk

LEMMA LateKept ==
  ASSUME LateOk, PairIds \subseteq PairIds', WasPaired => WasPaired', late' \subseteq late
  PROVE  LateOk'
<1>1. \A x \in late : WorkOk(x)'
  BY WorkStaysOk DEF LateOk
<1> QED BY <1>1 DEF LateOk, WorkOk

accessHub == <<denied, phoneAuth, hostAuth, queued, relayDenied, on, confirmed, giving, leaked>>

\* A step of one handler that only goes on.
LEMMA OnlyMoves ==
  ASSUME AccessInv, NEW t \in Tasks, NEW y, WorkOk(y), task' = [task EXCEPT ![t] = y],
         ~giving => (Denying(y) => denied) /\ (RelayDenied(y) => relayDenied),
         confirmed => LiftsNothing(y), UNCHANGED <<granted, rows, late, accessHub>>
  PROVE  AccessInv'
<1>1. PairTables' /\ ApprovedWasPaired' /\ PairIds' = PairIds /\ (WasPaired => WasPaired')
  BY TablesKept DEF AccessInv
<1>2. /\ TasksOk' /\ task'[t] = y
      /\ \A s \in Tasks : s # t => task'[s] = task[s]
  BY <1>1, TaskMoves DEF AccessInv
<1>3. LateOk'
  BY <1>1, LateKept DEF AccessInv
<1>4. HubTypes' /\ Access!DeniedForgets' /\ ~leaked'
  BY DEF AccessInv, accessHub, HubTypes, Access!DeniedForgets
<1>5. RevocationsHold'
  BY <1>2 DEF AccessInv, accessHub, RevocationsHold, Denying, RelayDenied
<1>6. ConfirmedEverywhere'
  BY <1>2 DEF AccessInv, accessHub, ConfirmedEverywhere, LiftsNothing
<1> QED BY <1>1, <1>2, <1>3, <1>4, <1>5, <1>6 DEF AccessInv

\* The work a handler begins with, and none.
LEMMA BeginsOk ==
  ASSUME NEW kind, NEW at \in {"find", "list", "unrevoke", "rows", "paired", "pending", "idle"},
         at = "unrevoke" => kind \in {"register", "claim"},
         NEW y, y = [kind |-> kind, at |-> at, ans |-> Waiting, n |-> 0]
  PROVE  WorkOk(y) /\ LiftsNothing(y) /\ ~Denying(y) /\ ~RelayDenied(y)
<1>1. y.kind = kind /\ y.at = at /\ y.ans = Waiting /\ y.n = 0
  OBVIOUS
<1>2. y = [kind |-> y.kind, at |-> y.at, ans |-> y.ans, n |-> y.n]
  BY <1>1
<1>3. WorkOk(y)
  BY <1>1, <1>2 DEF WorkOk, Access!Calls
<1> QED BY <1>1, <1>3 DEF LiftsNothing, Denying, RelayDenied

LEMMA Begun == \A kind, at :
  [Access!NoTask EXCEPT !.kind = kind, !.at = at]
    = [kind |-> kind, at |-> at, ans |-> Waiting, n |-> 0]
<1> TAKE kind, at
<1>1. PICK z : z = Access!NoTask
  OBVIOUS
<1>2. PICK w : w = [z EXCEPT !.kind = kind]
  OBVIOUS
<1>3. w = [kind |-> kind, at |-> "idle", ans |-> Waiting, n |-> 0]
  <2>1. z = [kind |-> "idle", at |-> "idle", ans |-> Waiting, n |-> 0]
    BY <1>1 DEF Access!NoTask
  <2> QED BY ONLY <1>2, <2>1
<1>4. [w EXCEPT !.at = at] = [kind |-> kind, at |-> at, ans |-> Waiting, n |-> 0]
  BY ONLY <1>3
<1> QED BY ONLY <1>1, <1>2, <1>4

LEMMA EndsOk ==
  WorkOk(Access!NoTask) /\ LiftsNothing(Access!NoTask)
    /\ ~Denying(Access!NoTask) /\ ~RelayDenied(Access!NoTask)
<1>1. PICK y : y = Access!NoTask
  OBVIOUS
<1>2. y = [kind |-> "idle", at |-> "idle", ans |-> Waiting, n |-> 0]
  BY <1>1 DEF Access!NoTask
<1> QED BY <1>1, <1>2, BeginsOk

\* The next call of a handler.
LEMMA GoesOk ==
  ASSUME NEW x, WorkOk(x), NEW at \in Access!Calls, NEW n,
         at \in {"unrevoke", "restore"} => x.kind \in {"register", "claim"},
         at = "deny" => x.kind = "revoke", at = "mark" => x.kind \in ApprovalKinds,
         at \in {"ensure", "mark"} /\ x.kind \in ApprovalKinds => n \in PairIds,
         at = "mark" /\ x.kind = "approve" => WasPaired,
         NEW y, y = [kind |-> x.kind, at |-> at, ans |-> Waiting, n |-> n]
  PROVE  WorkOk(y) /\ y.at = at /\ y.kind = x.kind /\ y.ans = Waiting
<1>1. /\ y = [kind |-> y.kind, at |-> y.at, ans |-> y.ans, n |-> y.n]
      /\ y.kind = x.kind /\ y.at = at /\ y.ans = Waiting /\ y.n = n
  OBVIOUS
<1> QED BY <1>1 DEF WorkOk

LEMMA Going ==
  ASSUME TasksOk, NEW t \in Tasks, NEW at
  PROVE  /\ WorkOk(task[t])
         /\ task[t] = [kind |-> task[t].kind, at |-> task[t].at, ans |-> task[t].ans, n |-> task[t].n]
         /\ Access!Goto(t, at) =>
              task' = [task EXCEPT ![t] = [kind |-> task[t].kind, at |-> at, ans |-> Waiting, n |-> task[t].n]]
<1>1. WorkOk(task[t])
  BY DEF TasksOk
<1>2. task[t] = [kind |-> task[t].kind, at |-> task[t].at, ans |-> task[t].ans, n |-> task[t].n]
  BY <1>1 DEF WorkOk
<1>3. task = [s \in Tasks |-> task[s]]
  BY DEF TasksOk
<1> QED BY <1>1, <1>2, <1>3 DEF Access!Goto

GoesWith(t, at, n) == task' = [task EXCEPT ![t].at = at, ![t].ans = Waiting, ![t].n = n]

LEMMA GoingWith ==
  ASSUME TasksOk, NEW t \in Tasks, NEW at, NEW n, GoesWith(t, at, n),
         NEW y, y = [kind |-> task[t].kind, at |-> at, ans |-> Waiting, n |-> n]
  PROVE  task' = [task EXCEPT ![t] = y]
<1>1. task[t] = [kind |-> task[t].kind, at |-> task[t].at, ans |-> task[t].ans, n |-> task[t].n]
  BY Going
<1>2. task = [s \in Tasks |-> task[s]]
  BY DEF TasksOk
<1>3. PICK e : e = [task EXCEPT ![t].at = at]
  OBVIOUS
<1>4. PICK f : f = [e EXCEPT ![t].ans = Waiting]
  OBVIOUS
<1>5. task' = [f EXCEPT ![t].n = n]
  BY ONLY <1>3, <1>4, GoesWith(t, at, n) DEF GoesWith
<1>6. /\ e[t] = [kind |-> task[t].kind, at |-> at, ans |-> task[t].ans, n |-> task[t].n]
      /\ e = [s \in Tasks |-> e[s]] /\ \A s \in Tasks \ {t} : e[s] = task[s]
  BY <1>1, <1>2, <1>3
<1>7. /\ f[t] = [kind |-> task[t].kind, at |-> at, ans |-> Waiting, n |-> task[t].n]
      /\ f = [s \in Tasks |-> f[s]] /\ \A s \in Tasks \ {t} : f[s] = task[s]
  BY ONLY <1>4, <1>6, t \in Tasks
<1>8. /\ task'[t] = y
      /\ task' = [s \in Tasks |-> task'[s]] /\ \A s \in Tasks \ {t} : task'[s] = task[s]
  BY ONLY <1>5, <1>7, t \in Tasks, y = [kind |-> task[t].kind, at |-> at, ans |-> Waiting, n |-> n]
<1> QED BY <1>2, <1>8

LEMMA EndMoves ==
  ASSUME AccessInv, NEW t \in Tasks, Access!End(t), UNCHANGED <<granted, rows, late, accessHub>>
  PROVE  AccessInv'
BY OnlyMoves, EndsOk DEF Access!End

LEMMA StartMoves ==
  ASSUME AccessInv, NEW t \in Tasks, NEW kind,
         NEW at \in {"find", "list", "unrevoke", "paired", "pending"},
         at = "unrevoke" => kind \in {"register", "claim"},
         Access!Start(t, kind, at), UNCHANGED <<granted, rows, late, accessHub>>
  PROVE  AccessInv'
<1>1. PICK y : y = [kind |-> kind, at |-> at, ans |-> Waiting, n |-> 0]
  OBVIOUS
<1>2. task' = [task EXCEPT ![t] = y]
  BY ONLY <1>1, Begun, Access!Start(t, kind, at) DEF Access!Start
<1>3. WorkOk(y) /\ LiftsNothing(y) /\ ~Denying(y) /\ ~RelayDenied(y)
  BY <1>1, BeginsOk
<1> QED BY <1>2, <1>3, OnlyMoves

\* The calls a handler may go on to without a condition on what it holds.
LEMMA GoMoves ==
  ASSUME AccessInv, NEW t \in Tasks,
         NEW at \in {"list", "unrevoke", "signout", "rows", "paired", "pending", "insert", "ensure", "mark"},
         at = "unrevoke" => task[t].kind \in {"register", "claim"},
         at = "signout" => task[t].kind # "revoke",
         at = "mark" => task[t].kind \in ApprovalKinds,
         at \in {"ensure", "mark"} /\ task[t].kind \in ApprovalKinds => task[t].n \in PairIds,
         at = "mark" /\ task[t].kind = "approve" => WasPaired,
         Access!Goto(t, at), UNCHANGED <<granted, rows, late, accessHub>>
  PROVE  AccessInv'
<1> DEFINE y == [kind |-> task[t].kind, at |-> at, ans |-> Waiting, n |-> task[t].n]
<1>1. WorkOk(task[t]) /\ task' = [task EXCEPT ![t] = y]
  BY Going DEF AccessInv
<1>2. WorkOk(y) /\ y.at = at /\ y.kind = task[t].kind /\ y.ans = Waiting
  <2>1. at \in Access!Calls
    BY DEF Access!Calls
  <2> QED BY <1>1, <2>1, GoesOk
<1>3. LiftsNothing(y) /\ ~Denying(y) /\ ~RelayDenied(y)
  BY <1>2 DEF LiftsNothing, Denying, RelayDenied
<1> HIDE DEF y
<1> QED BY <1>1, <1>2, <1>3, OnlyMoves

LEMMA HandlersMove ==
  ASSUME AccessInv, NEW t \in Tasks,
         \/ Access!Revoke(t) \/ Access!Register(t) \/ Access!Listed(t) \/ Access!SignedOutByMac(t)
         \/ Access!Claim(t) \/ Access!GivenBack(t)
         \/ Access!EnvelopeChecked(t) \/ Access!EnvelopeRefused(t)
         \/ \E kind \in ApprovalKinds : Access!StartApproval(t, kind)
  PROVE  AccessInv'
<1> USE DEF Access!account, Access!hub, accessHub
<1>1. CASE Access!Revoke(t)
  BY <1>1, StartMoves DEF Access!Revoke
<1>2. CASE Access!Register(t)
  BY <1>2, StartMoves DEF Access!Register
<1>3. CASE Access!Listed(t)
  <2>1. UNCHANGED <<granted, rows, late, accessHub>> /\ task[t].kind = "register"
    BY <1>3 DEF Access!Listed
  <2>2. Access!Goto(t, "signout") \/ Access!Goto(t, "unrevoke") \/ Access!End(t)
    BY <1>3 DEF Access!Listed
  <2> HIDE DEF accessHub
  <2> QED BY <2>1, <2>2, GoMoves, EndMoves
<1>4. CASE Access!SignedOutByMac(t)
  BY <1>4, EndMoves DEF Access!SignedOutByMac
<1>5. CASE Access!Claim(t)
  BY <1>5, StartMoves DEF Access!Claim
<1>6. CASE Access!GivenBack(t)
  BY <1>6, EndMoves DEF Access!GivenBack
<1>7. CASE Access!EnvelopeChecked(t)
  <2>1. UNCHANGED <<granted, rows, late, accessHub>> /\ task[t].kind = "phone"
    BY <1>7 DEF Access!EnvelopeChecked
  <2>2. Access!Goto(t, "ensure") \/ Access!End(t)
    BY <1>7 DEF Access!EnvelopeChecked
  <2>3. task[t].kind \notin ApprovalKinds
    BY <2>1 DEF ApprovalKinds
  <2> HIDE DEF accessHub
  <2> QED BY <2>1, <2>2, <2>3, GoMoves, EndMoves
<1>8. CASE Access!EnvelopeRefused(t)
  BY <1>8, EndMoves DEF Access!EnvelopeRefused
<1>9. CASE \E kind \in ApprovalKinds : Access!StartApproval(t, kind)
  <2>1. PICK kind \in ApprovalKinds : Access!StartApproval(t, kind)
    BY <1>9
  <2>2. UNCHANGED <<granted, rows, late, accessHub>>
    BY <2>1 DEF Access!StartApproval
  <2>3. Access!Start(t, kind, "paired") \/ Access!Start(t, kind, "pending")
    BY <2>1 DEF Access!StartApproval
  <2> HIDE DEF accessHub
  <2> QED BY <2>2, <2>3, StartMoves
<1> QED BY <1>1, <1>2, <1>3, <1>4, <1>5, <1>6, <1>7, <1>8, <1>9

LEMMA RestoredKeeps == ASSUME AccessInv, NEW t \in Tasks, Access!Restored(t) PROVE AccessInv'
<1>1. UNCHANGED <<granted, rows, late, accessHub>> /\ task[t].at = "restore"
  BY DEF Access!Restored, Access!account, Access!hub, accessHub, Access!At
<1>2. CASE Access!End(t)
  BY <1>1, <1>2, EndMoves
<1>3. CASE \E n : GoesWith(t, "ensure", n)
  <2>1. PICK n : GoesWith(t, "ensure", n)
    BY <1>3
  <2>2. PICK y : y = [kind |-> task[t].kind, at |-> "ensure", ans |-> Waiting, n |-> n]
    OBVIOUS
  <2>3. WorkOk(task[t]) /\ task' = [task EXCEPT ![t] = y]
    <3>1. TasksOk
      BY DEF AccessInv
    <3>2. WorkOk(task[t])
      BY <3>1, Going
    <3> QED BY <2>1, <2>2, <3>1, <3>2, GoingWith
  <2>4. task[t].kind \notin ApprovalKinds
    BY <1>1, <2>3 DEF WorkOk, ApprovalKinds
  <2>5. WorkOk(y) /\ y.at = "ensure"
    BY <2>2, <2>3, <2>4, GoesOk DEF Access!Calls
  <2> QED BY <1>1, <2>3, <2>5, OnlyMoves DEF LiftsNothing, Denying, RelayDenied
<1> QED BY <1>2, <1>3 DEF Access!Restored, GoesWith

LEMMA ApprovalContinuesKeeps ==
  ASSUME AccessInv, NEW t \in Tasks, Access!ApprovalContinues(t) PROVE AccessInv'
<1>1. UNCHANGED <<granted, rows, late, accessHub>> /\ task[t].kind \in ApprovalKinds
  BY DEF Access!ApprovalContinues, Access!account, Access!hub, accessHub, ApprovalKinds
<1>2. WorkOk(task[t])
  BY Going DEF AccessInv
<1>3. CASE Access!End(t)
  BY <1>1, <1>3, EndMoves
<1>4. CASE Access!Goto(t, "pending") \/ Access!Goto(t, "insert")
  BY <1>1, <1>4, GoMoves
<1>5. CASE Access!At(t, "ensure") /\ ~Access!Failed(t) /\ Access!Goto(t, "mark")
  <2>1. task[t].at = "ensure" /\ task[t].ans \notin {Waiting, Lost, Refused}
    BY <1>5 DEF Access!At, Access!Failed, Access!Got
  <2>2. task[t].n \in PairIds
    BY <1>1, <1>2, <2>1 DEF WorkOk
  <2>3. task[t].kind = "approve" => WasPaired
    BY <1>2, <2>1 DEF WorkOk
  <2> QED BY <1>1, <1>5, <2>2, <2>3, GoMoves
<1>6. CASE /\ Access!At(t, "pending") /\ Access!Got(t) # Lost
           /\ \E id \in Access!Got(t) : GoesWith(t, Access!AfterPending(task[t].kind), id)
  <2>1. task[t].ans \subseteq PairIds
    BY <1>2, <1>6 DEF WorkOk, Access!At, Access!Got
  <2>2. PICK at, id : /\ at = Access!AfterPending(task[t].kind) /\ id \in PairIds
                      /\ GoesWith(t, at, id)
    BY <1>6, <2>1 DEF Access!Got
  <2>3. at \in {"ensure", "mark"} /\ (at = "mark" => task[t].kind # "approve")
    BY <2>2 DEF Access!AfterPending
  <2>4. PICK y : y = [kind |-> task[t].kind, at |-> at, ans |-> Waiting, n |-> id]
    OBVIOUS
  <2>5. task' = [task EXCEPT ![t] = y]
    <3>1. TasksOk
      BY DEF AccessInv
    <3> QED BY <2>2, <2>4, <3>1, GoingWith
  <2>6. WorkOk(y) /\ y.at \in {"ensure", "mark"}
    BY <1>1, <1>2, <2>2, <2>3, <2>4, GoesOk DEF Access!Calls
  <2> QED BY <1>1, <2>5, <2>6, OnlyMoves DEF LiftsNothing, Denying, RelayDenied
<1> QED BY <1>3, <1>4, <1>5, <1>6 DEF Access!ApprovalContinues, GoesWith

\* A handler goes on, holding y, and the account's tables are left alone.
LEMMA TaskKept ==
  ASSUME AccessInv, NEW t \in Tasks, NEW y, WorkOk(y), task' = [task EXCEPT ![t] = y],
         UNCHANGED <<granted, rows, late>>
  PROVE  /\ PairTables' /\ ApprovedWasPaired' /\ TasksOk' /\ LateOk'
         /\ task'[t] = y /\ \A s \in Tasks : s # t => task'[s] = task[s]
<1>1. PairTables' /\ ApprovedWasPaired' /\ PairIds' = PairIds /\ (WasPaired => WasPaired')
  BY TablesKept DEF AccessInv
<1>2. /\ TasksOk' /\ task'[t] = y
      /\ \A s \in Tasks : s # t => task'[s] = task[s]
  BY <1>1, TaskMoves DEF AccessInv
<1>3. LateOk'
  BY <1>1, LateKept DEF AccessInv
<1> QED BY <1>1, <1>2, <1>3

\* Handlers and the account's tables are left alone.
LEMMA NothingMoves ==
  ASSUME AccessInv, UNCHANGED <<granted, rows, late, task>>
  PROVE  PairTables' /\ ApprovedWasPaired' /\ TasksOk' /\ LateOk'
<1>1. PairTables' /\ ApprovedWasPaired' /\ PairIds' = PairIds /\ (WasPaired => WasPaired')
  BY TablesKept DEF AccessInv
<1>2. TasksOk'
  <2>1. \A t \in Tasks : WorkOk(task[t])'
    <3> SUFFICES ASSUME NEW t \in Tasks PROVE WorkOk(task[t])'
      OBVIOUS
    <3>1. PICK y : y = task[t]
      OBVIOUS
    <3>2. WorkOk(y)'
      BY <1>1, <3>1, WorkStaysOk DEF AccessInv, TasksOk
    <3> QED BY <3>1, <3>2 DEF WorkOk
  <2> QED BY <2>1 DEF AccessInv, TasksOk
<1>3. LateOk'
  BY <1>1, LateKept DEF AccessInv
<1> QED BY <1>1, <1>2, <1>3

LEMMA RevokeFoundKeeps == ASSUME AccessInv, NEW t \in Tasks, Access!RevokeFound(t) PROVE AccessInv'
<1>1. /\ UNCHANGED <<granted, rows, late, relayDenied, on, confirmed, leaked>>
      /\ task[t].kind = "revoke"
  BY DEF Access!RevokeFound, Access!account
<1>2. giving' = (giving /\ \E s \in Tasks \ {t} : task[s].kind = "revoke")
  BY DEF Access!RevokeFound
<1>3. \/ Access!End(t) /\ UNCHANGED <<denied, phoneAuth, hostAuth, queued>>
      \/ Access!Goto(t, "deny") /\ denied' = TRUE /\ phoneAuth' = "none" /\ hostAuth' = FALSE /\ queued' = {}
  BY DEF Access!RevokeFound, Access!hub, Access!ForgetCaches
<1>4. WorkOk(task[t])
  BY Going DEF AccessInv
<1>5. PICK y : /\ WorkOk(y) /\ task' = [task EXCEPT ![t] = y]
               /\ LiftsNothing(y) /\ ~RelayDenied(y) /\ (Denying(y) => denied')
  <2>1. CASE Access!End(t)
    BY <2>1, EndsOk DEF Access!End
  <2>2. CASE Access!Goto(t, "deny") /\ denied' = TRUE
    <3>1. PICK y : y = [kind |-> "revoke", at |-> "deny", ans |-> Waiting, n |-> task[t].n]
      OBVIOUS
    <3>2. task' = [task EXCEPT ![t] = y]
      BY <1>1, <2>2, <3>1, Going DEF AccessInv
    <3>3. WorkOk(y) /\ y.at = "deny" /\ y.ans = Waiting
      BY <1>1, <1>4, <3>1, GoesOk DEF Access!Calls
    <3> QED BY <2>2, <3>2, <3>3 DEF LiftsNothing, RelayDenied
  <2> QED BY <1>3, <2>1, <2>2
<1>6. /\ PairTables' /\ ApprovedWasPaired' /\ TasksOk' /\ LateOk'
      /\ task'[t] = y /\ \A s \in Tasks : s # t => task'[s] = task[s]
  BY <1>1, <1>5, TaskKept
<1>7. HubTypes' /\ Access!DeniedForgets' /\ ~leaked' /\ (denied => denied')
  <2>1. CASE UNCHANGED <<denied, phoneAuth, hostAuth, queued>>
    BY <1>1, <2>1 DEF AccessInv, HubTypes, Access!DeniedForgets
  <2>2. CASE denied' = TRUE /\ phoneAuth' = "none" /\ hostAuth' = FALSE /\ queued' = {}
    <3>1. HubTypes' /\ ~leaked'
      BY <1>1, <2>2 DEF AccessInv, HubTypes
    <3>2. Access!DeniedForgets' /\ denied'
      BY <2>2 DEF Access!DeniedForgets
    <3> QED BY <3>1, <3>2
  <2> QED BY <1>3, <2>1, <2>2
<1>8. RevocationsHold'
  <2> SUFFICES ASSUME ~giving', NEW s \in Tasks
               PROVE  (Denying(task[s])' => denied') /\ (RelayDenied(task[s])' => relayDenied')
    BY DEF RevocationsHold
  <2>1. CASE s = t
    BY <1>5, <1>6, <2>1 DEF Denying, RelayDenied
  <2>2. CASE s # t /\ giving
    <3>1. task[s].kind # "revoke"
      BY <1>2, <2>2
    <3> QED BY <1>6, <2>2, <3>1 DEF Denying, RelayDenied
  <2>3. CASE s # t /\ ~giving
    BY <1>1, <1>6, <1>7, <2>3 DEF AccessInv, RevocationsHold, Denying, RelayDenied
  <2> QED BY <2>1, <2>2, <2>3
<1>9. ConfirmedEverywhere'
  BY <1>1, <1>5, <1>6, <1>7 DEF AccessInv, ConfirmedEverywhere, LiftsNothing
<1> QED BY <1>6, <1>7, <1>8, <1>9 DEF AccessInv

LEMMA RevokeContinuesKeeps ==
  ASSUME AccessInv, NEW t \in Tasks, Access!RevokeContinues(t) PROVE AccessInv'
<1>1. /\ UNCHANGED <<granted, rows, late, denied, phoneAuth, hostAuth, queued, relayDenied, on, giving, leaked>>
      /\ task[t].kind = "revoke"
  BY DEF Access!RevokeContinues, Access!account, Access!hub
<1>2. WorkOk(task[t])
  BY Going DEF AccessInv
<1>3. CASE Access!End(t) /\ UNCHANGED confirmed
  BY <1>1, <1>3, EndMoves DEF accessHub
<1>4. CASE /\ UNCHANGED confirmed
           /\ \/ Access!At(t, "deny") /\ ~Access!Failed(t) /\ Access!Goto(t, "revoke")
              \/ Access!At(t, "revoke") /\ ~Access!Failed(t) /\ Access!Goto(t, "signout")
  <2>1. Denying(task[t]) /\ RelayDenied(task[t])
    BY <1>1, <1>4 DEF Access!At, Access!Failed, Access!Got, Denying, RelayDenied
  <2>2. PICK at \in {"revoke", "signout"} : Access!Goto(t, at)
    BY <1>4
  <2>3. PICK y : y = [kind |-> "revoke", at |-> at, ans |-> Waiting, n |-> task[t].n]
    OBVIOUS
  <2>4. task' = [task EXCEPT ![t] = y]
    BY <1>1, <2>2, <2>3, Going DEF AccessInv
  <2>5. WorkOk(y) /\ y.at = at
    BY <1>1, <1>2, <2>3, GoesOk DEF Access!Calls
  <2>6. ~giving => denied /\ relayDenied
    BY <2>1 DEF AccessInv, RevocationsHold
  <2>7. UNCHANGED <<granted, rows, late, accessHub>>
    BY <1>1, <1>4 DEF accessHub
  <2> QED BY <2>4, <2>5, <2>6, <2>7, OnlyMoves DEF LiftsNothing
<1>5. CASE Access!At(t, "signout") /\ Access!End(t) /\ confirmed' = (confirmed \/ ~(giving \/ Access!Lifting))
  <2>1. task' = [task EXCEPT ![t] = Access!NoTask]
    BY <1>5 DEF Access!End
  <2>2. PICK y : y = Access!NoTask
    OBVIOUS
  <2>3. WorkOk(y) /\ LiftsNothing(y) /\ ~Denying(y) /\ ~RelayDenied(y) /\ task' = [task EXCEPT ![t] = y]
    BY <2>1, <2>2, EndsOk
  <2>4. /\ PairTables' /\ ApprovedWasPaired' /\ TasksOk' /\ LateOk'
        /\ task'[t] = y /\ \A s \in Tasks : s # t => task'[s] = task[s]
    BY <1>1, <2>3, TaskKept
  <2>5. Denying(task[t]) /\ RelayDenied(task[t])
    BY <1>1, <1>5 DEF Access!At, Denying, RelayDenied
  <2>6. HubTypes' /\ Access!DeniedForgets' /\ ~leaked'
    BY <1>1 DEF AccessInv, HubTypes, Access!DeniedForgets
  <2>7. RevocationsHold'
    BY <1>1, <2>3, <2>4 DEF AccessInv, RevocationsHold, Denying, RelayDenied
  <2>8. ConfirmedEverywhere'
    <3>1. CASE confirmed
      BY <1>1, <2>3, <2>4, <3>1 DEF AccessInv, ConfirmedEverywhere, LiftsNothing
    <3>2. CASE ~giving /\ ~Access!Lifting
      <4>1. denied /\ relayDenied
        BY <2>5, <3>2 DEF AccessInv, RevocationsHold
      <4>2. /\ \A x \in late : x.at \notin {"unrevoke", "restore"}
            /\ \A s \in Tasks : task[s].at \notin {"unrevoke", "restore"}
        BY <3>2 DEF Access!Lifting
      <4> QED BY <1>1, <2>3, <2>4, <4>1, <4>2 DEF ConfirmedEverywhere, LiftsNothing
    <3>3. CASE ~confirmed'
      BY <3>3 DEF ConfirmedEverywhere
    <3> QED BY <1>5, <3>1, <3>2, <3>3
  <2> QED BY <2>4, <2>6, <2>7, <2>8 DEF AccessInv
<1> QED BY <1>3, <1>4, <1>5 DEF Access!RevokeContinues

LEMMA UnrevokedKeeps == ASSUME AccessInv, NEW t \in Tasks, Access!Unrevoked(t) PROVE AccessInv'
<1>1. /\ UNCHANGED <<granted, rows, late, queued, relayDenied, on, confirmed, leaked>>
      /\ task[t].kind \in {"register", "claim"} /\ task[t].at = "unrevoke" /\ task[t].ans # Waiting
      /\ giving' = (giving \/ denied # denied')
  BY DEF Access!Unrevoked, Access!account, Access!At
<1>2. \/ /\ task[t].ans = TRUE /\ denied' = FALSE /\ phoneAuth' = "none" /\ hostAuth' = FALSE
         /\ Access!Goto(t, "restore")
      \/ Access!Goto(t, "ensure") /\ UNCHANGED <<denied, phoneAuth, hostAuth>>
      \/ Access!End(t) /\ UNCHANGED <<denied, phoneAuth, hostAuth>>
  BY DEF Access!Unrevoked, Access!Got, Access!ForgetCaches
<1>3. WorkOk(task[t])
  BY Going DEF AccessInv
<1>4. CASE /\ task[t].ans = TRUE /\ denied' = FALSE /\ phoneAuth' = "none" /\ hostAuth' = FALSE
           /\ Access!Goto(t, "restore")
  <2>1. ~confirmed
    <3>1. task[t].ans \notin {Waiting, Lost}
      BY <1>1, <1>4
    <3> QED BY <1>1, <3>1 DEF AccessInv, ConfirmedEverywhere, LiftsNothing
  <2>2. PICK y : y = [kind |-> task[t].kind, at |-> "restore", ans |-> Waiting, n |-> task[t].n]
    OBVIOUS
  <2>3. task' = [task EXCEPT ![t] = y]
    BY <1>4, <2>2, Going DEF AccessInv
  <2>4. WorkOk(y) /\ y.at = "restore"
    BY <1>1, <1>3, <2>2, GoesOk DEF Access!Calls
  <2>5. /\ PairTables' /\ ApprovedWasPaired' /\ TasksOk' /\ LateOk'
        /\ task'[t] = y /\ \A s \in Tasks : s # t => task'[s] = task[s]
    BY <1>1, <2>3, <2>4, TaskKept
  <2>6. HubTypes' /\ ~leaked' /\ Access!DeniedForgets'
    BY <1>1, <1>4 DEF AccessInv, HubTypes, Access!DeniedForgets
  <2>7. ~giving' => ~giving /\ ~denied
    BY <1>1, <1>4
  <2>8. RevocationsHold'
    BY <1>1, <2>4, <2>5, <2>7 DEF AccessInv, RevocationsHold, Denying, RelayDenied
  <2>9. ConfirmedEverywhere'
    BY <1>1, <2>1 DEF ConfirmedEverywhere
  <2> QED BY <2>5, <2>6, <2>8, <2>9 DEF AccessInv
<1>5. CASE UNCHANGED <<denied, phoneAuth, hostAuth>> /\ (Access!Goto(t, "ensure") \/ Access!End(t))
  <2>1. UNCHANGED <<granted, rows, late, denied, phoneAuth, hostAuth, queued, relayDenied, on, confirmed, leaked>>
    BY <1>1, <1>5
  <2>2. giving' = (giving \/ FALSE)
    BY <1>1, <1>5
  <2>3. PICK y : /\ WorkOk(y) /\ task' = [task EXCEPT ![t] = y]
                 /\ LiftsNothing(y) /\ ~Denying(y) /\ ~RelayDenied(y)
    <3>1. CASE Access!End(t)
      BY <3>1, EndsOk DEF Access!End
    <3>2. CASE Access!Goto(t, "ensure")
      <4>1. PICK y : y = [kind |-> task[t].kind, at |-> "ensure", ans |-> Waiting, n |-> task[t].n]
        OBVIOUS
      <4>2. task' = [task EXCEPT ![t] = y]
        BY <3>2, <4>1, Going DEF AccessInv
      <4>3. task[t].kind \notin ApprovalKinds
        BY <1>1 DEF ApprovalKinds
      <4>4. WorkOk(y) /\ y.at = "ensure"
        BY <1>3, <4>1, <4>3, GoesOk DEF Access!Calls
      <4> QED BY <4>2, <4>4 DEF LiftsNothing, Denying, RelayDenied
    <3> QED BY <1>5, <3>1, <3>2
  <2>4. /\ PairTables' /\ ApprovedWasPaired' /\ TasksOk' /\ LateOk'
        /\ task'[t] = y /\ \A s \in Tasks : s # t => task'[s] = task[s]
    BY <2>1, <2>3, TaskKept
  <2>5. HubTypes' /\ ~leaked' /\ Access!DeniedForgets'
    BY <2>1 DEF AccessInv, HubTypes, Access!DeniedForgets
  <2>6. RevocationsHold'
    BY <2>1, <2>2, <2>3, <2>4 DEF AccessInv, RevocationsHold, Denying, RelayDenied
  <2>7. ConfirmedEverywhere'
    BY <2>1, <2>3, <2>4 DEF AccessInv, ConfirmedEverywhere, LiftsNothing
  <2> QED BY <2>4, <2>5, <2>6, <2>7 DEF AccessInv
<1> QED BY <1>2, <1>4, <1>5

\* Envelopes pass only while the pair is not denied.
LEMMA PassesOk ==
  ASSUME AccessInv, ~denied PROVE ~confirmed
BY DEF AccessInv, ConfirmedEverywhere

LEMMA EnvelopeKeeps ==
  ASSUME AccessInv, NEW t \in Tasks, NEW x \in {"phone", "host"}, Access!Envelope(t, x)
  PROVE  AccessInv'
<1> DEFINE waiting == IF left' = left THEN queued \ {x} ELSE queued
<1>1. UNCHANGED <<granted, rows, late, denied, hostAuth, relayDenied, on, confirmed, giving>>
  BY DEF Access!Envelope, Access!account
<1>0. PICK y : y = [kind |-> x, at |-> "rows", ans |-> Waiting, n |-> 0]
  OBVIOUS
<1>2. WorkOk(y) /\ LiftsNothing(y) /\ ~Denying(y) /\ ~RelayDenied(y)
  BY <1>0, BeginsOk
<1>4. [Access!NoTask EXCEPT !.kind = x, !.at = "rows"] = y
  BY ONLY <1>0, Begun
<1>3. \/ ~denied /\ Access!LetThrough(x, waiting) /\ task' = task /\ phoneAuth' \in {"told", phoneAuth}
      \/ queued' = waiting /\ phoneAuth' = phoneAuth /\ leaked' = leaked
           /\ task' \in {task, [task EXCEPT ![t] = y]}
  BY <1>4 DEF Access!Envelope
<1>5. HubTypes' /\ ~leaked' /\ Access!DeniedForgets'
  <2>1. CASE ~denied /\ Access!LetThrough(x, waiting) /\ task' = task /\ phoneAuth' \in {"told", phoneAuth}
    <3>1. ~leaked'
      BY <2>1, PassesOk DEF AccessInv, Access!LetThrough
    <3>2. queued' \subseteq {"phone", "host"}
      BY <2>1 DEF AccessInv, HubTypes, Access!LetThrough
    <3> QED BY <1>1, <2>1, <3>1, <3>2 DEF AccessInv, HubTypes, Access!DeniedForgets
  <2>2. CASE queued' = waiting /\ phoneAuth' = phoneAuth /\ leaked' = leaked
    BY <1>1, <2>2 DEF AccessInv, HubTypes, Access!DeniedForgets
  <2> QED BY <1>3, <2>1, <2>2
<1>6. CASE task' = task
  <2>1. PairTables' /\ ApprovedWasPaired' /\ TasksOk' /\ LateOk'
    BY <1>1, <1>6, NothingMoves
  <2>2. RevocationsHold' /\ ConfirmedEverywhere'
    BY <1>1, <1>6 DEF AccessInv, RevocationsHold, ConfirmedEverywhere, Denying, RelayDenied, LiftsNothing
  <2> QED BY <1>5, <2>1, <2>2 DEF AccessInv
<1>7. CASE task' = [task EXCEPT ![t] = y]
  <2>1. /\ PairTables' /\ ApprovedWasPaired' /\ TasksOk' /\ LateOk'
        /\ task'[t] = y /\ \A s \in Tasks : s # t => task'[s] = task[s]
    BY <1>1, <1>2, <1>7, TaskKept
  <2>2. RevocationsHold'
    BY <1>1, <1>2, <2>1 DEF AccessInv, RevocationsHold, Denying, RelayDenied
  <2>3. ConfirmedEverywhere'
    BY <1>1, <1>2, <2>1 DEF AccessInv, ConfirmedEverywhere, LiftsNothing
  <2> QED BY <1>5, <2>1, <2>2, <2>3 DEF AccessInv
<1> QED BY <1>3, <1>6, <1>7

LEMMA EnvelopeAuthorizedKeeps ==
  ASSUME AccessInv, NEW t \in Tasks, Access!EnvelopeAuthorized(t) PROVE AccessInv'
<1>1. /\ UNCHANGED <<granted, rows, late, denied, relayDenied, on, confirmed, giving>>
      /\ task' = [task EXCEPT ![t] = Access!NoTask] /\ task[t].kind \in {"phone", "host"}
  BY DEF Access!EnvelopeAuthorized, Access!account, Access!End
<1>2. \/ ~denied /\ Access!LetThrough(task[t].kind, queued) /\ phoneAuth' \in {"told", "untold", phoneAuth}
      \/ UNCHANGED <<phoneAuth, hostAuth, queued, leaked>>
  BY DEF Access!EnvelopeAuthorized, Access!StillAllowed
<1>3. PICK y : WorkOk(y) /\ LiftsNothing(y) /\ ~Denying(y) /\ ~RelayDenied(y) /\ y = Access!NoTask
  BY EndsOk
<1>4. /\ PairTables' /\ ApprovedWasPaired' /\ TasksOk' /\ LateOk'
      /\ task'[t] = y /\ \A s \in Tasks : s # t => task'[s] = task[s]
  BY <1>1, <1>3, TaskKept
<1>5. HubTypes' /\ ~leaked' /\ Access!DeniedForgets'
  <2>1. CASE ~denied /\ Access!LetThrough(task[t].kind, queued) /\ phoneAuth' \in {"told", "untold", phoneAuth}
    <3>1. ~leaked'
      BY <2>1, PassesOk DEF AccessInv, Access!LetThrough
    <3>2. queued' \subseteq {"phone", "host"}
      BY <1>1, <2>1 DEF AccessInv, HubTypes, Access!LetThrough
    <3> QED BY <1>1, <2>1, <3>1, <3>2 DEF AccessInv, HubTypes, Access!DeniedForgets
  <2>2. CASE UNCHANGED <<phoneAuth, hostAuth, queued, leaked>>
    BY <1>1, <2>2 DEF AccessInv, HubTypes, Access!DeniedForgets
  <2> QED BY <1>2, <2>1, <2>2
<1>6. RevocationsHold'
  BY <1>1, <1>3, <1>4 DEF AccessInv, RevocationsHold, Denying, RelayDenied
<1>7. ConfirmedEverywhere'
  BY <1>1, <1>3, <1>4 DEF AccessInv, ConfirmedEverywhere, LiftsNothing
<1> QED BY <1>4, <1>5, <1>6, <1>7 DEF AccessInv

LEMMA OthersKeep ==
  ASSUME AccessInv,
         \/ Access!SignIn \/ Access!CacheExpires \/ Access!Toggle("host")
         \/ UNCHANGED Access!vars
  PROVE  AccessInv'
<1>1. UNCHANGED <<granted, rows, late, task, denied, relayDenied, confirmed, giving, leaked, queued>>
  BY DEF Access!SignIn, Access!CacheExpires, Access!Toggle, Access!vars, Access!account, Access!hub
<1>2. PairTables' /\ ApprovedWasPaired' /\ TasksOk' /\ LateOk'
  BY <1>1, NothingMoves
<1>3. RevocationsHold' /\ ConfirmedEverywhere' /\ ~leaked'
  BY <1>1 DEF AccessInv, RevocationsHold, ConfirmedEverywhere, Denying, RelayDenied, LiftsNothing
<1>4. HubTypes' /\ Access!DeniedForgets'
  <2>1. CASE Access!SignIn \/ UNCHANGED Access!vars
    <3>1. UNCHANGED <<phoneAuth, hostAuth, queued, on, denied>>
      BY <2>1 DEF Access!SignIn, Access!vars, Access!hub
    <3> QED BY <3>1 DEF AccessInv, HubTypes, Access!DeniedForgets
  <2>2. CASE Access!CacheExpires
    BY <1>1, <2>2 DEF AccessInv, HubTypes, Access!DeniedForgets, Access!CacheExpires, Access!ForgetCaches
  <2>3. CASE Access!Toggle("host")
    <3>1. phoneAuth' \in {phoneAuth, "untold"} /\ (phoneAuth = "none" => phoneAuth' = "none")
      BY <2>3 DEF Access!Toggle
    <3>2. on' \subseteq {"phone", "host"} /\ hostAuth' = hostAuth
      BY <2>3 DEF Access!Toggle, AccessInv, HubTypes
    <3> QED BY <1>1, <3>1, <3>2 DEF AccessInv, HubTypes, Access!DeniedForgets
  <2> QED BY <2>1, <2>2, <2>3
<1> QED BY <1>2, <1>3, <1>4 DEF AccessInv

\* What goes on without its handler.
LEMMA LeftBehindOk ==
  ASSUME NEW x, WorkOk(x), NEW y \in Access!LeftBehind(x)
  PROVE  /\ WorkOk(y) /\ y.at \in Access!Calls /\ y.ans = Waiting
         /\ LiftsNothing(x) => LiftsNothing(y)
<1>1. CASE y = x /\ x.at \in Access!Calls /\ x.ans = Waiting
  BY <1>1
<1>2. CASE x.at = "deny" /\ y = [x EXCEPT !.at = "revoke", !.ans = Waiting]
  <2>1. x = [kind |-> x.kind, at |-> x.at, ans |-> x.ans, n |-> x.n] /\ x.kind = "revoke"
    BY <1>2 DEF WorkOk
  <2>2. y = [kind |-> "revoke", at |-> "revoke", ans |-> Waiting, n |-> x.n]
    BY <1>2, <2>1
  <2>3. WorkOk(y) /\ y.at = "revoke" /\ y.ans = Waiting
    BY <2>1, <2>2, GoesOk DEF Access!Calls
  <2> QED BY <2>3 DEF LiftsNothing, Access!Calls
<1> QED BY <1>1, <1>2 DEF Access!LeftBehind

AnswersWith(t, a) == task' = [task EXCEPT ![t].ans = a]

LEMMA Answering ==
  ASSUME TasksOk, NEW t \in Tasks, NEW a, AnswersWith(t, a),
         NEW y, y = [kind |-> task[t].kind, at |-> task[t].at, ans |-> a, n |-> task[t].n]
  PROVE  /\ task' = [task EXCEPT ![t] = y]
         /\ y = [kind |-> y.kind, at |-> y.at, ans |-> y.ans, n |-> y.n]
         /\ y.kind = task[t].kind /\ y.at = task[t].at /\ y.ans = a /\ y.n = task[t].n
<1>1. task[t] = [kind |-> task[t].kind, at |-> task[t].at, ans |-> task[t].ans, n |-> task[t].n]
  BY Going
<1>2. task = [s \in Tasks |-> task[s]]
  BY DEF TasksOk
<1>3. task' = [task EXCEPT ![t].ans = a]
  BY DEF AnswersWith
<1>4. /\ task'[t] = y
      /\ task' = [s \in Tasks |-> task'[s]] /\ \A s \in Tasks \ {t} : task'[s] = task[s]
  BY <1>1, <1>2, <1>3
<1>5. task' = [task EXCEPT ![t] = y]
  BY <1>2, <1>4
<1>6. y.kind = task[t].kind /\ y.at = task[t].at /\ y.ans = a /\ y.n = task[t].n
  OBVIOUS
<1> QED BY <1>5, <1>6

LEMMA LoseKeeps == ASSUME AccessInv, NEW t \in Tasks, Access!Lose(t) PROVE AccessInv'
<1>1. /\ UNCHANGED <<granted, rows, accessHub>> /\ late' = late \cup Access!LeftBehind(task[t])
      /\ AnswersWith(t, Lost)
  BY DEF Access!Lose, Access!account, Access!hub, accessHub, AnswersWith
<1>2. WorkOk(task[t]) /\ task[t] = [kind |-> task[t].kind, at |-> task[t].at, ans |-> task[t].ans, n |-> task[t].n]
  BY Going DEF AccessInv
<1>3. PICK y : y = [kind |-> task[t].kind, at |-> task[t].at, ans |-> Lost, n |-> task[t].n]
  OBVIOUS
<1>4. TasksOk
  BY DEF AccessInv
<1>5. /\ task' = [task EXCEPT ![t] = y]
      /\ y = [kind |-> y.kind, at |-> y.at, ans |-> y.ans, n |-> y.n]
      /\ y.kind = task[t].kind /\ y.at = task[t].at /\ y.ans = Lost /\ y.n = task[t].n
  BY <1>1, <1>3, <1>4, Answering
<1>6. WorkOk(y)
  BY <1>2, <1>5 DEF WorkOk
<1>7. /\ LiftsNothing(task[t]) => LiftsNothing(y)
      /\ Denying(y) => Denying(task[t])
      /\ RelayDenied(y) => RelayDenied(task[t])
  BY <1>5 DEF LiftsNothing, Denying, RelayDenied
<1>8. PairTables' /\ ApprovedWasPaired' /\ PairIds' = PairIds /\ (WasPaired => WasPaired')
  BY <1>1, TablesKept DEF AccessInv
<1>9. /\ TasksOk' /\ task'[t] = y
      /\ \A s \in Tasks : s # t => task'[s] = task[s]
  BY <1>4, <1>5, <1>6, <1>8, TaskMoves
<1>10. \A x \in late' : /\ WorkOk(x) /\ x.at \in Access!Calls /\ x.ans = Waiting
                        /\ x \in late \/ (LiftsNothing(task[t]) => LiftsNothing(x))
  BY <1>1, <1>2, LeftBehindOk DEF AccessInv, LateOk
<1>11. LateOk'
  <2>1. \A x \in late' : WorkOk(x)'
    BY <1>8, <1>10, WorkStaysOk
  <2> QED BY <1>10, <2>1 DEF LateOk, WorkOk
<1>12. HubTypes' /\ ~leaked' /\ Access!DeniedForgets'
  BY <1>1 DEF AccessInv, accessHub, HubTypes, Access!DeniedForgets
<1>13. RevocationsHold'
  BY <1>1, <1>7, <1>9 DEF AccessInv, accessHub, RevocationsHold, Denying, RelayDenied
<1>14. ConfirmedEverywhere'
  BY <1>1, <1>7, <1>9, <1>10 DEF AccessInv, accessHub, ConfirmedEverywhere, LiftsNothing
<1> QED BY <1>8, <1>9, <1>11, <1>12, <1>13, <1>14 DEF AccessInv

LEMMA NeverServedKeeps == ASSUME AccessInv, NEW x, Access!NeverServed(x) PROVE AccessInv'
<1>1. UNCHANGED <<granted, rows, task, accessHub>> /\ late' \subseteq late
  BY DEF Access!NeverServed, Access!account, Access!hub, accessHub
<1>2. PairTables' /\ ApprovedWasPaired' /\ PairIds' = PairIds /\ (WasPaired => WasPaired')
  BY <1>1, TablesKept DEF AccessInv
<1>3. TasksOk'
  <2>1. \A t \in Tasks : WorkOk(task[t])'
    <3> SUFFICES ASSUME NEW t \in Tasks PROVE WorkOk(task[t])'
      OBVIOUS
    <3>1. PICK y : y = task[t]
      OBVIOUS
    <3>2. WorkOk(y)'
      BY <1>2, <3>1, WorkStaysOk DEF AccessInv, TasksOk
    <3> QED BY <1>1, <3>1, <3>2 DEF WorkOk
  <2> QED BY <1>1, <2>1 DEF AccessInv, TasksOk
<1>4. LateOk'
  BY <1>1, <1>2, LateKept DEF AccessInv
<1>5. HubTypes' /\ ~leaked' /\ Access!DeniedForgets'
  BY <1>1 DEF AccessInv, accessHub, HubTypes, Access!DeniedForgets
<1>6. RevocationsHold' /\ ConfirmedEverywhere'
  BY <1>1 DEF AccessInv, accessHub, RevocationsHold, ConfirmedEverywhere, Denying, RelayDenied, LiftsNothing
<1> QED BY <1>2, <1>3, <1>4, <1>5, <1>6 DEF AccessInv

LEMMA RebuildKeeps == ASSUME AccessInv, Access!Rebuild PROVE AccessInv'
<1>1. /\ UNCHANGED <<granted, rows, denied, queued, relayDenied, confirmed, giving, leaked>>
      /\ on' = {} /\ phoneAuth' = "none" /\ hostAuth' = FALSE
      /\ task' = [t \in Tasks |-> Access!NoTask]
      /\ late' = late \cup UNION {Access!LeftBehind(task[t]) : t \in Tasks}
  BY DEF Access!Rebuild, Access!account, Access!ForgetCaches
<1>2. PairTables' /\ ApprovedWasPaired' /\ PairIds' = PairIds /\ (WasPaired => WasPaired')
  BY <1>1, TablesKept DEF AccessInv
<1>3. PICK y : WorkOk(y) /\ LiftsNothing(y) /\ ~Denying(y) /\ ~RelayDenied(y) /\ y = Access!NoTask
  BY EndsOk
<1>4. task' = [t \in Tasks |-> y] /\ \A t \in Tasks : task'[t] = y
  BY <1>1, <1>3
<1>5. TasksOk'
  <2>1. WorkOk(y)'
    BY <1>2, <1>3, WorkStaysOk
  <2> QED BY <1>4, <2>1 DEF TasksOk, WorkOk
<1>6. \A x \in late' : x \in late \/ \E t \in Tasks : x \in Access!LeftBehind(task[t])
  BY <1>1
<1>7. \A t \in Tasks : WorkOk(task[t])
  BY DEF AccessInv, TasksOk
<1>8. \A x \in late' : /\ WorkOk(x) /\ x.at \in Access!Calls /\ x.ans = Waiting
                       /\ confirmed => LiftsNothing(x)
  <2> SUFFICES ASSUME NEW x \in late'
               PROVE  /\ WorkOk(x) /\ x.at \in Access!Calls /\ x.ans = Waiting
                      /\ confirmed => LiftsNothing(x)
    OBVIOUS
  <2>1. CASE x \in late
    BY <2>1 DEF AccessInv, LateOk, ConfirmedEverywhere
  <2>2. CASE \E t \in Tasks : x \in Access!LeftBehind(task[t])
    <3>1. PICK t \in Tasks : x \in Access!LeftBehind(task[t])
      BY <2>2
    <3>2. confirmed => LiftsNothing(task[t])
      BY DEF AccessInv, ConfirmedEverywhere
    <3> QED BY <1>7, <3>1, <3>2, LeftBehindOk
  <2> QED BY <1>6, <2>1, <2>2
<1>9. LateOk'
  <2>1. \A x \in late' : WorkOk(x)'
    BY <1>2, <1>8, WorkStaysOk
  <2> QED BY <1>8, <2>1 DEF LateOk, WorkOk
<1>10. HubTypes' /\ ~leaked' /\ Access!DeniedForgets'
  BY <1>1 DEF AccessInv, HubTypes, Access!DeniedForgets
<1>11. RevocationsHold'
  BY <1>3, <1>4 DEF RevocationsHold, Denying, RelayDenied
<1>12. ConfirmedEverywhere'
  BY <1>1, <1>3, <1>4, <1>8 DEF AccessInv, ConfirmedEverywhere, LiftsNothing
<1> QED BY <1>2, <1>5, <1>9, <1>10, <1>11, <1>12 DEF AccessInv

-----------------------------------------------------------------------------
(* Serving a call. *)

LEMMA CommitKeeps ==
  ASSUME AccessInv, NEW x, WorkOk(x), x.at \in Access!Calls, Access!Commit(x)
  PROVE  /\ PairTables' /\ ApprovedWasPaired' /\ PairIds \subseteq PairIds' /\ (WasPaired => WasPaired')
         /\ ~giving' => ~giving /\ x.at \notin {"unrevoke", "restore"}
         /\ relayDenied /\ x.at # "restore" => relayDenied'
         /\ x.at = "deny" => relayDenied'
         /\ confirmed' => confirmed /\ x.at # "unrevoke"
         /\ CommitOk(x)
<1>1. CommitOk(x)
  BY CallCommits DEF AccessInv
<1>2. PairTables' /\ ApprovedWasPaired' /\ (WasPaired => WasPaired') /\ granted'.next >= granted.next
  BY <1>1 DEF CommitOk, AccessInv
<1>3. PairIds \subseteq PairIds'
  <2>1. granted.next \in Nat
    BY PairRows DEF AccessInv
  <2>2. granted'.next \in Nat
    BY <1>2 DEF PairTables, Sound, Plane
  <2> QED BY <1>2, <2>1, <2>2 DEF PairIds
<1>4. /\ giving' = (giving \/ x.at \in {"unrevoke", "restore"})
      /\ relayDenied' = (x.at = "deny" \/ (relayDenied /\ x.at # "restore"))
      /\ confirmed' = (confirmed /\ x.at # "unrevoke")
  BY DEF Access!Commit, Access!RelayDenial
<1>5. ~giving' => ~giving /\ x.at \notin {"unrevoke", "restore"}
  BY <1>4
<1>6. (relayDenied /\ x.at # "restore" => relayDenied') /\ (x.at = "deny" => relayDenied')
  BY <1>4
<1>7. confirmed' => confirmed /\ x.at # "unrevoke"
  BY <1>4
<1> QED BY <1>1, <1>2, <1>3, <1>5, <1>6, <1>7

LEMMA ServeKeeps == ASSUME AccessInv, NEW t \in Tasks, Access!Serve(t) PROVE AccessInv'
<1>1. /\ task[t].at \in Access!Calls /\ Access!Commit(task[t])
      /\ UNCHANGED <<denied, phoneAuth, hostAuth, queued, on, late, leaked>>
  BY DEF Access!Serve, Access!hub
<1>2. WorkOk(task[t])
  BY Going DEF AccessInv
<1>3. PICK x : x = task[t]
  OBVIOUS
<1>4. WorkOk(x) /\ x.at \in Access!Calls /\ Access!Commit(x)
  BY <1>1, <1>2, <1>3
<1>5. /\ PairTables' /\ ApprovedWasPaired' /\ PairIds \subseteq PairIds' /\ (WasPaired => WasPaired')
      /\ ~giving' => ~giving /\ x.at \notin {"unrevoke", "restore"}
      /\ relayDenied /\ x.at # "restore" => relayDenied'
      /\ x.at = "deny" => relayDenied'
      /\ confirmed' => confirmed /\ x.at # "unrevoke"
      /\ CommitOk(x)
  BY <1>4, CommitKeeps
<1>6. PICK a : /\ AnswersWith(t, a)
               /\ a = IF x.at = "ensure" /\ Access!Answered(x).answer # Refused
                      THEN rows'.again ELSE Access!Answered(x).answer
  BY <1>3 DEF Access!Serve, AnswersWith
<1>7. PICK y : y = [kind |-> task[t].kind, at |-> task[t].at, ans |-> a, n |-> task[t].n]
  OBVIOUS
<1>8. /\ task' = [task EXCEPT ![t] = y]
      /\ y = [kind |-> y.kind, at |-> y.at, ans |-> y.ans, n |-> y.n]
      /\ y.kind = x.kind /\ y.at = x.at /\ y.ans = a /\ y.n = x.n
  <2>1. TasksOk
    BY DEF AccessInv
  <2> QED BY <1>3, <1>6, <1>7, <2>1, Answering
<1>9. WorkOk(y)'
  <2>1. WorkOk(x)'
    BY <1>4, <1>5, WorkStaysOk
  <2>2. x.at = "pending" => a \subseteq PairIds'
    BY <1>5, <1>6 DEF CommitOk
  <2>3. x.at = "ensure" /\ a # Refused => WasPaired'
    BY <1>5, <1>6 DEF CommitOk
  <2> QED BY <1>8, <2>1, <2>2, <2>3 DEF WorkOk
<1>10. \A s \in Tasks : task'[s] = IF s = t THEN y ELSE task[s]
  BY <1>8 DEF AccessInv, TasksOk
<1>11. TasksOk'
  <2>1. task' = [s \in Tasks |-> task'[s]]
    BY <1>8 DEF AccessInv, TasksOk
  <2>2. ASSUME NEW s \in Tasks PROVE WorkOk(task[s])'
    <3>1. PICK z : z = task'[s]
      OBVIOUS
    <3>2. z = y \/ WorkOk(z)
      BY <1>10, <3>1 DEF AccessInv, TasksOk
    <3>3. WorkOk(z)'
      BY <1>5, <1>9, <3>2, WorkStaysOk
    <3> QED BY <3>1, <3>3 DEF WorkOk
  <2> QED BY <2>1, <2>2 DEF TasksOk
<1>12. LateOk'
  BY <1>1, <1>5, LateKept DEF AccessInv
<1>13. HubTypes' /\ ~leaked' /\ Access!DeniedForgets'
  BY <1>1 DEF AccessInv, HubTypes, Access!DeniedForgets
<1>14. RevocationsHold'
  <2> SUFFICES ASSUME ~giving', NEW s \in Tasks
               PROVE  (Denying(task[s])' => denied') /\ (RelayDenied(task[s])' => relayDenied')
    BY DEF RevocationsHold
  <2>1. ~giving /\ (relayDenied => relayDenied')
    BY <1>5
  <2>2. CASE s # t
    BY <1>1, <1>10, <2>1, <2>2 DEF AccessInv, RevocationsHold, Denying, RelayDenied
  <2>3. CASE s = t
    <3>1. Denying(task[s])' => Denying(x)
      BY <1>8, <1>10, <2>3 DEF Denying
    <3>2. RelayDenied(task[s])' => x.at = "deny" \/ RelayDenied(x)
      BY <1>8, <1>10, <2>3 DEF RelayDenied
    <3> QED BY <1>1, <1>3, <1>5, <2>1, <3>1, <3>2 DEF AccessInv, RevocationsHold
  <2> QED BY <2>2, <2>3
<1>15. ConfirmedEverywhere'
  <2> SUFFICES ASSUME confirmed'
               PROVE  /\ denied' /\ relayDenied'
                      /\ \A s \in Tasks : LiftsNothing(task[s])'
                      /\ \A z \in late' : LiftsNothing(z)
    BY DEF ConfirmedEverywhere, LiftsNothing
  <2>1. confirmed /\ x.at # "unrevoke"
    BY <1>5
  <2>2. /\ denied /\ relayDenied /\ x.at # "restore"
        /\ \A s \in Tasks : LiftsNothing(task[s])
        /\ \A z \in late : LiftsNothing(z)
    BY <1>3, <2>1 DEF AccessInv, ConfirmedEverywhere, LiftsNothing
  <2>3. LiftsNothing(y)
    BY <1>8, <2>1, <2>2 DEF LiftsNothing
  <2>4. \A s \in Tasks : LiftsNothing(task[s])'
    BY <1>10, <2>2, <2>3 DEF LiftsNothing
  <2> QED BY <1>1, <1>5, <2>2, <2>4
<1> QED BY <1>5, <1>11, <1>12, <1>13, <1>14, <1>15 DEF AccessInv

LEMMA ServeLateKeeps == ASSUME AccessInv, NEW x \in late, Access!ServeLate(x) PROVE AccessInv'
<1>0. PICK z : z = [x EXCEPT !.ans = TRUE]
  OBVIOUS
<1>1. /\ Access!Commit(x) /\ late' = (late \ {x}) \cup Access!LeftBehind(z)
      /\ UNCHANGED <<denied, phoneAuth, hostAuth, queued, on, task, leaked>>
  BY <1>0 DEF Access!ServeLate, Access!hub
<1>2. WorkOk(x) /\ x.at \in Access!Calls
  BY DEF AccessInv, LateOk
<1>3. /\ PairTables' /\ ApprovedWasPaired' /\ PairIds \subseteq PairIds' /\ (WasPaired => WasPaired')
      /\ ~giving' => ~giving /\ x.at \notin {"unrevoke", "restore"}
      /\ relayDenied /\ x.at # "restore" => relayDenied'
      /\ x.at = "deny" => relayDenied'
      /\ confirmed' => confirmed /\ x.at # "unrevoke"
  BY <1>1, <1>2, CommitKeeps
<1>4. \A y \in late' \ late : /\ WorkOk(y)' /\ y.at \in Access!Calls /\ y.ans = Waiting
                              /\ y.at \in {x.at, "revoke"}
  <2> SUFFICES ASSUME NEW y \in Access!LeftBehind(z)
               PROVE  /\ WorkOk(y)' /\ y.at \in Access!Calls /\ y.ans = Waiting
                      /\ y.at \in {x.at, "revoke"}
    BY <1>1
  <2>1. x = [kind |-> x.kind, at |-> x.at, ans |-> x.ans, n |-> x.n]
    BY <1>2 DEF WorkOk
  <2>2. z = [kind |-> x.kind, at |-> x.at, ans |-> TRUE, n |-> x.n]
    BY <1>0, <2>1
  <2>5. z.kind = x.kind /\ z.at = x.at /\ z.ans = TRUE /\ z.n = x.n
    BY <2>2
  <2>6. CASE y = z /\ z.at \in Access!Calls /\ z.ans = Waiting
    <3>1. y = x
      BY <2>1, <2>2, <2>5, <2>6 DEF AccessInv, LateOk
    <3> QED BY <1>2, <1>3, <2>5, <2>6, <3>1, WorkStaysOk
  <2>7. CASE z.at = "deny" /\ y = [z EXCEPT !.at = "revoke", !.ans = Waiting]
    <3>1. x.kind = "revoke"
      BY <1>2, <2>5, <2>7 DEF WorkOk
    <3>2. y = [kind |-> "revoke", at |-> "revoke", ans |-> Waiting, n |-> x.n]
      BY <2>2, <2>7, <3>1
    <3>3. WorkOk(y) /\ y.at = "revoke" /\ y.ans = Waiting
      BY <1>2, <3>1, <3>2, GoesOk DEF Access!Calls
    <3> QED BY <1>3, <3>3, WorkStaysOk DEF Access!Calls
  <2> QED BY <2>6, <2>7 DEF Access!LeftBehind
<1>5. LateOk'
  <2>1. \A y \in late : WorkOk(y)'
    BY <1>3, WorkStaysOk DEF AccessInv, LateOk
  <2> QED BY <1>1, <1>4, <2>1 DEF AccessInv, LateOk, WorkOk
<1>6. TasksOk'
  <2>1. \A t \in Tasks : WorkOk(task[t])'
    <3> SUFFICES ASSUME NEW t \in Tasks PROVE WorkOk(task[t])'
      OBVIOUS
    <3>1. PICK y : y = task[t]
      OBVIOUS
    <3>2. WorkOk(y)'
      BY <1>3, <3>1, WorkStaysOk DEF AccessInv, TasksOk
    <3> QED BY <1>1, <3>1, <3>2 DEF WorkOk
  <2> QED BY <1>1, <2>1 DEF AccessInv, TasksOk
<1>7. HubTypes' /\ ~leaked' /\ Access!DeniedForgets'
  BY <1>1 DEF AccessInv, HubTypes, Access!DeniedForgets
<1>8. RevocationsHold'
  <2> SUFFICES ASSUME ~giving' PROVE RevocationsHold'
    BY DEF RevocationsHold
  <2>1. ~giving /\ (relayDenied => relayDenied')
    BY <1>3
  <2> QED BY <1>1, <2>1 DEF AccessInv, RevocationsHold, Denying, RelayDenied
<1>9. ConfirmedEverywhere'
  <2> SUFFICES ASSUME confirmed' PROVE ConfirmedEverywhere'
    BY DEF ConfirmedEverywhere
  <2>1. confirmed /\ x.at # "unrevoke"
    BY <1>3
  <2>2. denied /\ relayDenied /\ x.at # "restore" /\ \A y \in late : LiftsNothing(y)
    BY <2>1 DEF AccessInv, ConfirmedEverywhere, LiftsNothing
  <2>3. \A y \in late' : LiftsNothing(y)
    BY <1>1, <1>4, <2>1, <2>2 DEF LiftsNothing
  <2> QED BY <1>1, <1>3, <2>1, <2>2, <2>3 DEF AccessInv, ConfirmedEverywhere, LiftsNothing
<1> QED BY <1>3, <1>5, <1>6, <1>7, <1>8, <1>9 DEF AccessInv

-----------------------------------------------------------------------------
LEMMA AccessBegins == Access!Init => AccessInv
<1> SUFFICES ASSUME Access!Init PROVE AccessInv
  OBVIOUS
<1> DEFINE two == {[id |-> 1, device |-> h1, owner |-> a1], [id |-> 2, device |-> b1, owner |-> a1]}
<1>1. granted = [devices |-> two, codes |-> {}, pairings |-> {}, approvals |-> {}, next |-> 3]
  BY DEF Access!Init, Access!Linked, Access!EmptyPlane, Access!M, Access!B
<1>2. /\ granted.devices = two /\ granted.codes = {} /\ granted.pairings = {}
      /\ granted.approvals = {} /\ granted.next = 3
  BY <1>1
<1>3. Sound(granted)
  <2>1. granted \in Plane
    <3>1. two \subseteq Device
      BY DEF Device
    <3> QED BY <1>1, <3>1 DEF Plane
  <2>2. DevicesSound(granted)
    BY <1>2 DEF DevicesSound, OwnIds
  <2> QED BY <1>2, <2>1, <2>2 DEF Sound, CodesSound, OwnIds, PairingsSound, ApprovalsSound
<1>4. PairTables
  <2>1. rows = [revoked |-> 0, again |-> 0, lifted |-> FALSE]
    BY DEF Access!Init
  <2>2. rows.revoked = 0 /\ rows.again = 0 /\ rows.lifted = FALSE
    BY <2>1
  <2>3. granted = Access!Linked
    BY DEF Access!Init
  <2> QED BY <1>2, <1>3, <2>1, <2>2, <2>3 DEF PairTables
<1>5. ApprovedWasPaired
  BY <1>2 DEF ApprovedWasPaired
<1>6. PICK y : WorkOk(y) /\ LiftsNothing(y) /\ ~Denying(y) /\ ~RelayDenied(y) /\ y = Access!NoTask
  BY EndsOk
<1>7. task = [t \in Tasks |-> y] /\ late = {}
  BY <1>6 DEF Access!Init
<1>8. TasksOk /\ LateOk /\ RevocationsHold
  BY <1>6, <1>7 DEF TasksOk, LateOk, RevocationsHold
<1>9. HubTypes /\ Access!DeniedForgets /\ ConfirmedEverywhere /\ ~leaked
  BY DEF Access!Init, HubTypes, Access!DeniedForgets, ConfirmedEverywhere
<1> QED BY <1>4, <1>5, <1>8, <1>9 DEF AccessInv

LEMMA AccessNext == AccessInv /\ [Access!Next]_(Access!vars) => AccessInv'
<1> SUFFICES ASSUME AccessInv, Access!Next \/ UNCHANGED Access!vars PROVE AccessInv'
  OBVIOUS
<1>1. ASSUME NEW t \in Tasks, Access!Handler(t) PROVE AccessInv'
  BY <1>1, ServeKeeps, RevokeFoundKeeps, RevokeContinuesKeeps, HandlersMove, UnrevokedKeeps,
     RestoredKeeps, EnvelopeAuthorizedKeeps, ApprovalContinuesKeeps DEF Access!Handler
<1>2. ASSUME NEW t \in Tasks,
             Access!Lose(t) \/ Access!Revoke(t) \/ Access!Register(t) \/ Access!Claim(t)
      PROVE  AccessInv'
  BY <1>2, LoseKeeps, HandlersMove
<1>3. ASSUME NEW t \in Tasks, \E x \in {"phone", "host"} : Access!Envelope(t, x) PROVE AccessInv'
  BY <1>3, EnvelopeKeeps
<1>4. ASSUME NEW t \in Tasks,
             \E kind \in {"ask", "expire", "approve", "reject"} : Access!StartApproval(t, kind)
      PROVE  AccessInv'
  BY <1>4, HandlersMove DEF ApprovalKinds
<1>5. ASSUME NEW x \in late, Access!ServeLate(x) \/ Access!NeverServed(x) PROVE AccessInv'
  BY <1>5, ServeLateKeeps, NeverServedKeeps
<1>6. CASE Access!Toggle("host") \/ Access!SignIn \/ Access!CacheExpires \/ UNCHANGED Access!vars
  BY <1>6, OthersKeep
<1>7. CASE Access!Rebuild
  BY <1>7, RebuildKeeps
<1> QED BY <1>1, <1>2, <1>3, <1>4, <1>5, <1>6, <1>7 DEF Access!Next

LEMMA AlwaysAccessInv == Access!Spec => []AccessInv
BY AccessBegins, AccessNext, PTL DEF Access!Spec

\* What a person was told about a browser's access holds in the hub, in the relay
\* and in the account service, whatever is asked, lost, late or forgotten: an
\* envelope never passes between a pair after the Mac was told its revocation is
\* confirmed and before access is given back, the relay denies it too, and an
\* approval says approved only for a pairing that was recorded.
THEOREM ConfirmedAlwaysHolds == Access!Spec => []ConfirmedHolds
<1>1. AccessInv => ConfirmedHolds
  <2> SUFFICES ASSUME AccessInv PROVE ConfirmedHolds
    OBVIOUS
  <2>1. Access!TypeOK
    <3>1. granted \in Access!Plane
      BY DEF AccessInv, PairTables, Sound, Plane, Access!Plane, Device, Access!Device, Code, Access!Code,
         Pairing, Access!Pairing, Approval, Access!Approval
    <3>2. \A x \in late : x.at \in Access!Calls /\ x.ans = Waiting
      BY DEF AccessInv, LateOk
    <3>3. \A t \in Tasks : task[t].at \in Access!Calls \cup {"idle"}
      BY DEF AccessInv, TasksOk, WorkOk
    <3> QED BY <3>1, <3>2, <3>3 DEF AccessInv, HubTypes, Access!TypeOK
  <2>2. Access!DeniedForgets /\ Access!ConfirmedIsCutOff
    BY DEF AccessInv, Access!ConfirmedIsCutOff
  <2>3. Access!ConfirmedOnRelay
    BY DEF AccessInv, ConfirmedEverywhere, Access!ConfirmedOnRelay
  <2>4. Access!ApprovedIsPaired
    BY DEF AccessInv, ApprovedWasPaired, WasPaired, Access!ApprovedIsPaired, Access!M, Access!B
  <2> QED BY <2>1, <2>2, <2>3, <2>4 DEF ConfirmedHolds, Access!ConfirmedHolds
<1> QED BY <1>1, AlwaysAccessInv, PTL

LEMMA AccessStepServes ==
  ASSUME AccessInv, [Access!Next]_(Access!vars) PROVE [Access!Service!Next]_granted
<1>1. ASSUME NEW x, WorkOk(x), x.at \in Access!Calls, Access!Commit(x)
      PROVE  [Access!Service!Next]_granted
  BY <1>1, CommitKeeps DEF CommitOk
<1>2. ASSUME NEW t \in Tasks, Access!Serve(t) PROVE [Access!Service!Next]_granted
  <2>1. WorkOk(task[t])
    BY Going DEF AccessInv
  <2>2. task[t].at \in Access!Calls /\ Access!Commit(task[t])
    BY <1>2 DEF Access!Serve
  <2> QED BY <1>1, <2>1, <2>2
<1>3. ASSUME NEW x \in late, Access!ServeLate(x) PROVE [Access!Service!Next]_granted
  BY <1>1, <1>3 DEF Access!ServeLate, AccessInv, LateOk
<1>4. ASSUME NEW t \in Tasks,
             \/ Access!RevokeFound(t) \/ Access!RevokeContinues(t) \/ Access!Listed(t)
             \/ Access!SignedOutByMac(t) \/ Access!Unrevoked(t) \/ Access!Restored(t)
             \/ Access!GivenBack(t) \/ Access!EnvelopeChecked(t) \/ Access!EnvelopeAuthorized(t)
             \/ Access!EnvelopeRefused(t) \/ Access!ApprovalContinues(t)
      PROVE  granted' = granted
  BY <1>4 DEF Access!account, Access!RevokeFound, Access!RevokeContinues, Access!Listed,
     Access!SignedOutByMac, Access!Unrevoked, Access!Restored, Access!GivenBack,
     Access!EnvelopeChecked, Access!EnvelopeAuthorized, Access!EnvelopeRefused,
     Access!ApprovalContinues
<1>5. ASSUME NEW t \in Tasks,
             \/ Access!Lose(t) \/ Access!Revoke(t) \/ Access!Register(t) \/ Access!Claim(t)
             \/ \E x \in {"phone", "host"} : Access!Envelope(t, x)
             \/ \E kind \in {"ask", "expire", "approve", "reject"} : Access!StartApproval(t, kind)
      PROVE  granted' = granted
  BY <1>5 DEF Access!account, Access!Lose, Access!Revoke, Access!Register, Access!Claim,
     Access!Envelope, Access!StartApproval
<1>6. CASE \/ \E x \in late : Access!NeverServed(x)
           \/ Access!Toggle("host") \/ Access!SignIn \/ Access!CacheExpires \/ Access!Rebuild
           \/ UNCHANGED Access!vars
  BY <1>6 DEF Access!account, Access!vars, Access!NeverServed, Access!Toggle, Access!SignIn,
     Access!CacheExpires, Access!Rebuild
<1> QED BY <1>2, <1>3, <1>4, <1>5, <1>6 DEF Access!Next, Access!Handler

\* Whatever the handlers of the pair do, and whichever of their calls are lost
\* or late, the account's tables change as the account service's mutations
\* change them: PairAccess implements AccountService.
THEOREM AccessUsesTheService == Access!Spec => AccessImplementsService
<1>1. Access!Init => Access!Service!Init
  BY DEF Access!Init, Access!Service!Init
<1>2. AccessInv /\ [Access!Next]_(Access!vars) => [Access!Service!Next]_granted
  BY AccessStepServes
<1> QED BY <1>1, <1>2, AlwaysAccessInv, PTL
        DEF Access!Spec, AccessImplementsService, Access!ImplementsService, Access!Service!Spec
=============================================================================
