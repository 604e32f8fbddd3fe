------------------------- MODULE PhoneAccountProofs -------------------------
(***************************************************************************)
(* A sign-out empties the page whatever is still under way, and the list   *)
(* of Macs is the account's: no Mac this page removed, unless it removed   *)
(* it while a list was being saved, and read by a browser the account      *)
(* knows.                                                                  *)
(*                                                                         *)
(* None of it is inductive: the page is written by synchronizations and    *)
(* refreshes that read what they write long before.  What they have in     *)
(* hand is described by NewestSync and RefreshUnderWay for those that are  *)
(* not overtaken, and by ListsAreEdited for all.                           *)
(*                                                                         *)
(* The tabs of a browser share one session: they agree on its account once *)
(* they have heard of it, and it leaves the browser only when it has ended *)
(* or its revocation is queued.  Here it is enough that a tab away at a    *)
(* provider shows nothing and waits for nothing.                           *)
(***************************************************************************)
EXTENDS MCPhoneAccount, TLAPS

Stages == {"clear", "stored", "register", "answer", "save"}
Routes == {"loading", "auth", "hosts", "workspace"}

SyncType ==
  [v : Nat, account : Accounts \cup {None}, keep : BOOLEAN, leaves : BOOLEAN, pc : Stages,
   stored : Macs \cup {None}, seen : Routes, then : Routes \cup {""}, mark : Nat, list : SUBSET Macs]

RefreshType ==
  [pc : {"idle", "wait", "session", "fetch", "answer", "save"}, background : BOOLEAN, v : Nat,
   account : Accounts \cup {None}, mark : Nat, list : SUBSET Macs, trusted : BOOLEAN,
   chosen : Macs \cup {None}]

UiType ==
  [user : Accounts \cup {None}, hosts : SUBSET Macs, status : {"idle", "loading", "loaded", "error"},
   trusted : BOOLEAN, paired : Macs \cup {None}, route : Routes, signingOut : BOOLEAN]

\* The types of the page's own state, and of what it has under way.
PageTypes ==
  /\ ui \in UiType /\ saved \in Macs \cup {None} /\ version \in 0 .. MaxSyncs
  /\ reg \in [version : Nat, running : BOOLEAN, succeeded : BOOLEAN] /\ reg.version = version
  /\ edits \in Seq(Macs) /\ overtaken \in BOOLEAN
WorkTypes ==
  /\ syncs \subseteq SyncType /\ refresh \in RefreshType
  /\ removal \in [pc : {"idle", "sent", "removed", "recheck"}, mac : Macs \cup {None},
                  account : Accounts \cup {None}]
  /\ removal.pc # "idle" => removal.mac \in Macs
  /\ opening # None => opening \in [mac : Macs, account : Accounts]
OutsideTypes ==
  /\ session \in Accounts \cup {None}
  /\ event = <<>> \/ \E a \in Accounts \cup {None} : event = <<a>>
  /\ server \in [macs : [Accounts -> SUBSET Macs], known : SUBSET Accounts]
  /\ gone \subseteq Macs /\ late \subseteq Macs
Types == PageTypes /\ WorkTypes /\ OutsideTypes

\* Every synchronization has a version of its own, and one past its wait for
\* IndexedDB has an account, a place in the edits and a route to go to.
SyncsApart ==
  /\ \A s \in syncs : s.v <= version
  /\ \A s, t \in syncs : s.v = t.v => s = t
SyncsUnderWay ==
  \A s \in syncs : s.pc \in {"register", "answer", "save"} =>
    s.account # None /\ s.mark <= Len(edits) /\ s.then \in {"hosts", "workspace"}

\* What holds of the page while its newest synchronization runs.
Alone(s) ==
  /\ reg.running
  /\ s.pc # "save" => ~reg.succeeded
  /\ s.pc = "clear" => ui.user = None
  /\ s.pc = "stored" => ui.user \in {None, s.account}
  /\ s.pc \in {"register", "answer", "save"} => ui.user # None
  /\ s.pc \in {"answer", "save"} => s.account \in server.known
  /\ ui.signingOut => s.account = None
  /\ s.account # None /\ session # None /\ event = <<>> => s.account = session
NewestSync == \A s \in syncs : s.v = version => Alone(s)

\* A session was announced that is not the account on the page: the page will leave it.
Overruled == event # <<>> /\ Head(event) # ui.user

\* What holds once the newest session's registration succeeded.
Registered ==
  /\ reg.succeeded => ui.user # None /\ ~ui.signingOut
  /\ reg.succeeded /\ ~reg.running =>
       ui.user \in server.known /\ (event = <<>> /\ session # None => ui.user = session)

\* A refresh of the newest version began after its registration.
RefreshUnderWay ==
  refresh.pc \in {"fetch", "answer", "save"} =>
    /\ refresh.account # None /\ refresh.mark <= Len(edits) /\ refresh.v <= version
    /\ refresh.v = version =>
         /\ reg.succeeded /\ ~reg.running
         /\ Overruled \/ IF refresh.pc = "fetch" THEN refresh.account \in server.known
                         ELSE refresh.trusted

\* An untrusted list is on the page only until the session it is of takes over.
UntrustedIsOverruled ==
  ui.status = "loaded" =>
    ui.user # None /\ (ui.trusted \/ (reg.succeeded /\ Overruled))

EventIsSession == event # <<>> /\ session # None => Head(event) = session
RouteIsShown == ui.user # None => ui.route \notin {"loading", "auth"}

\* A Mac this page removed is in no account, and no list on its way brings it back.
GoneIsUnlinked == \A m \in gone, a \in Accounts : m \notin server.macs[a]
ListsAreEdited ==
  /\ \A s \in syncs : /\ s.pc = "answer" => gone \cap Edited(s.list, s.mark) = {}
                      /\ s.pc = "save" => (gone \ late) \cap s.list = {}
  /\ refresh.pc = "answer" => gone \cap Edited(refresh.list, refresh.mark) = {}
  /\ refresh.pc = "save" => (gone \ late) \cap refresh.list = {}

Inv ==
  /\ Types /\ SyncsApart /\ SyncsUnderWay /\ NewestSync /\ Registered /\ RefreshUnderWay
  /\ UntrustedIsOverruled /\ EventIsSession /\ RouteIsShown
  /\ SignOutWins /\ GoneIsUnlinked /\ ListsAreEdited /\ OldListsAreEdited

-----------------------------------------------------------------------------
(* The three ways the synchronizations under way change.                   *)

\* A synchronization n begins: what the others and a refresh have in hand is overtaken.
LEMMA StartKeeps ==
  ASSUME Inv, NEW n \in SyncType, n.v = version + 1, n.pc \in {"clear", "stored"},
         version' = version + 1, version' <= MaxSyncs,
         reg' = [version |-> version + 1, running |-> TRUE, succeeded |-> FALSE],
         syncs' \subseteq syncs \cup {n},
         ui' \in UiType, ui'.user \in {None, n.account}, n.pc = "clear" => ui'.user = None,
         ui'.signingOut => n.account = None,
         ui'.status = "loaded" => ui'.user # None /\ ui'.trusted,
         SignOutWins', RouteIsShown', OldListsAreEdited',
         saved' \in Macs \cup {None}, OutsideTypes', EventIsSession',
         n.account # None /\ session' # None /\ event' = <<>> => n.account = session',
         refresh' \in RefreshType, refresh' = refresh \/ refresh'.pc = "wait",
         UNCHANGED <<removal, opening, edits, server, gone, late, overtaken>>
  PROVE  Inv'
<1>0. Types /\ SyncsApart /\ SyncsUnderWay /\ RefreshUnderWay /\ ListsAreEdited
  BY DEF Inv
<1>v. version \in Nat /\ version' \in 0 .. MaxSyncs
  BY <1>0, AccountAssumption DEF Types, PageTypes
<1>1. Types'
  <2>1. PageTypes'
    BY <1>0, <1>v DEF Types, PageTypes
  <2>2. WorkTypes'
    BY <1>0 DEF Types, WorkTypes
  <2> QED BY <2>1, <2>2 DEF Types
<1>t. \A s \in syncs : s.v \in Nat /\ s.v <= version
  BY <1>0 DEF Types, WorkTypes, SyncType, SyncsApart
<1>2. SyncsApart'
  <2>1. \A s \in syncs : s.v <= version'
    BY <1>t, <1>v
  <2>2. ASSUME NEW s \in syncs', NEW t \in syncs', s.v = t.v PROVE s = t
    <3>1. CASE s \in syncs /\ t \in syncs
      BY <1>0, <2>2, <3>1 DEF SyncsApart
    <3>2. CASE s = n \/ t = n
      BY <1>t, <1>v, <2>2, <3>2
    <3> QED BY <3>1, <3>2
  <2> QED BY <2>1, <2>2 DEF SyncsApart
<1>3. SyncsUnderWay'
  BY <1>0 DEF SyncsUnderWay
<1>4. NewestSync'
  <2> SUFFICES ASSUME NEW s \in syncs', s.v = version' PROVE Alone(s)'
    BY DEF NewestSync
  <2>1. s = n
    BY <1>t, <1>v
  <2> QED BY <2>1 DEF Alone
<1>5. Registered'
  BY DEF Registered
<1>6. RefreshUnderWay'
  <2> SUFFICES ASSUME refresh' = refresh, refresh.pc \in {"fetch", "answer", "save"}
               PROVE  RefreshUnderWay'
    BY DEF RefreshUnderWay
  <2>1. refresh.account # None /\ refresh.mark <= Len(edits) /\ refresh.v <= version
    BY <1>0 DEF RefreshUnderWay
  <2>2. refresh.v \in Nat
    BY <1>0 DEF Types, WorkTypes, RefreshType
  <2>3. refresh.v <= version' /\ refresh.v # version'
    BY <1>v, <2>1, <2>2
  <2> QED BY <2>1, <2>3 DEF RefreshUnderWay
<1>7. UntrustedIsOverruled'
  BY DEF UntrustedIsOverruled
<1>8. GoneIsUnlinked'
  BY DEF Inv, GoneIsUnlinked
<1>9. ListsAreEdited'
  BY <1>0 DEF ListsAreEdited, Edited
<1> QED BY <1>1, <1>2, <1>3, <1>4, <1>5, <1>6, <1>7, <1>8, <1>9 DEF Inv

\* A synchronization s goes on as N, which is one synchronization or none.
LEMMA SyncKeeps ==
  ASSUME Inv, NEW s \in syncs, NEW N \in SUBSET SyncType,
         syncs' = (syncs \ {s}) \cup N,
         \A n, m \in N : n = m,
         \A n \in N : /\ n.v = s.v
                      /\ n.pc \in {"register", "answer", "save"} =>
                           n.account # None /\ n.mark <= Len(edits) /\ n.then \in {"hosts", "workspace"}
                      /\ n.pc = "answer" => gone \cap Edited(n.list, n.mark) = {}
                      /\ n.pc = "save" => (gone \ late) \cap n.list = {},
         s.v # version => UNCHANGED <<ui, reg>>,
         s.v = version => /\ \A n \in N : Alone(n)'
                          /\ ui' \in UiType /\ Registered'
                          /\ UntrustedIsOverruled' /\ RouteIsShown' /\ SignOutWins' /\ OldListsAreEdited'
                          /\ reg' \in [version : Nat, running : BOOLEAN, succeeded : BOOLEAN]
                          /\ reg'.version = version,
         saved' \in Macs \cup {None},
         server' \in [macs : [Accounts -> SUBSET Macs], known : SUBSET Accounts],
         server'.macs = server.macs, server.known \subseteq server'.known,
         UNCHANGED <<session, event, version, refresh, removal, opening, edits, gone, late, overtaken>>
  PROVE  Inv'
<1>0. /\ Types /\ SyncsApart /\ SyncsUnderWay /\ NewestSync /\ Registered /\ RefreshUnderWay
      /\ UntrustedIsOverruled /\ RouteIsShown /\ SignOutWins /\ ListsAreEdited /\ OldListsAreEdited
      /\ EventIsSession /\ GoneIsUnlinked
  BY DEF Inv
<1>1. Types'
  <2>1. ui' \in UiType /\ reg' \in [version : Nat, running : BOOLEAN, succeeded : BOOLEAN]
        /\ reg'.version = version'
    BY <1>0 DEF Types, PageTypes
  <2>2. PageTypes'
    BY <1>0, <2>1 DEF Types, PageTypes
  <2>3. WorkTypes'
    BY <1>0 DEF Types, WorkTypes
  <2>4. OutsideTypes'
    BY <1>0 DEF Types, OutsideTypes
  <2> QED BY <2>2, <2>3, <2>4 DEF Types
<1>2. SyncsApart'
  BY <1>0 DEF SyncsApart
<1>3. SyncsUnderWay'
  BY <1>0 DEF SyncsUnderWay
<1>4. NewestSync'
  <2> SUFFICES ASSUME NEW t \in syncs', t.v = version PROVE Alone(t)'
    BY DEF NewestSync
  <2>1. CASE s.v = version
    BY <1>0, <2>1 DEF SyncsApart
  <2>2. CASE s.v # version
    <3>1. t \in syncs /\ Alone(t)
      BY <1>0, <2>2 DEF NewestSync
    <3> QED BY <2>2, <3>1 DEF Alone
  <2> QED BY <2>1, <2>2
<1>5. Registered'
  BY <1>0 DEF Registered
<1>6. RefreshUnderWay'
  <2> SUFFICES ASSUME refresh.pc \in {"fetch", "answer", "save"}
               PROVE  /\ refresh.account # None /\ refresh.mark <= Len(edits) /\ refresh.v <= version
                      /\ refresh.v = version =>
                           /\ reg'.succeeded /\ ~reg'.running
                           /\ Overruled' \/ IF refresh.pc = "fetch" THEN refresh.account \in server'.known
                                            ELSE refresh.trusted
    BY DEF RefreshUnderWay
  <2>1. refresh.v = version => s.v # version
    BY <1>0 DEF RefreshUnderWay, NewestSync, Alone
  <2> QED BY <1>0, <2>1 DEF RefreshUnderWay, Overruled
<1>7. UntrustedIsOverruled' /\ RouteIsShown' /\ SignOutWins' /\ OldListsAreEdited'
  BY <1>0 DEF UntrustedIsOverruled, Overruled, RouteIsShown, SignOutWins, OldListsAreEdited
<1>8. EventIsSession' /\ GoneIsUnlinked'
  BY <1>0 DEF EventIsSession, GoneIsUnlinked
<1>9. ListsAreEdited'
  BY <1>0 DEF ListsAreEdited, Edited
<1> QED BY <1>1, <1>2, <1>3, <1>4, <1>5, <1>6, <1>7, <1>8, <1>9 DEF Inv

\* A refresh goes on, or begins, and writes the page only if nothing overtook it.
LEMMA RefreshKeeps ==
  ASSUME Inv, refresh' \in RefreshType,
         refresh'.pc = "answer" => gone \cap Edited(refresh'.list, refresh'.mark) = {},
         refresh'.pc = "save" => (gone \ late) \cap refresh'.list = {},
         RefreshUnderWay', ui' \in UiType, ui'.user = ui.user, ui'.signingOut = ui.signingOut,
         UntrustedIsOverruled', RouteIsShown', SignOutWins', OldListsAreEdited',
         saved' \in Macs \cup {None},
         UNCHANGED <<session, event, version, reg, syncs, removal, opening, edits, server, gone,
                     late, overtaken>>
  PROVE  Inv'
<1>0. /\ Types /\ SyncsApart /\ SyncsUnderWay /\ NewestSync /\ Registered
      /\ ListsAreEdited /\ EventIsSession /\ GoneIsUnlinked
  BY DEF Inv
<1>1. Types'
  <2>1. PageTypes'
    BY <1>0 DEF Types, PageTypes
  <2>2. WorkTypes'
    BY <1>0 DEF Types, WorkTypes
  <2>3. OutsideTypes'
    BY <1>0 DEF Types, OutsideTypes
  <2> QED BY <2>1, <2>2, <2>3 DEF Types
<1>2. SyncsApart' /\ SyncsUnderWay'
  BY <1>0 DEF SyncsApart, SyncsUnderWay
<1>3. NewestSync' /\ Registered'
  BY <1>0 DEF NewestSync, Alone, Registered
<1>4. EventIsSession' /\ GoneIsUnlinked' /\ ListsAreEdited'
  BY <1>0 DEF EventIsSession, GoneIsUnlinked, ListsAreEdited, Edited
<1> QED BY <1>1, <1>2, <1>3, <1>4 DEF Inv

\* What the person, the Mac or the account service changes leaves the work
\* under way alone: the account on the page is the same, and what is forgotten
\* is in the edits.
LEMMA OutsideKeeps ==
  ASSUME Inv, ui' \in UiType, ui'.user = ui.user, ui'.signingOut \in {ui.signingOut, FALSE},
         ui'.status = ui.status, ui'.trusted = ui.trusted,
         RouteIsShown', SignOutWins', OldListsAreEdited', GoneIsUnlinked', ListsAreEdited',
         saved' \in Macs \cup {None}, overtaken' \in BOOLEAN, OutsideTypes',
         edits' \in Seq(Macs), Len(edits) <= Len(edits'),
         removal' \in [pc : {"idle", "sent", "removed", "recheck"}, mac : Macs \cup {None},
                       account : Accounts \cup {None}],
         removal'.pc # "idle" => removal'.mac \in Macs,
         opening' # None => opening' \in [mac : Macs, account : Accounts],
         server'.known = server.known,
         UNCHANGED <<session, event, version, reg, syncs, refresh>>
  PROVE  Inv'
<1>0. /\ Types /\ SyncsApart /\ SyncsUnderWay /\ NewestSync /\ Registered /\ RefreshUnderWay
      /\ UntrustedIsOverruled /\ EventIsSession
  BY DEF Inv
<1>1. Types'
  <2>1. PageTypes'
    BY <1>0 DEF Types, PageTypes
  <2>2. WorkTypes'
    BY <1>0 DEF Types, WorkTypes
  <2> QED BY <2>1, <2>2 DEF Types
<1>2. Len(edits) \in Nat /\ Len(edits') \in Nat
  BY <1>0 DEF Types, PageTypes
<1>3. SyncsApart' /\ SyncsUnderWay'
  <2>1. \A s \in syncs : s.mark \in Nat
    BY <1>0 DEF Types, WorkTypes, SyncType
  <2> QED BY <1>0, <1>2, <2>1 DEF SyncsApart, SyncsUnderWay
<1>4. NewestSync' /\ Registered'
  BY <1>0 DEF NewestSync, Alone, Registered
<1>5. RefreshUnderWay'
  <2>1. refresh.mark \in Nat
    BY <1>0 DEF Types, WorkTypes, RefreshType
  <2> QED BY <1>0, <1>2, <2>1 DEF RefreshUnderWay, Overruled
<1>6. UntrustedIsOverruled' /\ EventIsSession'
  BY <1>0 DEF UntrustedIsOverruled, Overruled, EventIsSession
<1> QED BY <1>1, <1>3, <1>4, <1>5, <1>6 DEF Inv

-----------------------------------------------------------------------------
(* Synchronizations begin.                                                 *)

LEMMA NewSyncType ==
  ASSUME NEW a \in Accounts \cup {None}, NEW keep \in BOOLEAN, NEW u \in UiType, NEW v \in Nat,
         saved \in Macs \cup {None}
  PROVE  /\ NewSync(a, keep, u, v) \in SyncType
         /\ NewSync(a, keep, u, v).v = v /\ NewSync(a, keep, u, v).account = a
         /\ NewSync(a, keep, u, v).pc = IF a = None \/ u.user \notin {None, a} THEN "clear" ELSE "stored"
BY DEF NewSync, SyncType, UiType, Stages, Routes

LEMMA SignOutSync ==
  ASSUME NEW u \in UiType, NEW v \in Nat
  PROVE  /\ NewSync(None, FALSE, u, v) \in SyncType
         /\ NewSync(None, FALSE, u, v).v = v /\ NewSync(None, FALSE, u, v).account = None
         /\ NewSync(None, FALSE, u, v).pc = "clear"
BY DEF NewSync, SyncType, UiType, Stages, Routes

\* A page that its account leaves is empty.
LEMMA LeftPage ==
  ASSUME NEW a \in Accounts \cup {None}, NEW u \in UiType
  PROVE  /\ Left(a, u) \in UiType /\ Left(a, u).signingOut = u.signingOut
         /\ a = None \/ u.user \notin {None, a} =>
              /\ Left(a, u).user = None /\ Left(a, u).hosts = {} /\ Left(a, u).paired = None
              /\ Left(a, u).status # "loaded"
         /\ ~(a = None \/ u.user \notin {None, a}) => Left(a, u) = u
BY DEF Left, UiType, Routes

LEMMA BeginKeeps ==
  ASSUME Inv, NEW a \in Accounts \cup {None}, NEW keep \in BOOLEAN, Begin(a, keep, ui, version + 1),
         ui.signingOut => a = None,
         ui.status = "loaded" /\ ~ui.trusted => ui.user # a,
         OutsideTypes', EventIsSession',
         a # None /\ session' # None /\ event' = <<>> => a = session',
         refresh' \in RefreshType, refresh' = refresh \/ refresh'.pc = "wait",
         UNCHANGED <<saved, removal, opening, edits, server, gone, late, overtaken>>
  PROVE  Inv'
<1> DEFINE n == NewSync(a, keep, ui, version + 1)
           leaves == a = None \/ ui.user \notin {None, a}
<1>0. Types /\ SignOutWins /\ RouteIsShown /\ OldListsAreEdited /\ UntrustedIsOverruled
  BY DEF Inv
<1>1. ui \in UiType /\ saved \in Macs \cup {None} /\ version + 1 \in Nat
  BY <1>0, AccountAssumption DEF Types, PageTypes
<1>2. /\ version' = version + 1 /\ version' <= MaxSyncs
      /\ reg' = [version |-> version + 1, running |-> TRUE, succeeded |-> FALSE]
      /\ syncs' = syncs \cup {n} /\ ui' = Left(a, ui)
  BY DEF Begin
<1>3. n \in SyncType /\ n.v = version + 1 /\ n.account = a /\ n.pc = IF leaves THEN "clear" ELSE "stored"
  BY <1>1, NewSyncType
<1> HIDE DEF n
<1>4. /\ ui' \in UiType /\ ui'.signingOut = ui.signingOut
      /\ leaves => ui'.user = None /\ ui'.hosts = {} /\ ui'.paired = None /\ ui'.status # "loaded"
      /\ ~leaves => ui' = ui /\ ui.user \in {None, a}
  BY <1>1, <1>2, LeftPage
<1>5. SignOutWins'
  <2>1. CASE leaves
    BY <1>4, <2>1 DEF SignOutWins
  <2>2. CASE ~leaves
    BY <1>0, <1>4, <2>2 DEF SignOutWins
  <2> QED BY <2>1, <2>2
<1>6. ui'.status = "loaded" => ui'.user # None /\ ui'.trusted
  BY <1>0, <1>4 DEF UntrustedIsOverruled
<1>7. RouteIsShown' /\ OldListsAreEdited'
  BY <1>0, <1>4 DEF RouteIsShown, OldListsAreEdited
<1>8. ui'.user \in {None, a} /\ (n.pc = "clear" => ui'.user = None)
  BY <1>3, <1>4
<1> HIDE DEF leaves
<1> QED BY <1>1, <1>2, <1>3, <1>4, <1>5, <1>6, <1>7, <1>8, StartKeeps

\* A sign-out begins on an empty page.
LEMMA SignOutBegins ==
  ASSUME Inv, NEW n \in SyncType, n.v = version + 1, n.account = None, n.pc = "clear",
         version' = version + 1, version' <= MaxSyncs,
         reg' = [version |-> version + 1, running |-> TRUE, succeeded |-> FALSE],
         syncs' \subseteq syncs \cup {n},
         ui' \in UiType, ui'.user = None, ui'.hosts = {}, ui'.paired = None, ui'.status = "idle",
         saved' = None, session' = None,
         UNCHANGED <<event, refresh, removal, opening, edits, server, gone, late, overtaken>>
  PROVE  Inv'
<1>1. Types
  BY DEF Inv
<1>2. OutsideTypes' /\ EventIsSession'
  BY <1>1 DEF Types, OutsideTypes, EventIsSession
<1>3. SignOutWins' /\ RouteIsShown' /\ OldListsAreEdited'
  BY DEF SignOutWins, RouteIsShown, OldListsAreEdited
<1>4. refresh' \in RefreshType
  BY <1>1 DEF Types, WorkTypes
<1> QED BY <1>2, <1>3, <1>4, StartKeeps

LEMMA EmptyPage ==
  /\ [SignedOutUi EXCEPT !.signingOut = TRUE] \in UiType
  /\ [SignedOutUi EXCEPT !.signingOut = TRUE].user = None
  /\ [SignedOutUi EXCEPT !.signingOut = TRUE].hosts = {}
  /\ [SignedOutUi EXCEPT !.signingOut = TRUE].paired = None
  /\ [SignedOutUi EXCEPT !.signingOut = TRUE].status = "idle"
BY DEF SignedOutUi, UiType, Routes

LEMMA AnnouncedKeeps == ASSUME Inv, Announced PROVE Inv'
<1>0. /\ Types /\ SyncsApart /\ SyncsUnderWay /\ NewestSync /\ Registered /\ RefreshUnderWay
      /\ UntrustedIsOverruled /\ RouteIsShown /\ SignOutWins /\ ListsAreEdited /\ OldListsAreEdited
      /\ EventIsSession /\ GoneIsUnlinked
  BY DEF Inv
<1>1. /\ event # <<>> /\ Head(event) \in Accounts \cup {None} /\ event' = <<>>
      /\ UNCHANGED <<saved, session, refresh, removal, opening, edits, server, gone, late, overtaken>>
  <2>1. PICK a \in Accounts \cup {None} : event = <<a>>
    BY <1>0 DEF Announced, Types, OutsideTypes
  <2>2. Head(event) = a /\ Tail(event) = <<>>
    BY <2>1
  <2> QED BY <2>1, <2>2 DEF Announced
<1>2. OutsideTypes' /\ EventIsSession'
  BY <1>0, <1>1 DEF Types, OutsideTypes, EventIsSession
<1>3. CASE ui.signingOut /\ Head(event) # None
  <2>1. UNCHANGED <<ui, version, reg, syncs>>
    BY <1>3 DEF Announced
  <2>2. ui.user = None /\ ~reg.succeeded /\ ui.status # "loaded"
    BY <1>0, <1>3 DEF SignOutWins, Registered, UntrustedIsOverruled
  <2>3. Types'
    BY <1>0, <1>1, <1>2, <2>1 DEF Types, PageTypes, WorkTypes
  <2>4. SyncsApart' /\ SyncsUnderWay'
    BY <1>0, <1>1, <2>1 DEF SyncsApart, SyncsUnderWay
  <2>5. NewestSync'
    BY <1>0, <1>1, <1>3, <2>1 DEF NewestSync, Alone
  <2>6. Registered' /\ UntrustedIsOverruled'
    BY <1>0, <1>1, <2>1, <2>2 DEF Registered, UntrustedIsOverruled
  <2>7. RefreshUnderWay'
    BY <1>0, <1>1, <2>1, <2>2 DEF RefreshUnderWay
  <2>8. RouteIsShown' /\ SignOutWins' /\ OldListsAreEdited' /\ GoneIsUnlinked'
    BY <1>0, <1>1, <2>1 DEF RouteIsShown, SignOutWins, OldListsAreEdited, GoneIsUnlinked
  <2>9. ListsAreEdited'
    BY <1>0, <1>1, <2>1 DEF ListsAreEdited, Edited
  <2> QED BY <1>2, <2>3, <2>4, <2>5, <2>6, <2>7, <2>8, <2>9 DEF Inv
<1>4. CASE ~(ui.signingOut /\ Head(event) # None)
  <2>1. Begin(Head(event), FALSE, ui, version + 1)
    BY <1>4 DEF Announced
  <2>2. ui.status = "loaded" /\ ~ui.trusted => ui.user # Head(event)
    BY <1>0 DEF UntrustedIsOverruled, Overruled
  <2>3. session' # None /\ event' = <<>> => Head(event) = session'
    BY <1>0, <1>1 DEF EventIsSession
  <2>4. refresh' \in RefreshType
    BY <1>0, <1>1 DEF Types, WorkTypes
  <2> QED BY <1>1, <1>2, <1>4, <2>1, <2>2, <2>3, <2>4, BeginKeeps
<1> QED BY <1>3, <1>4

LEMMA SignOutKeeps == ASSUME Inv, SignOut PROVE Inv'
<1> DEFINE u == [SignedOutUi EXCEPT !.signingOut = TRUE]
           n == NewSync(None, FALSE, u, version + 1)
<1>0. Types
  BY DEF Inv
<1>1. version + 1 \in Nat /\ saved \in Macs \cup {None}
  BY <1>0, AccountAssumption DEF Types, PageTypes
<1>u. u \in UiType
  BY EmptyPage
<1>2. n \in SyncType /\ n.v = version + 1 /\ n.account = None /\ n.pc = "clear"
  <2> HIDE DEF u
  <2> QED BY <1>1, <1>u, SignOutSync
<1>3. /\ Left(None, u) \in UiType /\ Left(None, u).user = None /\ Left(None, u).hosts = {}
      /\ Left(None, u).paired = None /\ Left(None, u).status = "idle"
  BY DEF Left, SignedOutUi, UiType, Routes
<1>4. /\ saved' = None /\ session' = None /\ version' = version + 1 /\ version' <= MaxSyncs
      /\ reg' = [version |-> version + 1, running |-> TRUE, succeeded |-> FALSE]
      /\ syncs' = syncs \cup {n} /\ ui' = Left(None, u)
      /\ UNCHANGED <<event, refresh, removal, opening, edits, server, gone, late, overtaken>>
  BY DEF SignOut, Begin
<1> HIDE DEF n, u
<1> QED BY <1>2, <1>3, <1>4, SignOutBegins

LEMMA SignedOutByMacKeeps == ASSUME Inv, NEW s \in syncs, SignedOutByMac(s) PROVE Inv'
<1> DEFINE u == [SignedOutUi EXCEPT !.signingOut = TRUE]
           n == NewSync(None, FALSE, u, version + 1)
<1>0. Types
  BY DEF Inv
<1>1. version + 1 \in Nat /\ saved \in Macs \cup {None}
  BY <1>0, AccountAssumption DEF Types, PageTypes
<1>u. u \in UiType
  BY EmptyPage
<1>2. n \in SyncType /\ n.v = version + 1 /\ n.account = None /\ n.pc = "clear"
  <2> HIDE DEF u
  <2> QED BY <1>1, <1>u, SignOutSync
<1>3. /\ saved' = None /\ session' = None /\ version' = version + 1 /\ version < MaxSyncs
      /\ reg' = [version |-> version + 1, running |-> TRUE, succeeded |-> FALSE]
      /\ syncs' = (syncs \ {s}) \cup {n} /\ ui' = u
      /\ UNCHANGED <<event, refresh, removal, opening, edits, server, gone, late, overtaken>>
  BY DEF SignedOutByMac
<1> HIDE DEF n, u
<1>4. version' <= MaxSyncs /\ syncs' \subseteq syncs \cup {n}
  <2>1. version \in Nat /\ MaxSyncs \in Nat
    BY <1>0, AccountAssumption DEF Types, PageTypes
  <2> QED BY <1>3, <2>1
<1> QED BY <1>2, <1>3, <1>4, EmptyPage, SignOutBegins DEF u

-----------------------------------------------------------------------------
(* Synchronizations go on and end.                                         *)

\* What a page shows that the end of a synchronization leaves.
Sound(u) ==
  /\ u \in UiType
  /\ u.signingOut => u.user = None
  /\ u.user = None => u.hosts = {} /\ (u.paired = None \/ overtaken)
  /\ u.user # None => u.route \notin {"loading", "auth"}
  /\ (gone \ late) \cap u.hosts = {}
  /\ u.status = "loaded" => u.user # None /\ u.trusted

LEMMA SoundShows ==
  ASSUME Sound(ui'), UNCHANGED <<gone, late, overtaken>>
  PROVE  ui' \in UiType /\ UntrustedIsOverruled' /\ RouteIsShown' /\ SignOutWins' /\ OldListsAreEdited'
BY DEF Sound, UntrustedIsOverruled, RouteIsShown, SignOutWins, OldListsAreEdited

\* While the newest synchronization has not saved its list, the page is sound.
LEMMA PageIsSound ==
  ASSUME Inv, ~reg.succeeded
  PROVE  Sound(ui)
BY DEF Inv, Types, PageTypes, SignOutWins, RouteIsShown, OldListsAreEdited, UntrustedIsOverruled, Sound

RegType == [version : Nat, running : BOOLEAN, succeeded : BOOLEAN]

LEMMA NotRunningType ==
  ASSUME NEW r \in RegType, NEW v \in Nat
  PROVE  /\ NotRunning(r, v) \in RegType
         /\ NotRunning(r, v).version = r.version /\ NotRunning(r, v).succeeded = r.succeeded
         /\ r.version # v => NotRunning(r, v) = r
BY DEF NotRunning, RegType

LEMMA SettledType ==
  ASSUME NEW u, Sound(u), NEW v
  PROVE  /\ Sound(Settled(u, v))
         /\ Settled(u, v).user = u.user /\ Settled(u, v).signingOut = u.signingOut
BY DEF Sound, Settled, UiType

LEMMA FinishKeeps ==
  ASSUME Inv, NEW s \in syncs, NEW u, Finish(s, u), NEW r \in RegType, r.version = version,
         reg' = NotRunning(r, s.v),
         s.v # version => u = ui /\ r = reg,
         s.v = version => Sound(u),
         s.v = version /\ r.succeeded =>
            /\ u.user # None /\ ~u.signingOut /\ u.user \in server.known
            /\ event = <<>> /\ session # None => u.user = session,
         saved' \in Macs \cup {None},
         UNCHANGED <<session, event, version, refresh, removal, opening, edits, server, gone, late, overtaken>>
  PROVE  Inv'
<1>0. Types
  BY DEF Inv
<1>1. ui' = Settled(u, s.v) /\ syncs' = (syncs \ {s}) \cup {}
  BY DEF Finish
<1>2. s.v \in Nat
  BY <1>0 DEF Types, WorkTypes, SyncType
<1>3. /\ reg' \in RegType /\ reg'.version = version /\ reg'.succeeded = r.succeeded
      /\ s.v # version => reg' = reg
  BY <1>2, NotRunningType
<1>4. s.v # version => ui' = ui
  BY <1>1 DEF Settled
<1>5. ASSUME s.v = version
      PROVE  /\ ui' \in UiType /\ Registered'
             /\ UntrustedIsOverruled' /\ RouteIsShown' /\ SignOutWins' /\ OldListsAreEdited'
  <2>1. Sound(ui') /\ ui'.user = u.user /\ ui'.signingOut = u.signingOut
    BY <1>1, <1>5, SettledType
  <2>2. Registered'
    BY <1>3, <1>5, <2>1 DEF Registered
  <2> QED BY <2>1, <2>2, SoundShows
<1>6. server \in [macs : [Accounts -> SUBSET Macs], known : SUBSET Accounts]
  BY <1>0 DEF Types, OutsideTypes
<1> DEFINE N == {}
<1>7. N \in SUBSET SyncType /\ syncs' = (syncs \ {s}) \cup N /\ \A n \in N : FALSE
  BY <1>1
<1> HIDE DEF N
<1> QED BY <1>3, <1>4, <1>5, <1>6, <1>7, SyncKeeps DEF RegType

LEMMA GotoKeeps ==
  ASSUME Inv, NEW s \in syncs, NEW n \in SyncType, Goto(s, n), n.v = s.v,
         n.pc \in {"register", "answer", "save"} =>
           n.account # None /\ n.mark <= Len(edits) /\ n.then \in {"hosts", "workspace"},
         n.pc = "answer" => gone \cap Edited(n.list, n.mark) = {},
         n.pc = "save" => (gone \ late) \cap n.list = {},
         s.v # version => UNCHANGED <<ui, reg>>,
         s.v = version => /\ Alone(n)' /\ Registered'
                          /\ ui' \in UiType /\ UntrustedIsOverruled' /\ RouteIsShown'
                          /\ SignOutWins' /\ OldListsAreEdited'
                          /\ reg' \in RegType /\ reg'.version = version,
         saved' \in Macs \cup {None},
         server' \in [macs : [Accounts -> SUBSET Macs], known : SUBSET Accounts],
         server'.macs = server.macs, server.known \subseteq server'.known,
         UNCHANGED <<session, event, version, refresh, removal, opening, edits, gone, late, overtaken>>
  PROVE  Inv'
<1> DEFINE N == {n}
<1>1. N \in SUBSET SyncType /\ syncs' = (syncs \ {s}) \cup N /\ \A m \in N : m = n
  BY DEF Goto
<1> HIDE DEF N
<1>2. s.v = version => \A m \in N : Alone(m)'
  BY <1>1 DEF Alone
<1>3. \A m \in N : /\ m.v = s.v
                   /\ m.pc \in {"register", "answer", "save"} =>
                        m.account # None /\ m.mark <= Len(edits) /\ m.then \in {"hosts", "workspace"}
                   /\ m.pc = "answer" => gone \cap Edited(m.list, m.mark) = {}
                   /\ m.pc = "save" => (gone \ late) \cap m.list = {}
  BY <1>1
<1>4. \A m, k \in N : m = k
  BY <1>1
<1> QED BY <1>1, <1>2, <1>3, <1>4, SyncKeeps DEF RegType

LEMMA SyncClearsKeeps == ASSUME Inv, NEW s \in syncs, SyncClears(s) PROVE Inv'
<1>0. Types /\ NewestSync /\ Registered
  BY DEF Inv
<1>1. s \in SyncType /\ reg \in RegType /\ reg.version = version /\ s.pc = "clear"
  BY <1>0 DEF Types, PageTypes, WorkTypes, RegType, SyncClears
<1>2. s.v = version => Alone(s) /\ ui.user = None /\ ~reg.succeeded /\ Sound(ui)
  BY <1>0, <1>1, PageIsSound DEF NewestSync, Alone
<1>3. UNCHANGED <<session, event, version, refresh, removal, opening, edits, server, gone, late, overtaken>>
  BY DEF SyncClears
<1>4. /\ server \in [macs : [Accounts -> SUBSET Macs], known : SUBSET Accounts]
      /\ saved \in Macs \cup {None}
  BY <1>0 DEF Types, OutsideTypes, PageTypes
<1>5. CASE /\ s.v = version /\ Goto(s, [s EXCEPT !.pc = "stored"])
           /\ saved' = None /\ UNCHANGED <<ui, reg>>
  <2> DEFINE n == [s EXCEPT !.pc = "stored"]
  <2>1. n \in SyncType /\ n.v = s.v /\ n.pc = "stored" /\ n.account = s.account
    BY <1>1 DEF SyncType, Stages
  <2> HIDE DEF n
  <2>2. Alone(n)'
    BY <1>2, <1>3, <1>5, <2>1 DEF Alone
  <2>3. Registered' /\ Sound(ui')
    BY <1>0, <1>2, <1>3, <1>5 DEF Registered, Sound
  <2> QED BY <1>1, <1>3, <1>4, <1>5, <2>1, <2>2, <2>3, SoundShows, GotoKeeps DEF n
<1>6. CASE s.v # version /\ Finish(s, ui) /\ reg' = NotRunning(reg, s.v) /\ UNCHANGED saved
  BY <1>1, <1>3, <1>4, <1>6, FinishKeeps
<1>7. CASE /\ s.v = version /\ Finish(s, [ui EXCEPT !.route = "auth", !.status = "idle"])
           /\ reg' = NotRunning(reg, s.v) /\ UNCHANGED saved
  <2> DEFINE u == [ui EXCEPT !.route = "auth", !.status = "idle"]
  <2>1. Sound(u)
    BY <1>2, <1>7 DEF Sound, UiType, Routes
  <2> HIDE DEF u
  <2> QED BY <1>1, <1>2, <1>3, <1>4, <1>7, <2>1, FinishKeeps DEF u
<1> QED BY <1>5, <1>6, <1>7 DEF SyncClears, IsCurrent

LEMMA SyncThrowsKeeps == ASSUME Inv, NEW s \in syncs, SyncThrows(s) PROVE Inv'
<1>0. Types /\ NewestSync
  BY DEF Inv
<1>1. /\ reg \in RegType /\ reg.version = version /\ s.pc = "stored" /\ saved \in Macs \cup {None}
  BY <1>0 DEF Types, PageTypes, RegType, SyncThrows
<1>2. s.v = version => ~reg.succeeded /\ Sound(ui)
  BY <1>0, <1>1, PageIsSound DEF NewestSync, Alone
<1> QED BY <1>1, <1>2, FinishKeeps DEF SyncThrows

LEMMA SyncStoredKeeps == ASSUME Inv, NEW s \in syncs, SyncStored(s) PROVE Inv'
<1>0. Types /\ NewestSync /\ Registered
  BY DEF Inv
<1>1. s \in SyncType /\ reg \in RegType /\ reg.version = version /\ s.pc = "stored"
  BY <1>0 DEF Types, PageTypes, WorkTypes, RegType, SyncStored
<1>2. s.v = version => Alone(s) /\ ui.user \in {None, s.account} /\ ~reg.succeeded /\ Sound(ui)
  BY <1>0, <1>1, PageIsSound DEF NewestSync, Alone
<1>3. UNCHANGED <<saved, session, event, version, refresh, removal, opening, edits, server, gone, late, overtaken>>
  BY DEF SyncStored
<1>4. /\ server \in [macs : [Accounts -> SUBSET Macs], known : SUBSET Accounts]
      /\ saved \in Macs \cup {None} /\ Len(edits) \in Nat
  BY <1>0 DEF Types, OutsideTypes, PageTypes
<1>5. CASE s.v # version
  <2>1. Finish(s, ui) /\ reg' = NotRunning(reg, s.v)
    BY <1>5 DEF SyncStored, IsCurrent
  <2> QED BY <1>1, <1>3, <1>4, <1>5, <2>1, FinishKeeps
<1>6. CASE s.v = version /\ s.account = None
  <2> DEFINE u == [ui EXCEPT !.user = None, !.hosts = {}, !.status = "idle", !.paired = None, !.route = "auth"]
  <2>1. Finish(s, u) /\ reg' = NotRunning(reg, s.v)
    BY <1>6 DEF SyncStored, IsCurrent
  <2>2. Sound(u)
    BY <1>2, <1>6 DEF Sound, UiType, Routes
  <2> HIDE DEF u
  <2> QED BY <1>1, <1>2, <1>3, <1>4, <1>6, <2>1, <2>2, FinishKeeps
<1>7. CASE s.v = version /\ s.account # None
  <2>n. PICK n : n = [s EXCEPT !.pc = "register", !.then = FirstRoute(s), !.mark = Len(edits)]
    OBVIOUS
  <2> DEFINE status == IF ui.status = "loaded" \/ (s.keep /\ ui.status = "error") THEN ui.status ELSE "loading"
  <2>1. /\ Goto(s, n) /\ UNCHANGED reg
        /\ ui' = [ui EXCEPT !.user = s.account, !.route = FirstRoute(s), !.status = status]
    BY <1>7, <2>n DEF SyncStored, IsCurrent
  <2>2. FirstRoute(s) \in {"hosts", "workspace"}
    BY <1>1 DEF FirstRoute, SyncType, Routes
  <2>3. /\ n \in SyncType /\ n.v = s.v /\ n.pc = "register" /\ n.account = s.account
        /\ n.mark = Len(edits) /\ n.then \in {"hosts", "workspace"}
    BY <1>1, <1>4, <2>2, <2>n DEF SyncType, Stages, Routes
  <2>4. /\ ui' \in UiType /\ ui'.user = s.account /\ ui'.hosts = ui.hosts /\ ui'.trusted = ui.trusted
        /\ ui'.signingOut = ui.signingOut /\ ui'.route \in {"hosts", "workspace"}
        /\ ui'.status = "loaded" => ui.status = "loaded"
    <3>1. s.account \in Accounts \cup {None} /\ ui \in UiType /\ status \in {"loaded", "error", "loading"}
      BY <1>1, <1>2, <1>7 DEF SyncType, Sound
    <3> QED BY <2>1, <2>2, <3>1 DEF UiType, Routes
  <2>5. Alone(n)'
    BY <1>2, <1>3, <1>7, <2>1, <2>3, <2>4 DEF Alone
  <2>6. Sound(ui')
    BY <1>2, <1>7, <2>4 DEF Sound, Alone
  <2>7. Registered'
    BY <1>2, <1>7, <2>1 DEF Registered
  <2> QED BY <1>1, <1>3, <1>4, <1>7, <2>1, <2>3, <2>5, <2>6, <2>7, SoundShows, GotoKeeps
<1> QED BY <1>5, <1>6, <1>7

\* What the newest synchronization may show once it has its list.
LEMMA ListIsSound ==
  ASSUME Inv, NEW s \in syncs, s.v = version, s.pc \in {"answer", "save"},
         NEW hosts \in SUBSET Macs, (gone \ late) \cap hosts = {}
  PROVE  /\ Sound(ListOnly(s, hosts)) /\ ListOnly(s, hosts).user = s.account
         /\ ~ListOnly(s, hosts).signingOut
         /\ s.account # None /\ s.account \in server.known
         /\ event = <<>> /\ session # None => s.account = session
<1>0. Types /\ NewestSync /\ SyncsUnderWay /\ RouteIsShown
  BY DEF Inv
<1>1. Alone(s) /\ s.account # None /\ ui.user # None /\ ~ui.signingOut /\ s \in SyncType /\ ui \in UiType
  BY <1>0 DEF NewestSync, Alone, SyncsUnderWay, Types, WorkTypes, PageTypes
<1>2. s.account \in Accounts
  BY <1>1 DEF SyncType
<1>3. ui.route \notin {"loading", "auth"}
  BY <1>0, <1>1 DEF RouteIsShown
<1>4. /\ ListOnly(s, hosts) \in UiType /\ ListOnly(s, hosts).user = s.account
      /\ ListOnly(s, hosts).hosts = hosts /\ ListOnly(s, hosts).trusted
      /\ ListOnly(s, hosts).signingOut = ui.signingOut /\ ListOnly(s, hosts).route = ui.route
  BY <1>1, <1>2 DEF ListOnly, UiType
<1> QED BY <1>1, <1>3, <1>4 DEF Sound, Alone

LEMMA SelectedType ==
  ASSUME NEW hosts \in SUBSET Macs, NEW mac
  PROVE  Selected(hosts, mac) \in Macs \cup {None}
BY DEF Selected

LEMMA SyncRegistersKeeps == ASSUME Inv, NEW s \in syncs, SyncRegisters(s) PROVE Inv'
<1>0. Types /\ NewestSync /\ SyncsUnderWay /\ GoneIsUnlinked /\ Registered
  BY DEF Inv
<1>1. PICK a \in {s.account, session} \ {None} :
        /\ server' = [server EXCEPT !.known = @ \cup {a}]
        /\ Goto(s, [s EXCEPT !.pc = "answer", !.account = a, !.list = server.macs[a]])
  BY DEF SyncRegisters
<1>2. s \in SyncType /\ s.pc = "register" /\ s.account # None /\ s.mark <= Len(edits)
      /\ s.then \in {"hosts", "workspace"}
  BY <1>0 DEF SyncRegisters, SyncsUnderWay, Types, WorkTypes
<1>3. a \in Accounts
  BY <1>0, <1>1, <1>2 DEF Types, OutsideTypes, SyncType
<1>4. /\ server' \in [macs : [Accounts -> SUBSET Macs], known : SUBSET Accounts]
      /\ server'.macs = server.macs /\ server'.known = server.known \cup {a}
      /\ server.macs[a] \in SUBSET Macs
  BY <1>0, <1>1, <1>3 DEF Types, OutsideTypes
<1>n. PICK n : n = [s EXCEPT !.pc = "answer", !.account = a, !.list = server.macs[a]]
  OBVIOUS
<1>5. /\ n \in SyncType /\ n.v = s.v /\ n.pc = "answer" /\ n.account = a /\ n.list = server.macs[a]
      /\ n.mark <= Len(edits) /\ n.then \in {"hosts", "workspace"}
  BY <1>2, <1>3, <1>4, <1>n DEF SyncType, Stages
<1>6. gone \cap Edited(n.list, n.mark) = {}
  BY <1>0, <1>3, <1>5 DEF GoneIsUnlinked, Edited
<1>7. /\ UNCHANGED <<ui, saved, session, event, version, reg, refresh, removal, opening, edits, gone,
                    late, overtaken>>
      /\ Goto(s, n)
  BY <1>1, <1>n DEF SyncRegisters
<1>8. saved \in Macs \cup {None} /\ reg \in RegType /\ reg.version = version
  BY <1>0 DEF Types, PageTypes, RegType
<1>9. ASSUME s.v = version PROVE Alone(n)' /\ Sound(ui') /\ Registered'
  <2>1. Alone(s) /\ ~ui.signingOut /\ ~reg.succeeded
    BY <1>0, <1>2, <1>9 DEF NewestSync, Alone
  <2>2. Alone(n)'
    BY <1>1, <1>2, <1>4, <1>5, <1>7, <2>1 DEF Alone
  <2>3. Sound(ui)
    BY <2>1, PageIsSound
  <2>4. Sound(ui')
    BY <1>7, <2>3 DEF Sound
  <2> QED BY <1>7, <2>1, <2>2, <2>4 DEF Registered
<1> QED BY <1>3, <1>4, <1>5, <1>6, <1>7, <1>8, <1>9, SoundShows, GotoKeeps

LEMMA SyncAnsweredKeeps == ASSUME Inv, NEW s \in syncs, SyncAnswered(s) PROVE Inv'
<1> DEFINE hosts == Edited(s.list, s.mark)
           chosen == Selected(hosts, IF ui.paired = None THEN s.stored ELSE ui.paired)
           done == IF reg.version = s.v THEN [reg EXCEPT !.succeeded = TRUE] ELSE reg
<1>0. Types /\ NewestSync /\ SyncsUnderWay /\ ListsAreEdited /\ Registered
  BY DEF Inv
<1>1. s \in SyncType /\ s.pc = "answer" /\ s.account # None /\ s.mark <= Len(edits)
      /\ s.then \in {"hosts", "workspace"}
  BY <1>0 DEF SyncAnswered, SyncsUnderWay, Types, WorkTypes
<1>2. hosts \in SUBSET Macs /\ gone \cap hosts = {} /\ (gone \ late) \cap hosts = {}
  BY <1>0, <1>1 DEF SyncType, Edited, ListsAreEdited
<1>3. reg \in RegType /\ reg.version = version /\ saved \in Macs \cup {None}
  BY <1>0 DEF Types, PageTypes, RegType
<1>4. /\ done \in RegType /\ done.version = version /\ done.running = reg.running
      /\ s.v # version => done = reg
  BY <1>3 DEF RegType
<1>5. /\ UNCHANGED <<session, event, version, refresh, removal, opening, edits, server, gone, late, overtaken>>
      /\ server \in [macs : [Accounts -> SUBSET Macs], known : SUBSET Accounts]
  BY <1>0 DEF SyncAnswered, Types, OutsideTypes
<1>6. chosen \in Macs \cup {None}
  BY <1>2, SelectedType
<1>7. \/ s.v # version /\ Finish(s, ui) /\ reg' = NotRunning(done, s.v) /\ UNCHANGED saved
      \/ s.v = version /\ Finish(s, ListOnly(s, hosts)) /\ reg' = NotRunning(done, s.v) /\ UNCHANGED saved
      \/ /\ s.v = version /\ Goto(s, [s EXCEPT !.pc = "save", !.list = hosts]) /\ reg' = done
         /\ saved' = chosen /\ UNCHANGED ui
  BY DEF SyncAnswered, IsCurrent
<1> HIDE DEF hosts, chosen, done
<1>8. CASE s.v # version /\ Finish(s, ui) /\ reg' = NotRunning(done, s.v) /\ UNCHANGED saved
  BY <1>3, <1>4, <1>5, <1>8, FinishKeeps
<1>9. CASE s.v = version /\ Finish(s, ListOnly(s, hosts)) /\ reg' = NotRunning(done, s.v) /\ UNCHANGED saved
  BY <1>1, <1>2, <1>3, <1>4, <1>5, <1>9, ListIsSound, FinishKeeps
<1>10. CASE /\ s.v = version /\ Goto(s, [s EXCEPT !.pc = "save", !.list = hosts]) /\ reg' = done
            /\ saved' = chosen /\ UNCHANGED ui
  <2>n. PICK n : n = [s EXCEPT !.pc = "save", !.list = hosts]
    OBVIOUS
  <2>1. /\ n \in SyncType /\ n.v = s.v /\ n.pc = "save" /\ n.account = s.account /\ n.list = hosts
        /\ n.mark <= Len(edits) /\ n.then \in {"hosts", "workspace"}
    BY <1>1, <1>2, <2>n DEF SyncType, Stages
  <2>2. Alone(s) /\ ~reg.succeeded /\ ~ui.signingOut /\ ui.user # None
    BY <1>0, <1>1, <1>10 DEF NewestSync, Alone
  <2>3. Alone(n)'
    BY <1>1, <1>4, <1>5, <1>10, <2>1, <2>2 DEF Alone
  <2>4. Sound(ui)
    BY <2>2, PageIsSound
  <2>5. Sound(ui') /\ Registered'
    BY <1>4, <1>5, <1>10, <2>2, <2>4 DEF Sound, Registered, Alone
  <2> QED BY <1>1, <1>2, <1>3, <1>4, <1>5, <1>6, <1>10, <2>n, <2>1, <2>3, <2>5, SoundShows, GotoKeeps
<1> QED BY <1>7, <1>8, <1>9, <1>10

LEMMA SyncFailsKeeps == ASSUME Inv, NEW s \in syncs, SyncFails(s) PROVE Inv'
<1>0. Types /\ NewestSync /\ SyncsUnderWay
  BY DEF Inv
<1>1. s \in SyncType /\ s.pc \in {"register", "answer"} /\ s.account # None
  BY <1>0 DEF SyncFails, SyncsUnderWay, Types, WorkTypes
<1>2. reg \in RegType /\ reg.version = version /\ saved \in Macs \cup {None}
  BY <1>0 DEF Types, PageTypes, RegType
<1>3. /\ UNCHANGED <<saved, session, event, version, refresh, removal, opening, edits, server, gone, late, overtaken>>
      /\ reg' = NotRunning(reg, s.v)
  BY DEF SyncFails
<1>4. CASE s.v # version
  <2>1. Finish(s, ui)
    BY <1>4 DEF SyncFails, IsCurrent
  <2> QED BY <1>2, <1>3, <1>4, <2>1, FinishKeeps
<1>5. CASE s.v = version
  <2> DEFINE u == [ui EXCEPT !.user = s.account, !.status = AfterFailure,
                             !.paired = IF @ = None THEN s.stored ELSE @]
  <2>1. Finish(s, u)
    BY <1>5 DEF SyncFails, IsCurrent
  <2>2. ~reg.succeeded /\ ~ui.signingOut /\ ui.user # None
    BY <1>0, <1>1, <1>5 DEF NewestSync, Alone
  <2>3. Sound(ui)
    BY <2>2, PageIsSound
  <2>4. /\ u \in UiType /\ u.user = s.account /\ u.hosts = ui.hosts /\ u.trusted = ui.trusted
        /\ u.signingOut = ui.signingOut /\ u.route = ui.route
        /\ u.status = "loaded" => ui.status = "loaded"
    BY <1>1, <2>3 DEF Sound, UiType, SyncType, AfterFailure
  <2>5. Sound(u)
    BY <1>1, <2>2, <2>3, <2>4 DEF Sound
  <2> HIDE DEF u
  <2> QED BY <1>2, <1>3, <1>5, <2>1, <2>2, <2>5, FinishKeeps
<1> QED BY <1>4, <1>5

LEMMA SyncSavedKeeps == ASSUME Inv, NEW s \in syncs, SyncSaved(s) PROVE Inv'
<1> DEFINE chosen == Selected(s.list, IF ui.paired = None THEN s.stored ELSE ui.paired)
           route == IF s.keep /\ s.seen \notin {"loading", "auth"} THEN s.then
                    ELSE IF s.stored # None /\ s.stored = chosen THEN "workspace" ELSE "hosts"
           shows == [ListOnly(s, s.list) EXCEPT !.paired = chosen, !.route = route]
<1>0. Types /\ NewestSync /\ SyncsUnderWay /\ ListsAreEdited
  BY DEF Inv
<1>1. s \in SyncType /\ s.pc = "save" /\ s.then \in {"hosts", "workspace"}
  BY <1>0 DEF SyncSaved, SyncsUnderWay, Types, WorkTypes
<1>2. reg \in RegType /\ reg.version = version /\ saved \in Macs \cup {None}
  BY <1>0 DEF Types, PageTypes, RegType
<1>3. /\ UNCHANGED <<saved, session, event, version, refresh, removal, opening, edits, server, gone, late, overtaken>>
      /\ reg' = NotRunning(reg, s.v)
  BY DEF SyncSaved
<1>4. CASE s.v # version
  <2>1. Finish(s, ui)
    BY <1>4 DEF SyncSaved, IsCurrent
  <2> QED BY <1>2, <1>3, <1>4, <2>1, FinishKeeps
<1>5. CASE s.v = version
  <2>1. s.list \in SUBSET Macs /\ (gone \ late) \cap s.list = {}
    BY <1>0, <1>1 DEF SyncType, ListsAreEdited
  <2> DEFINE l == ListOnly(s, s.list)
  <2>2. /\ Sound(l) /\ l.user = s.account /\ ~l.signingOut
        /\ s.account # None /\ s.account \in server.known
        /\ event = <<>> /\ session # None => s.account = session
    BY <1>1, <1>5, <2>1, ListIsSound
  <2>3. Finish(s, l) \/ Finish(s, shows)
    BY <1>5 DEF SyncSaved, IsCurrent
  <2>4. chosen \in Macs \cup {None} /\ route \in {"hosts", "workspace"}
    BY <1>1, <2>1, SelectedType
  <2> HIDE DEF l, chosen, route
  <2>5. Sound(shows) /\ shows.user = s.account /\ ~shows.signingOut
    BY <2>2, <2>4 DEF Sound, UiType, Routes, l
  <2> HIDE DEF shows
  <2> QED BY <1>2, <1>3, <1>5, <2>2, <2>3, <2>5, FinishKeeps
<1> QED BY <1>4, <1>5

-----------------------------------------------------------------------------
(* Refreshes.                                                              *)

\* Once the registration is done the session's account knows this browser,
\* unless a session that replaces it was announced.
LEMMA SessionIsKnown ==
  ASSUME Inv, reg.succeeded, ~reg.running, session # None
  PROVE  ui.user # None /\ ~ui.signingOut /\ (session \in server.known \/ Overruled)
BY DEF Inv, Registered, EventIsSession, Overruled

\* A refresh that has asked for nothing yet leaves the page as it is.
LEMMA RefreshWaits ==
  ASSUME Inv, refresh' \in RefreshType, refresh'.pc \in {"idle", "wait", "session"}, ui' \in UiType,
         \E status \in {ui.status, "loading", "error"} : ui' = [ui EXCEPT !.status = status],
         saved' \in Macs \cup {None},
         UNCHANGED <<session, event, version, reg, syncs, removal, opening, edits, server, gone,
                     late, overtaken>>
  PROVE  Inv'
<1>0. /\ ui \in UiType /\ UntrustedIsOverruled /\ RouteIsShown /\ SignOutWins /\ OldListsAreEdited
  BY DEF Inv, Types, PageTypes
<1>1. /\ ui'.user = ui.user /\ ui'.signingOut = ui.signingOut /\ ui'.hosts = ui.hosts
      /\ ui'.paired = ui.paired /\ ui'.route = ui.route /\ ui'.trusted = ui.trusted
      /\ ui'.status = "loaded" => ui.status = "loaded"
  BY <1>0 DEF UiType
<1>2. RefreshUnderWay'
  BY DEF RefreshUnderWay
<1>3. UntrustedIsOverruled' /\ RouteIsShown'
  BY <1>0, <1>1 DEF UntrustedIsOverruled, Overruled, RouteIsShown
<1>4. SignOutWins' /\ OldListsAreEdited'
  BY <1>0, <1>1 DEF SignOutWins, OldListsAreEdited
<1> QED BY <1>1, <1>2, <1>3, <1>4, RefreshKeeps

LEMMA SameUi ==
  ASSUME Inv, ui' = ui
  PROVE  ui' \in UiType /\ \E status \in {ui.status, "loading", "error"} : ui' = [ui EXCEPT !.status = status]
<1>1. ui \in UiType /\ ui = [ui EXCEPT !.status = ui.status]
  BY DEF Inv, Types, PageTypes, UiType
<1> QED BY <1>1

LEMMA RefreshRecords ==
  ASSUME refresh \in RefreshType
  PROVE  /\ NoRefresh \in RefreshType /\ NoRefresh.pc = "idle"
         /\ [refresh EXCEPT !.pc = "wait"] \in RefreshType /\ [refresh EXCEPT !.pc = "wait"].pc = "wait"
         /\ \A pc \in {"wait", "session"}, b \in BOOLEAN :
              /\ [NoRefresh EXCEPT !.pc = pc, !.background = b] \in RefreshType
              /\ [NoRefresh EXCEPT !.pc = pc, !.background = b].pc = pc
BY DEF RefreshType, NoRefresh

LEMMA RefreshHostsKeeps == ASSUME Inv, NEW user \in BOOLEAN, RefreshHosts(user) PROVE Inv'
<1>1. /\ refresh \in RefreshType /\ ui \in UiType /\ saved \in Macs \cup {None}
  BY DEF Inv, Types, PageTypes, WorkTypes
<1>2. refresh' \in RefreshType /\ refresh'.pc \in {"wait", "session"}
  <2>1. PICK pc \in {"wait", "session"}, b \in BOOLEAN :
          refresh' = [NoRefresh EXCEPT !.pc = pc, !.background = b]
    BY DEF RefreshHosts
  <2> QED BY <1>1, <2>1, RefreshRecords
<1>3. ui' = ui \/ ui' = [ui EXCEPT !.status = "loading"]
  BY DEF RefreshHosts
<1>4. ui' \in UiType /\ \E status \in {ui.status, "loading", "error"} : ui' = [ui EXCEPT !.status = status]
  <2>1. CASE ui' = ui
    BY <2>1, SameUi
  <2>2. CASE ui' = [ui EXCEPT !.status = "loading"]
    BY <1>1, <2>2 DEF UiType
  <2> QED BY <1>3, <2>1, <2>2
<1> QED BY <1>1, <1>2, <1>4, RefreshWaits DEF RefreshHosts

LEMMA RefreshWaitedKeeps == ASSUME Inv, RefreshWaited PROVE Inv'
<1>1. refresh \in RefreshType /\ saved \in Macs \cup {None}
  BY DEF Inv, Types, PageTypes, WorkTypes
<1> QED BY <1>1, SameUi, RefreshRecords, RefreshWaits DEF RefreshWaited

LEMMA RefreshReadsKeeps == ASSUME Inv, RefreshReads PROVE Inv'
<1>0. Types /\ SignOutWins /\ UntrustedIsOverruled /\ EventIsSession
  BY DEF Inv
<1>1. /\ refresh \in RefreshType /\ saved \in Macs \cup {None} /\ Len(edits) \in Nat /\ version \in Nat
      /\ reg.version = version /\ session \in Accounts \cup {None} /\ OutsideTypes
  BY <1>0, AccountAssumption DEF Types, PageTypes, WorkTypes, OutsideTypes
<1>2. UNCHANGED <<saved, session, event, removal, opening, edits, server, gone, late, overtaken>>
  BY DEF RefreshReads
<1>3. CASE refresh' = [refresh EXCEPT !.pc = "wait"] /\ UNCHANGED <<ui, version, reg, syncs>>
  BY <1>1, <1>2, <1>3, SameUi, RefreshRecords, RefreshWaits
<1>4. CASE (session = None \/ ~Succeeded) /\ Resync
  <2>1. CASE UNCHANGED <<ui, version, reg, syncs>>
    BY <1>3, <1>4, <2>1 DEF Resync
  <2>2. CASE ~(ui.signingOut /\ session # None) /\ Begin(session, refresh.background, ui, version + 1)
    <3>1. OutsideTypes' /\ EventIsSession'
      BY <1>0, <1>1, <1>2 DEF OutsideTypes, EventIsSession
    <3>2. ui.status = "loaded" /\ ~ui.trusted => ui.user # session
      BY <1>0, <1>1, <1>4 DEF UntrustedIsOverruled, Succeeded
    <3>3. refresh' \in RefreshType /\ refresh'.pc = "wait" /\ refresh.background \in BOOLEAN
      BY <1>1, <1>4, RefreshRecords DEF Resync, RefreshType
    <3> QED BY <1>1, <1>2, <2>2, <3>1, <3>2, <3>3, BeginKeeps
  <2> QED BY <1>4, <2>1, <2>2 DEF Resync
<1>5. CASE /\ session # None /\ ~Running /\ Succeeded
           /\ refresh' = [refresh EXCEPT !.pc = "fetch", !.v = version, !.account = session,
                                         !.mark = Len(edits)]
           /\ UNCHANGED <<ui, version, reg, syncs>>
  <2>1. /\ refresh' \in RefreshType /\ refresh'.pc = "fetch" /\ refresh'.v = version
        /\ refresh'.account = session /\ refresh'.mark = Len(edits)
    BY <1>1, <1>5 DEF RefreshType
  <2>2. reg.succeeded /\ ~reg.running
    BY <1>1, <1>5 DEF Running, Succeeded
  <2>3. session \in server.known \/ Overruled
    BY <1>5, <2>2, SessionIsKnown
  <2>4. RefreshUnderWay'
    BY <1>1, <1>2, <1>5, <2>1, <2>2, <2>3 DEF RefreshUnderWay, Overruled
  <2>5. ui' \in UiType /\ UntrustedIsOverruled' /\ RouteIsShown' /\ SignOutWins' /\ OldListsAreEdited'
    BY <1>2, <1>5 DEF Inv, Types, PageTypes, UntrustedIsOverruled, Overruled, RouteIsShown,
                      SignOutWins, OldListsAreEdited
  <2> QED BY <1>1, <1>2, <1>5, <2>1, <2>4, <2>5, RefreshKeeps
<1> QED BY <1>3, <1>4, <1>5 DEF RefreshReads

LEMMA RefreshFetchesKeeps == ASSUME Inv, RefreshFetches PROVE Inv'
<1>0. Types /\ RefreshUnderWay /\ GoneIsUnlinked
  BY DEF Inv
<1>1. PICK a \in {refresh.account, session} \ {None} :
        refresh' = [refresh EXCEPT !.pc = "answer", !.account = a, !.list = server.macs[a],
                                   !.trusted = a \in server.known]
  BY DEF RefreshFetches
<1>2. /\ refresh \in RefreshType /\ refresh.pc = "fetch" /\ saved \in Macs \cup {None}
      /\ server \in [macs : [Accounts -> SUBSET Macs], known : SUBSET Accounts]
      /\ session \in Accounts \cup {None}
  BY <1>0 DEF RefreshFetches, Types, PageTypes, WorkTypes, OutsideTypes
<1>3. a \in Accounts /\ server.macs[a] \in SUBSET Macs
  BY <1>1, <1>2 DEF RefreshType
<1>4. UNCHANGED <<ui, saved, session, event, version, reg, syncs, removal, opening, edits, server, gone,
                  late, overtaken>>
  BY DEF RefreshFetches
<1>5. /\ refresh' \in RefreshType /\ refresh'.pc = "answer" /\ refresh'.account = a
      /\ refresh'.list = server.macs[a] /\ refresh'.v = refresh.v /\ refresh'.mark = refresh.mark
      /\ refresh'.trusted <=> a \in server.known
  <2> DEFINE b == a \in server.known
  <2>1. b \in BOOLEAN
    OBVIOUS
  <2>2. refresh' = [refresh EXCEPT !.pc = "answer", !.account = a, !.list = server.macs[a], !.trusted = b]
    BY <1>1
  <2>3. b <=> a \in server.known
    OBVIOUS
  <2> HIDE DEF b
  <2>4. /\ refresh' \in RefreshType /\ refresh'.pc = "answer" /\ refresh'.account = a
        /\ refresh'.list = server.macs[a] /\ refresh'.v = refresh.v /\ refresh'.mark = refresh.mark
        /\ refresh'.trusted = b
    BY <1>2, <1>3, <2>1, <2>2 DEF RefreshType
  <2> QED BY <2>3, <2>4
<1>6. gone \cap Edited(refresh'.list, refresh'.mark) = {}
  BY <1>0, <1>3, <1>5 DEF GoneIsUnlinked, Edited
<1>7. ASSUME refresh.v = version
      PROVE  reg.succeeded /\ ~reg.running /\ (a \in server.known \/ Overruled)
  <2>1. reg.succeeded /\ ~reg.running /\ (refresh.account \in server.known \/ Overruled)
    BY <1>0, <1>2, <1>7 DEF RefreshUnderWay
  <2> QED BY <1>1, <2>1, SessionIsKnown
<1>8. RefreshUnderWay'
  <2>1. refresh.mark <= Len(edits) /\ refresh.v <= version
    BY <1>0, <1>2 DEF RefreshUnderWay
  <2> QED BY <1>1, <1>4, <1>5, <1>7, <2>1 DEF RefreshUnderWay, Overruled
<1>9. ui' \in UiType /\ UntrustedIsOverruled' /\ RouteIsShown' /\ SignOutWins' /\ OldListsAreEdited'
  BY <1>4 DEF Inv, Types, PageTypes, UntrustedIsOverruled, Overruled, RouteIsShown,
              SignOutWins, OldListsAreEdited
<1> QED BY <1>2, <1>4, <1>5, <1>6, <1>8, <1>9, RefreshKeeps

LEMMA RefreshAnsweredKeeps == ASSUME Inv, RefreshAnswered PROVE Inv'
<1> DEFINE hosts == Edited(refresh.list, refresh.mark)
           chosen == IF refresh.trusted THEN Selected(hosts, ui.paired) ELSE None
<1>0. Types /\ RefreshUnderWay /\ ListsAreEdited
  BY DEF Inv
<1>1. /\ refresh \in RefreshType /\ refresh.pc = "answer" /\ saved \in Macs \cup {None}
  BY <1>0 DEF RefreshAnswered, Types, PageTypes, WorkTypes
<1>2. UNCHANGED <<ui, session, event, version, reg, syncs, removal, opening, edits, server, gone,
                  late, overtaken>>
  BY DEF RefreshAnswered
<1>3. hosts \in SUBSET Macs /\ (gone \ late) \cap hosts = {}
  BY <1>0, <1>1 DEF RefreshType, Edited, ListsAreEdited
<1>4. chosen \in Macs \cup {None}
  BY <1>3, SelectedType
<1>5. CASE refresh' = NoRefresh /\ UNCHANGED saved
  BY <1>1, <1>2, <1>5, SameUi, RefreshRecords, RefreshWaits
<1>6. CASE /\ refresh' = [refresh EXCEPT !.pc = "save", !.list = hosts, !.chosen = chosen]
           /\ saved' \in {saved, chosen}
  <2> HIDE DEF hosts, chosen
  <2>1. /\ refresh' \in RefreshType /\ refresh'.pc = "save" /\ refresh'.account = refresh.account
        /\ refresh'.list = hosts /\ refresh'.v = refresh.v /\ refresh'.mark = refresh.mark
        /\ refresh'.trusted = refresh.trusted
    BY <1>1, <1>3, <1>4, <1>6 DEF RefreshType
  <2>2. RefreshUnderWay'
    BY <1>0, <1>1, <1>2, <2>1 DEF RefreshUnderWay, Overruled
  <2>3. ui' \in UiType /\ UntrustedIsOverruled' /\ RouteIsShown' /\ SignOutWins' /\ OldListsAreEdited'
    BY <1>2 DEF Inv, Types, PageTypes, UntrustedIsOverruled, Overruled, RouteIsShown,
                SignOutWins, OldListsAreEdited
  <2> QED BY <1>1, <1>2, <1>3, <1>4, <1>6, <2>1, <2>2, <2>3, RefreshKeeps
<1>7. \/ refresh' = NoRefresh /\ UNCHANGED saved
      \/ /\ refresh' = [refresh EXCEPT !.pc = "save", !.list = hosts, !.chosen = chosen]
         /\ saved' \in {saved, chosen}
  BY DEF RefreshAnswered
<1> QED BY <1>5, <1>6, <1>7

LEMMA RefreshFailsKeeps == ASSUME Inv, RefreshFails PROVE Inv'
<1>1. /\ refresh \in RefreshType /\ ui \in UiType /\ saved \in Macs \cup {None}
  BY DEF Inv, Types, PageTypes, WorkTypes
<1>2. ui' = ui \/ ui' = [ui EXCEPT !.status = AfterFailure]
  BY DEF RefreshFails
<1>3. ui' \in UiType /\ \E status \in {ui.status, "loading", "error"} : ui' = [ui EXCEPT !.status = status]
  <2>1. CASE ui' = ui
    BY <2>1, SameUi
  <2>2. CASE ui' = [ui EXCEPT !.status = AfterFailure]
    <3>1. AfterFailure \in {ui.status, "loading", "error"}
      BY DEF AfterFailure
    <3> QED BY <1>1, <2>2, <3>1 DEF UiType
  <2> QED BY <1>2, <2>1, <2>2
<1> QED BY <1>1, <1>3, RefreshRecords, RefreshWaits DEF RefreshFails

LEMMA RefreshSavedKeeps == ASSUME Inv, RefreshSaved PROVE Inv'
<1>0. Types /\ RefreshUnderWay /\ ListsAreEdited /\ Registered /\ RouteIsShown
  BY DEF Inv
<1>1. /\ refresh \in RefreshType /\ refresh.pc = "save" /\ saved \in Macs \cup {None} /\ ui \in UiType
      /\ NoRefresh \in RefreshType /\ NoRefresh.pc = "idle"
  BY <1>0, RefreshRecords DEF RefreshSaved, Types, PageTypes, WorkTypes
<1>2. /\ refresh' = NoRefresh
      /\ UNCHANGED <<saved, session, event, version, reg, syncs, removal, opening, edits, server, gone,
                     late, overtaken>>
  BY DEF RefreshSaved
<1>3. CASE ui' = ui
  BY <1>1, <1>2, <1>3, SameUi, RefreshWaits
<1>4. CASE IsCurrentList
  <2>1. refresh.v = version /\ reg.succeeded /\ (refresh.trusted \/ Overruled)
    BY <1>0, <1>1, <1>4 DEF IsCurrentList, IsCurrent, RefreshUnderWay
  <2>2. ui.user # None /\ ~ui.signingOut
    BY <1>0, <2>1 DEF Registered
  <2>3. ui' = [ui EXCEPT !.user = ui.user, !.hosts = refresh.list, !.status = "loaded",
                         !.trusted = refresh.trusted, !.paired = refresh.chosen]
    BY <1>4, <2>2 DEF RefreshSaved
  <2>4. /\ ui' \in UiType /\ ui'.user = ui.user /\ ui'.signingOut = ui.signingOut
        /\ ui'.hosts = refresh.list /\ ui'.route = ui.route /\ ui'.trusted = refresh.trusted
    BY <1>1, <2>3 DEF UiType, RefreshType
  <2>5. (gone \ late) \cap refresh.list = {}
    BY <1>0, <1>1 DEF ListsAreEdited
  <2>6. UntrustedIsOverruled'
    BY <1>2, <2>1, <2>2, <2>4 DEF UntrustedIsOverruled, Overruled
  <2>7. RouteIsShown' /\ SignOutWins' /\ OldListsAreEdited'
    BY <1>0, <1>2, <2>2, <2>4, <2>5 DEF RouteIsShown, SignOutWins, OldListsAreEdited
  <2>8. RefreshUnderWay'
    BY <1>1, <1>2 DEF RefreshUnderWay
  <2> QED BY <1>1, <1>2, <2>4, <2>6, <2>7, <2>8, RefreshKeeps
<1> QED BY <1>3, <1>4 DEF RefreshSaved

-----------------------------------------------------------------------------
(* What happens outside, and what the person does.                         *)

\* A session is announced to this page.
LEMMA SessionChanges ==
  ASSUME Inv, NEW a \in Accounts \cup {None}, event = <<>>, session' = a, event' = <<a>>,
         UNCHANGED <<ui, saved, version, reg, syncs, refresh, removal, opening, edits, server, gone,
                     late, overtaken>>
  PROVE  Inv'
<1>0. /\ Types /\ SyncsApart /\ SyncsUnderWay /\ NewestSync /\ Registered /\ RefreshUnderWay
      /\ UntrustedIsOverruled /\ RouteIsShown /\ SignOutWins /\ ListsAreEdited /\ OldListsAreEdited
      /\ GoneIsUnlinked
  BY DEF Inv
<1>1. event' # <<>> /\ Head(event') = a
  OBVIOUS
<1>2. Types'
  BY <1>0 DEF Types, PageTypes, WorkTypes, OutsideTypes
<1>3. SyncsApart' /\ SyncsUnderWay'
  BY <1>0 DEF SyncsApart, SyncsUnderWay
<1>4. NewestSync' /\ Registered'
  BY <1>0, <1>1 DEF NewestSync, Alone, Registered
<1>5. RefreshUnderWay' /\ UntrustedIsOverruled'
  BY <1>0 DEF RefreshUnderWay, UntrustedIsOverruled, Overruled
<1>6. EventIsSession' /\ RouteIsShown' /\ SignOutWins' /\ OldListsAreEdited' /\ GoneIsUnlinked'
  BY <1>0, <1>1 DEF EventIsSession, RouteIsShown, SignOutWins, OldListsAreEdited, GoneIsUnlinked
<1>7. ListsAreEdited'
  BY <1>0 DEF ListsAreEdited, Edited
<1> QED BY <1>2, <1>3, <1>4, <1>5, <1>6, <1>7 DEF Inv

\* Nothing is forgotten and no Mac is linked.
LEMMA QuietKeeps ==
  ASSUME Inv, ui' \in UiType, ui'.user = ui.user, ui'.signingOut \in {ui.signingOut, FALSE},
         ui'.status = ui.status, ui'.trusted = ui.trusted, ui'.hosts = ui.hosts,
         ui'.paired = ui.paired \/ ui.user # None \/ overtaken',
         ui'.route = ui.route \/ ui'.route \in {"hosts", "workspace"},
         overtaken' \in BOOLEAN, overtaken => overtaken',
         saved' \in Macs \cup {None},
         removal' \in [pc : {"idle", "sent", "removed", "recheck"}, mac : Macs \cup {None},
                       account : Accounts \cup {None}],
         removal'.pc # "idle" => removal'.mac \in Macs,
         opening' # None => opening' \in [mac : Macs, account : Accounts],
         server' \in [macs : [Accounts -> SUBSET Macs], known : SUBSET Accounts],
         server'.known = server.known, \A a \in Accounts : server'.macs[a] \subseteq server.macs[a],
         UNCHANGED <<session, event, version, reg, syncs, refresh, edits, gone, late>>
  PROVE  Inv'
<1>0. /\ Types /\ RouteIsShown /\ SignOutWins /\ OldListsAreEdited /\ GoneIsUnlinked /\ ListsAreEdited
  BY DEF Inv
<1>1. RouteIsShown' /\ OldListsAreEdited'
  BY <1>0 DEF RouteIsShown, OldListsAreEdited
<1>2. SignOutWins'
  BY <1>0 DEF SignOutWins
<1>3. GoneIsUnlinked'
  BY <1>0 DEF GoneIsUnlinked
<1>4. ListsAreEdited'
  BY <1>0 DEF ListsAreEdited, Edited
<1>5. OutsideTypes' /\ edits' \in Seq(Macs) /\ Len(edits) <= Len(edits')
  BY <1>0 DEF Types, OutsideTypes, PageTypes
<1> QED BY <1>1, <1>2, <1>3, <1>4, <1>5, OutsideKeeps

RemovalType ==
  [pc : {"idle", "sent", "removed", "recheck"}, mac : Macs \cup {None}, account : Accounts \cup {None}]

\* What the quiet steps leave as it is has its type.
LEMMA QuietTypes ==
  ASSUME Inv
  PROVE  /\ ui \in UiType /\ saved \in Macs \cup {None} /\ overtaken \in BOOLEAN
         /\ removal \in RemovalType /\ (removal.pc # "idle" => removal.mac \in Macs)
         /\ opening # None => opening \in [mac : Macs, account : Accounts]
         /\ server \in [macs : [Accounts -> SUBSET Macs], known : SUBSET Accounts]
         /\ session \in Accounts \cup {None}
         /\ NoRemoval \in RemovalType /\ NoRemoval.pc = "idle"
         /\ \A pc \in {"removed", "recheck"} : /\ [removal EXCEPT !.pc = pc] \in RemovalType
                                               /\ [removal EXCEPT !.pc = pc].mac = removal.mac
<1>1. /\ ui \in UiType /\ saved \in Macs \cup {None} /\ overtaken \in BOOLEAN
      /\ removal \in RemovalType /\ (removal.pc # "idle" => removal.mac \in Macs)
      /\ opening # None => opening \in [mac : Macs, account : Accounts]
      /\ server \in [macs : [Accounts -> SUBSET Macs], known : SUBSET Accounts]
      /\ session \in Accounts \cup {None}
  BY DEF Inv, Types, PageTypes, WorkTypes, OutsideTypes, RemovalType
<1>2. NoRemoval \in RemovalType /\ NoRemoval.pc = "idle"
  BY DEF NoRemoval, RemovalType
<1>3. \A pc \in {"removed", "recheck"} : /\ [removal EXCEPT !.pc = pc] \in RemovalType
                                         /\ [removal EXCEPT !.pc = pc].mac = removal.mac
  BY <1>1 DEF RemovalType
<1> QED BY <1>1, <1>2, <1>3

LEMMA SignOutEndsKeeps == ASSUME Inv, SignOutEnds PROVE Inv'
<1>1. ui' = [ui EXCEPT !.signingOut = FALSE]
  BY DEF SignOutEnds
<1>2. /\ ui' \in UiType /\ ui'.user = ui.user /\ ui'.signingOut = FALSE /\ ui'.status = ui.status
      /\ ui'.trusted = ui.trusted /\ ui'.hosts = ui.hosts /\ ui'.paired = ui.paired /\ ui'.route = ui.route
  BY <1>1, QuietTypes DEF UiType
<1>3. UNCHANGED <<saved, session, event, version, reg, syncs, refresh, removal, opening, edits, server,
                  gone, late, overtaken>>
  BY DEF SignOutEnds
<1> QED BY <1>2, <1>3, QuietTypes, QuietKeeps DEF RemovalType

LEMMA ShowHostsKeeps == ASSUME Inv, ShowHosts PROVE Inv'
<1>1. ui' = [ui EXCEPT !.route = "hosts"]
  BY DEF ShowHosts
<1>2. /\ ui' \in UiType /\ ui'.user = ui.user /\ ui'.signingOut = ui.signingOut /\ ui'.status = ui.status
      /\ ui'.trusted = ui.trusted /\ ui'.hosts = ui.hosts /\ ui'.paired = ui.paired /\ ui'.route = "hosts"
  BY <1>1, QuietTypes DEF UiType, Routes
<1>3. UNCHANGED <<saved, session, event, version, reg, syncs, refresh, removal, opening, edits, server,
                  gone, late, overtaken>>
  BY DEF ShowHosts
<1> QED BY <1>2, <1>3, QuietTypes, QuietKeeps DEF RemovalType

\* A Mac may open over a page its account has left: overtaken says so.
LEMMA HostOpenedKeeps == ASSUME Inv, HostOpened PROVE Inv'
<1>1. /\ opening \in [mac : Macs, account : Accounts] /\ opening' = None
      /\ ui' = [ui EXCEPT !.paired = opening.mac, !.route = "workspace"]
      /\ overtaken' = (overtaken \/ ui.user # opening.account \/ opening.mac \notin ui.hosts)
  BY QuietTypes DEF HostOpened
<1>2. opening.mac \in Macs /\ opening.account \in Accounts
  BY <1>1
<1>3. /\ ui' \in UiType /\ ui'.user = ui.user /\ ui'.signingOut = ui.signingOut /\ ui'.status = ui.status
      /\ ui'.trusted = ui.trusted /\ ui'.hosts = ui.hosts /\ ui'.route = "workspace"
  BY <1>1, <1>2, QuietTypes DEF UiType, Routes
<1>4. overtaken' \in BOOLEAN /\ (overtaken => overtaken')
  BY <1>1, QuietTypes
<1>5. ui.user # None \/ overtaken'
  BY <1>1, <1>2, AccountAssumption
<1>6. UNCHANGED <<saved, session, event, version, reg, syncs, refresh, removal, edits, server, gone, late>>
  BY DEF HostOpened
<1> QED BY <1>1, <1>3, <1>4, <1>5, <1>6, QuietTypes, QuietKeeps DEF RemovalType

\* What the person does to a Mac on the list.
LEMMA ListedMac ==
  ASSUME Inv, NEW m \in Macs, m \in ui.hosts
  PROVE  ui.user \in Accounts
BY QuietTypes DEF Inv, SignOutWins, UiType

LEMMA RemoveHostKeeps == ASSUME Inv, NEW m \in Macs, RemoveHost(m) PROVE Inv'
<1>1. removal' = [pc |-> "sent", mac |-> m, account |-> ui.user] /\ m \in ui.hosts
  BY DEF RemoveHost
<1>2. removal' \in RemovalType /\ removal'.mac \in Macs
  BY <1>1, ListedMac DEF RemovalType
<1>3. UNCHANGED <<ui, saved, session, event, version, reg, syncs, refresh, opening, edits, server,
                  gone, late, overtaken>>
  BY DEF RemoveHost
<1> QED BY <1>2, <1>3, QuietTypes, QuietKeeps DEF RemovalType

LEMMA ChooseHostKeeps == ASSUME Inv, NEW m \in Macs, ChooseHost(m) PROVE Inv'
<1>1. opening' = [mac |-> m, account |-> ui.user] /\ m \in ui.hosts /\ saved' = m
  BY DEF ChooseHost
<1>2. opening' \in [mac : Macs, account : Accounts]
  BY <1>1, ListedMac
<1>3. UNCHANGED <<ui, session, event, version, reg, syncs, refresh, removal, edits, server, gone, late, overtaken>>
  BY DEF ChooseHost
<1> QED BY <1>1, <1>2, <1>3, QuietTypes, QuietKeeps DEF RemovalType

\* An account loses a Mac.
LEMMA LosesMac ==
  ASSUME Inv, NEW a \in Accounts, NEW m, server' = [server EXCEPT !.macs[a] = @ \ {m}]
  PROVE  /\ server' \in [macs : [Accounts -> SUBSET Macs], known : SUBSET Accounts]
         /\ server'.known = server.known
         /\ \A b \in Accounts : server'.macs[b] \subseteq server.macs[b]
BY QuietTypes

LEMMA RemovedElsewhereKeeps ==
  ASSUME Inv, NEW a \in Accounts, NEW m \in Macs, RemovedElsewhere(a, m) PROVE Inv'
<1>1. server' = [server EXCEPT !.macs[a] = @ \ {m}]
  BY DEF RemovedElsewhere
<1>2. UNCHANGED <<ui, saved, session, event, version, reg, syncs, refresh, removal, opening, edits,
                  gone, late, overtaken>>
  BY DEF RemovedElsewhere
<1> QED BY <1>2, <1>1, LosesMac, QuietTypes, QuietKeeps DEF RemovalType

LEMMA RemovedAtServerKeeps == ASSUME Inv, RemovedAtServer PROVE Inv'
<1>0. removal.pc = "sent" /\ removal.mac \in Macs
  BY QuietTypes DEF RemovedAtServer
<1>1. removal' = NoRemoval \/ \E pc \in {"removed", "recheck"} : removal' = [removal EXCEPT !.pc = pc]
  BY DEF RemovedAtServer
<1>2. removal' \in RemovalType /\ (removal'.pc # "idle" => removal'.mac \in Macs)
  BY <1>0, <1>1, QuietTypes
<1>3. /\ server' \in [macs : [Accounts -> SUBSET Macs], known : SUBSET Accounts]
      /\ server'.known = server.known
      /\ \A b \in Accounts : server'.macs[b] \subseteq server.macs[b]
  <2>1. CASE session # None /\ removal.mac \in server.macs[session]
    <3>1. session \in Accounts /\ server' = [server EXCEPT !.macs[session] = @ \ {removal.mac}]
      BY <2>1, QuietTypes DEF RemovedAtServer
    <3> QED BY <3>1, LosesMac
  <2>2. CASE ~(session # None /\ removal.mac \in server.macs[session])
    BY <2>2, QuietTypes DEF RemovedAtServer
  <2> QED BY <2>1, <2>2
<1>4. UNCHANGED <<ui, saved, session, event, version, reg, syncs, refresh, opening, edits, gone, late, overtaken>>
  BY DEF RemovedAtServer
<1> QED BY <1>2, <1>3, <1>4, QuietTypes, QuietKeeps DEF RemovalType

LEMMA RequestLostKeeps == ASSUME Inv, RequestLost PROVE Inv'
<1>1. removal.pc = "sent" /\ removal' = [removal EXCEPT !.pc = "recheck"]
  BY DEF RequestLost
<1>2. removal' \in RemovalType /\ removal'.mac \in Macs
  BY <1>1, QuietTypes
<1>3. UNCHANGED <<ui, saved, session, event, version, reg, syncs, refresh, opening, edits, server,
                  gone, late, overtaken>>
  BY DEF RequestLost
<1> QED BY <1>2, <1>3, QuietTypes, QuietKeeps DEF RemovalType

LEMMA RecheckedKeeps == ASSUME Inv, Rechecked PROVE Inv'
<1>0. removal.mac \in Macs
  BY QuietTypes DEF Rechecked
<1>1. removal' = NoRemoval \/ removal' = [removal EXCEPT !.pc = "removed"]
  BY DEF Rechecked
<1>2. removal' \in RemovalType /\ (removal'.pc # "idle" => removal'.mac \in Macs)
  BY <1>0, <1>1, QuietTypes
<1>3. UNCHANGED <<ui, saved, session, event, version, reg, syncs, refresh, opening, edits, server,
                  gone, late, overtaken>>
  BY DEF Rechecked
<1> QED BY <1>2, <1>3, QuietTypes, QuietKeeps DEF RemovalType

-----------------------------------------------------------------------------
(* Macs leave the page, and come back to an account.                       *)

\* A list loses what the page removed since it was asked for, and the Mac just removed.
LEMMA NewEdit ==
  ASSUME edits \in Seq(Macs), NEW m \in Macs, edits' = Append(edits, m),
         NEW mark \in Nat, mark <= Len(edits), NEW list
  PROVE  Edited(list, mark)' \subseteq Edited(list, mark) \ {m}
<1>1. /\ Len(edits') = Len(edits) + 1 /\ edits'[Len(edits) + 1] = m
      /\ \A i \in 1 .. Len(edits) : edits'[i] = edits[i]
      /\ Len(edits) \in Nat
  OBVIOUS
<1>2. m \in {edits'[i] : i \in mark + 1 .. Len(edits')}
  <2>1. Len(edits) + 1 \in mark + 1 .. Len(edits')
    BY <1>1
  <2> QED BY <1>1, <2>1
<1>3. ASSUME NEW i \in mark + 1 .. Len(edits)
      PROVE  i \in mark + 1 .. Len(edits') /\ edits'[i] = edits[i]
  BY <1>1
<1>4. {edits[i] : i \in mark + 1 .. Len(edits)} \subseteq {edits'[i] : i \in mark + 1 .. Len(edits')}
  BY <1>3
<1> QED BY <1>2, <1>4 DEF Edited

LEMMA ForgetsKeeps ==
  ASSUME Inv, NEW m \in Macs, NEW left \in BOOLEAN, Forgets(m, left),
         removal' \in RemovalType, removal'.pc # "idle" => removal'.mac \in Macs,
         UNCHANGED <<session, event, version, reg, syncs, refresh, opening, server, overtaken>>
  PROVE  Inv'
<1>0. /\ Types /\ SyncsUnderWay /\ RefreshUnderWay /\ RouteIsShown /\ SignOutWins
      /\ OldListsAreEdited /\ GoneIsUnlinked /\ ListsAreEdited
  BY DEF Inv
<1>1. /\ edits' = Append(edits, m)
      /\ gone' = gone \/ (gone' = gone \cup {m} /\ \A a \in Accounts : m \notin server.macs[a])
      /\ late' \in {late, late \cup {m}}
      /\ refresh.pc = "save" \/ (\E s \in syncs : s.pc = "save") => m \in late'
      /\ ui' = Without(m, left) /\ (saved' = saved \/ saved' = None)
  BY DEF Forgets
<1>e. edits \in Seq(Macs) /\ edits' \in Seq(Macs) /\ Len(edits) <= Len(edits')
  BY <1>0, <1>1 DEF Types, PageTypes
<1>2. /\ ui' \in UiType /\ ui'.user = ui.user /\ ui'.signingOut = ui.signingOut /\ ui'.status = ui.status
      /\ ui'.trusted = ui.trusted /\ ui'.hosts = ui.hosts \ {m} /\ ui'.paired \in {ui.paired, None}
      /\ ui'.route \in {ui.route, "hosts"}
  BY <1>1, QuietTypes DEF Without, UiType, Routes
<1>3. RouteIsShown' /\ SignOutWins'
  BY <1>0, <1>2 DEF RouteIsShown, SignOutWins
<1>4. OldListsAreEdited'
  BY <1>0, <1>1, <1>2 DEF OldListsAreEdited
<1>5. GoneIsUnlinked'
  BY <1>0, <1>1 DEF GoneIsUnlinked
<1>6. ListsAreEdited'
  <2>1. ASSUME NEW s \in syncs, s.pc = "answer" PROVE gone' \cap Edited(s.list, s.mark)' = {}
    <3>1. gone \cap Edited(s.list, s.mark) = {}
      BY <1>0, <2>1 DEF ListsAreEdited
    <3>2. s.mark \in Nat /\ s.mark <= Len(edits)
      BY <1>0, <2>1 DEF SyncsUnderWay, Types, WorkTypes, SyncType
    <3>3. Edited(s.list, s.mark)' \subseteq Edited(s.list, s.mark) \ {m}
      BY <1>1, <1>e, <3>2, NewEdit
    <3> QED BY <1>1, <3>1, <3>3
  <2>2. ASSUME NEW s \in syncs, s.pc = "save" PROVE (gone' \ late') \cap s.list = {}
    <3>1. (gone \ late) \cap s.list = {} /\ m \in late'
      BY <1>0, <1>1, <2>2 DEF ListsAreEdited
    <3> QED BY <1>1, <3>1
  <2>3. ASSUME refresh.pc = "answer" PROVE gone' \cap Edited(refresh.list, refresh.mark)' = {}
    <3>1. gone \cap Edited(refresh.list, refresh.mark) = {}
      BY <1>0, <2>3 DEF ListsAreEdited
    <3>2. refresh.mark \in Nat /\ refresh.mark <= Len(edits)
      BY <1>0, <2>3 DEF RefreshUnderWay, Types, WorkTypes, RefreshType
    <3>3. Edited(refresh.list, refresh.mark)' \subseteq Edited(refresh.list, refresh.mark) \ {m}
      BY <1>1, <1>e, <3>2, NewEdit DEF Edited
    <3> QED BY <1>1, <3>1, <3>3
  <2>4. ASSUME refresh.pc = "save" PROVE (gone' \ late') \cap refresh.list = {}
    <3>1. (gone \ late) \cap refresh.list = {} /\ m \in late'
      BY <1>0, <1>1, <2>4 DEF ListsAreEdited
    <3> QED BY <1>1, <3>1
  <2> QED BY <2>1, <2>2, <2>3, <2>4 DEF ListsAreEdited, Edited
<1>7. OutsideTypes' /\ saved' \in Macs \cup {None}
  BY <1>0, <1>1 DEF Types, OutsideTypes, PageTypes
<1> QED BY <1>2, <1>3, <1>4, <1>5, <1>6, <1>7, <1>e, QuietTypes, OutsideKeeps DEF RemovalType

LEMMA RemovedHereKeeps == ASSUME Inv, RemovedHere PROVE Inv'
<1>1. removal.pc = "removed" /\ removal' = NoRemoval /\ removal.mac \in Macs
  BY QuietTypes DEF RemovedHere
<1>2. CASE ui.user = removal.account
  <2>1. Forgets(removal.mac, ui.route = "workspace")
    BY <1>2 DEF RemovedHere
  <2>2. UNCHANGED <<session, event, version, reg, syncs, refresh, opening, server, overtaken>>
    BY DEF RemovedHere
  <2> QED BY <1>1, <2>1, <2>2, QuietTypes, ForgetsKeeps
<1>3. CASE ui.user # removal.account
  <2>1. UNCHANGED <<ui, saved, session, event, version, reg, syncs, refresh, opening, edits, server,
                    gone, late, overtaken>>
    BY <1>3 DEF RemovedHere
  <2> QED BY <1>1, <2>1, QuietTypes, QuietKeeps DEF RemovalType
<1> QED BY <1>2, <1>3

LEMMA RelayClosedKeeps == ASSUME Inv, RelayClosed PROVE Inv'
<1>1. ui.paired \in Macs /\ Forgets(ui.paired, TRUE)
  BY QuietTypes DEF RelayClosed, UiType
<1>2. UNCHANGED <<session, event, version, reg, syncs, refresh, removal, opening, server, overtaken>>
  BY DEF RelayClosed
<1> QED BY <1>1, <1>2, QuietTypes, ForgetsKeeps

\* Only a Mac of no account is linked again, and it is no longer one that was removed.
LEMMA LinkedAgainKeeps == ASSUME Inv, NEW a \in Accounts, NEW m \in Macs, LinkedAgain(a, m) PROVE Inv'
<1>0. /\ Types /\ RouteIsShown /\ SignOutWins /\ OldListsAreEdited /\ GoneIsUnlinked /\ ListsAreEdited
  BY DEF Inv
<1>1. /\ server' = [server EXCEPT !.macs[a] = @ \cup {m}] /\ gone' = gone \ {m}
      /\ UNCHANGED <<ui, saved, session, event, version, reg, syncs, refresh, removal, opening, edits, late,
                     overtaken>>
  BY DEF LinkedAgain
<1>2. /\ server' \in [macs : [Accounts -> SUBSET Macs], known : SUBSET Accounts]
      /\ server'.known = server.known
      /\ \A b \in Accounts : server'.macs[b] \subseteq server.macs[b] \cup {m}
  BY <1>1, QuietTypes
<1>3. RouteIsShown' /\ SignOutWins' /\ OldListsAreEdited'
  BY <1>0, <1>1 DEF RouteIsShown, SignOutWins, OldListsAreEdited
<1>4. GoneIsUnlinked'
  BY <1>0, <1>1, <1>2 DEF GoneIsUnlinked
<1>5. ListsAreEdited'
  BY <1>0, <1>1 DEF ListsAreEdited, Edited
<1>6. OutsideTypes'
  BY <1>0, <1>1, <1>2 DEF Types, OutsideTypes
<1>7. edits' \in Seq(Macs) /\ Len(edits) <= Len(edits')
  BY <1>0, <1>1 DEF Types, PageTypes
<1> QED BY <1>1, <1>2, <1>3, <1>4, <1>5, <1>6, <1>7, QuietTypes, OutsideKeeps DEF RemovalType

-----------------------------------------------------------------------------
(* The theorems.                                                           *)

LEMMA SyncStepKeeps == ASSUME Inv, NEW s \in syncs, SyncStep(s) PROVE Inv'
BY SyncClearsKeeps, SyncStoredKeeps, SyncRegistersKeeps, SyncAnsweredKeeps, SyncFailsKeeps,
   SyncThrowsKeeps, SyncSavedKeeps DEF SyncStep

LEMMA NextKeeps == ASSUME Inv, [Next]_vars PROVE Inv'
<1>1. CASE SyncMoves
  BY <1>1, SyncStepKeeps DEF SyncMoves
<1>2. CASE Announced \/ SignOut \/ SignOutEnds \/ (\E s \in syncs : SignedOutByMac(s))
  BY <1>2, AnnouncedKeeps, SignOutKeeps, SignOutEndsKeeps, SignedOutByMacKeeps
<1>3. CASE SignsOutElsewhere
  BY <1>3, SessionChanges DEF SignsOutElsewhere
<1>4. CASE \E a \in Accounts : SignsIn(a)
  BY <1>4, SessionChanges DEF SignsIn
<1>5. CASE (\E user \in BOOLEAN : RefreshHosts(user)) \/ RefreshWaited \/ RefreshReads \/ RefreshFetches
           \/ RefreshAnswered \/ RefreshFails \/ RefreshSaved
  BY <1>5, RefreshHostsKeeps, RefreshWaitedKeeps, RefreshReadsKeeps, RefreshFetchesKeeps,
     RefreshAnsweredKeeps, RefreshFailsKeeps, RefreshSavedKeeps
<1>6. CASE RemovedAtServer \/ RequestLost \/ Rechecked \/ RemovedHere \/ RelayClosed
           \/ HostOpened \/ ShowHosts
  BY <1>6, RemovedAtServerKeeps, RequestLostKeeps, RecheckedKeeps, RemovedHereKeeps, RelayClosedKeeps,
     HostOpenedKeeps, ShowHostsKeeps
<1>7. CASE \E m \in Macs : RemoveHost(m) \/ ChooseHost(m)
  BY <1>7, RemoveHostKeeps, ChooseHostKeeps
<1>8. CASE \E a \in Accounts : \E m \in Macs : RemovedElsewhere(a, m) \/ LinkedAgain(a, m)
  BY <1>8, RemovedElsewhereKeeps, LinkedAgainKeeps
<1>9. CASE UNCHANGED vars
  <2>1. UNCHANGED <<ui, saved, session, event, version, reg, syncs, refresh, removal, opening, edits,
                    server, gone, late, overtaken>>
    BY <1>9 DEF vars
  <2> QED BY <2>1, QuietTypes, QuietKeeps DEF RemovalType
<1> QED BY <1>1, <1>2, <1>3, <1>4, <1>5, <1>6, <1>7, <1>8, <1>9 DEF Next

LEMMA InitHolds == ASSUME Init PROVE Inv
<1>u. ui = [SignedOutUi EXCEPT !.route = "loading"]
  BY DEF Init
<1>1. /\ saved \in Macs \cup {None} /\ version = 0
      /\ reg = [version |-> 0, running |-> FALSE, succeeded |-> FALSE] /\ syncs = {}
      /\ refresh = NoRefresh /\ removal = NoRemoval /\ opening = None /\ edits = <<>>
      /\ gone = {} /\ late = {} /\ overtaken = FALSE
      /\ session \in {None} \cup Accounts /\ event = <<session>>
      /\ server = [macs |-> [a \in Accounts |-> {m \in Macs : Owner[m] = a}], known |-> {}]
  BY DEF Init
<1>2. /\ ui \in UiType /\ ui.user = None /\ ui.hosts = {} /\ ui.paired = None /\ ui.status = "idle"
      /\ ui.signingOut = FALSE
  BY <1>u DEF SignedOutUi, UiType, Routes
<1>3. PageTypes
  <2>1. version \in 0 .. MaxSyncs
    BY <1>1, AccountAssumption
  <2>2. reg \in [version : Nat, running : BOOLEAN, succeeded : BOOLEAN] /\ reg.version = version
    BY <1>1
  <2>3. <<>> \in Seq(Macs) /\ FALSE \in BOOLEAN
    OBVIOUS
  <2>4. edits \in Seq(Macs) /\ overtaken \in BOOLEAN
    BY <1>1, <2>3, Zenon
  <2>5. ui \in UiType /\ saved \in Macs \cup {None}
    BY <1>1, <1>2
  <2> QED BY <2>1, <2>2, <2>4, <2>5 DEF PageTypes
<1>4. WorkTypes
  <2>1. NoRefresh \in RefreshType
    BY DEF NoRefresh, RefreshType
  <2>2. NoRemoval \in RemovalType /\ NoRemoval.pc = "idle"
    BY DEF NoRemoval, RemovalType
  <2>3. syncs \subseteq SyncType
    BY <1>1
  <2> QED BY <1>1, <2>1, <2>2, <2>3 DEF WorkTypes, RemovalType
<1>5. OutsideTypes
  BY <1>1 DEF OutsideTypes
<1>6. SyncsApart /\ SyncsUnderWay /\ NewestSync
  BY <1>1 DEF SyncsApart, SyncsUnderWay, NewestSync
<1>7. Registered /\ RefreshUnderWay /\ UntrustedIsOverruled
  BY <1>1, <1>2 DEF Registered, RefreshUnderWay, NoRefresh, UntrustedIsOverruled
<1>8. EventIsSession
  BY <1>1 DEF EventIsSession
<1>9. RouteIsShown /\ SignOutWins /\ GoneIsUnlinked /\ ListsAreEdited /\ OldListsAreEdited
  BY <1>1, <1>2 DEF RouteIsShown, SignOutWins, GoneIsUnlinked, ListsAreEdited, OldListsAreEdited, NoRefresh
<1> QED BY <1>3, <1>4, <1>5, <1>6, <1>7, <1>8, <1>9 DEF Inv, Types

LEMMA AlwaysInv == Spec => []Inv
<1>1. Init => Inv
  BY InitHolds
<1>2. Inv /\ [Next]_vars => Inv'
  BY NextKeeps
<1> QED BY <1>1, <1>2, PTL DEF Spec

\* What the store's readers of a list rely on follows from the invariant.
LEMMA InvShows == ASSUME Inv PROVE SignOutWins /\ ListIsOwn
<1>0. /\ Types /\ SyncsApart /\ RouteIsShown /\ SignOutWins /\ OldListsAreEdited /\ UntrustedIsOverruled
      /\ Registered
  BY DEF Inv
<1>1. TypeOK
  <2>1. /\ ui.user \in Accounts \cup {None} /\ ui.hosts \subseteq Macs /\ ui.paired \in Macs \cup {None}
        /\ ui.status \in {"idle", "loading", "loaded", "error"} /\ ui.route \in Routes
    BY <1>0 DEF Types, PageTypes, UiType
  <2>2. saved \in Macs \cup {None} /\ version \in 0 .. MaxSyncs /\ reg.version \in 0 .. version
    BY <1>0, AccountAssumption DEF Types, PageTypes
  <2> QED BY <1>0, <2>1, <2>2 DEF TypeOK, SyncsApart, RouteIsShown, Routes
<1>2. ReadWhenRegistered
  BY <1>0, QuietTypes DEF ReadWhenRegistered, UntrustedIsOverruled, Overruled, UiType
<1> QED BY <1>0, <1>1, <1>2 DEF ListIsOwn

\* While a sign-out runs the page shows no account, and a page without an
\* account shows no Macs, whatever synchronization, refresh, removal or opening
\* of a Mac ends after it: what an older session brings is dropped.
THEOREM SignOutAlwaysWins == Spec => []SignOutWins
<1>1. Inv => SignOutWins
  BY InvShows
<1> QED BY <1>1, AlwaysInv, PTL

\* The page's list holds no Mac this page removed, whatever list read before the
\* removal arrives after it, unless the removal came while the list was being
\* saved; and a loaded list was read by a browser its account knew, unless the
\* page has yet to hear of a sign-in that takes it over.
THEOREM ListIsTheAccounts == Spec => []ListIsOwn
<1>1. Inv => ListIsOwn
  BY InvShows
<1> QED BY <1>1, AlwaysInv, PTL

-----------------------------------------------------------------------------
(* The session that the tabs of a browser share (AuthSession, with the     *)
(* names MCPhoneAccount gives its variables).                              *)

USE TokenAssumption

Token == 1 .. Len(issued.owner)

SessionTypes ==
  /\ issued \in [owner : Seq(Accounts), live : SUBSET Nat]
  /\ issued.live \cup revoking \subseteq Token
  /\ store \in [token : Token \cup {None}, flow : Tabs \cup {None}, pending : Token \cup {None}]
  /\ page \in [Tabs -> [away : BOOLEAN, shown : Accounts \cup {None}]]
  /\ read \in [Tabs -> Token \cup {None}]
  /\ events \in [Tabs -> Seq(Nat \cup {None})]

\* A tab that is away shows nothing, reads nothing and is told nothing.
Blank(t) == page[t].away => page[t].shown = None /\ read[t] = None /\ events[t] = <<>>

\* A tab that has nothing in flight shows no account but the stored token's.
Agrees(t) ==
  read[t] = None /\ events[t] = <<>> => page[t].shown \in {None, Session!OwnerOf(store.token)}

SessionInv == SessionTypes /\ \A t \in Tabs : Blank(t) /\ Agrees(t)

\* The account of a token: it stays the same when more are issued.
LEMMA OwnerType ==
  ASSUME SessionTypes, NEW k \in Token \cup {None}
  PROVE  Session!OwnerOf(k) \in Accounts \cup {None} /\ (k = None => Session!OwnerOf(k) = None)
<1>1. k # None => k \in 1 .. Len(issued.owner)
  BY DEF Token
<1>2. issued.owner \in Seq(Accounts)
  BY DEF SessionTypes
<1> QED BY <1>1, <1>2 DEF Session!OwnerOf

LEMMA IssueKeepsOwners ==
  ASSUME SessionTypes, NEW a \in Accounts, Session!Issue(a)
  PROVE  /\ Token' = Token \cup {Session!NewToken} /\ Session!NewToken \in Nat
         /\ Session!NewToken \notin Token
         /\ issued' \in [owner : Seq(Accounts), live : SUBSET Nat]
         /\ issued'.live \subseteq Token'
         /\ Session!NewToken # None /\ \A n : n = Session!NewToken => Session!OwnerOf(n)' = a
         /\ \A k \in Token \cup {None} : Session!OwnerOf(k)' = Session!OwnerOf(k)
<1>1. /\ issued.owner \in Seq(Accounts) /\ Len(issued.owner) \in Nat /\ issued.live \subseteq Token
      /\ issued.live \subseteq Nat
  BY DEF SessionTypes
<1>2. /\ issued' = [owner |-> Append(issued.owner, a), live |-> issued.live \cup {Session!NewToken}]
      /\ Session!NewToken = Len(issued.owner) + 1
  BY DEF Session!Issue, Session!NewToken
<1>3. /\ issued'.owner = Append(issued.owner, a) /\ issued'.live = issued.live \cup {Session!NewToken}
      /\ Len(issued'.owner) = Len(issued.owner) + 1 /\ issued'.owner \in Seq(Accounts)
      /\ issued'.owner[Session!NewToken] = a
      /\ \A k \in 1 .. Len(issued.owner) : issued'.owner[k] = issued.owner[k]
  BY <1>1, <1>2
<1>4. Token' = Token \cup {Session!NewToken} /\ Session!NewToken \in Nat /\ Session!NewToken \notin Token
  BY <1>1, <1>2, <1>3 DEF Token
<1>5. issued' \in [owner : Seq(Accounts), live : SUBSET Nat] /\ issued'.live \subseteq Token'
  BY <1>1, <1>2, <1>3, <1>4
<1>6. Session!NewToken # None
  BY <1>4
<1>7. ASSUME NEW n, n = Session!NewToken PROVE Session!OwnerOf(n)' = a
  BY <1>3, <1>6, <1>7 DEF Session!OwnerOf
<1> QED BY <1>3, <1>4, <1>5, <1>6, <1>7 DEF Session!OwnerOf, Token

\* What the other tabs are told when tab t changes the stored token: a change
\* of account is news to each of them.
Told(t, tokens) ==
  events' = [u \in Tabs |-> IF u = t \/ page[u].away THEN events[u] ELSE events[u] \o tokens]

LEMMA TellsOthers ==
  ASSUME SessionTypes, NEW t \in Tabs, NEW tokens \in Seq(Nat \cup {None}), Told(t, tokens)
  PROVE  /\ events' \in [Tabs -> Seq(Nat \cup {None})] /\ events'[t] = events[t]
         /\ \A u \in Tabs : page[u].away => events'[u] = events[u]
         /\ \A u \in Tabs \ {t} : ~page[u].away =>
              (tokens = <<>> /\ events'[u] = events[u]) \/ events'[u] # <<>>
<1>1. \A u \in Tabs : events[u] \in Seq(Nat \cup {None})
  BY DEF SessionTypes
<1>2. ASSUME NEW u \in Tabs
      PROVE  /\ events[u] \o tokens \in Seq(Nat \cup {None})
             /\ tokens = <<>> => events[u] \o tokens = events[u]
             /\ tokens # <<>> => events[u] \o tokens # <<>>
  BY <1>1
<1>3. \A u \in Tabs : events'[u] = IF u = t \/ page[u].away THEN events[u] ELSE events[u] \o tokens
  BY DEF Told
<1>4. events' \in [Tabs -> Seq(Nat \cup {None})]
  BY <1>1, <1>2 DEF Told
<1> QED BY <1>2, <1>3, <1>4

\* A tab does something to what it shows and reads, and may change the token.
LEMMA TabKeeps ==
  ASSUME SessionInv, NEW t \in Tabs, NEW tokens \in Seq(Nat \cup {None}),
         issued' \in [owner : Seq(Accounts), live : SUBSET Nat],
         issued'.live \cup revoking' \subseteq Token', Token \subseteq Token',
         \A k \in Token \cup {None} : Session!OwnerOf(k)' = Session!OwnerOf(k),
         store' \in [token : Token' \cup {None}, flow : Tabs \cup {None}, pending : Token' \cup {None}],
         page' \in [Tabs -> [away : BOOLEAN, shown : Accounts \cup {None}]],
         read' \in [Tabs -> Token' \cup {None}],
         events' \in [Tabs -> Seq(Nat \cup {None})],
         \A u \in Tabs \ {t} : page'[u] = page[u] /\ read'[u] = read[u]
                               /\ (page[u].away => events'[u] = events[u]),
         \A u \in Tabs \ {t} : ~page[u].away =>
            (store'.token = store.token /\ events'[u] = events[u]) \/ events'[u] # <<>>,
         Blank(t)', Agrees(t)'
  PROVE  SessionInv'
<1>1. SessionTypes'
  BY DEF SessionTypes
<1>2. ASSUME NEW u \in Tabs \ {t} PROVE Blank(u)' /\ Agrees(u)'
  <2>1. Blank(u) /\ Agrees(u)
    BY DEF SessionInv
  <2>2. CASE page[u].away
    BY <2>1, <2>2 DEF Blank, Agrees
  <2>3. CASE ~page[u].away
    <3>1. CASE events'[u] # <<>>
      BY <2>3, <3>1 DEF Blank, Agrees
    <3>2. CASE store'.token = store.token /\ events'[u] = events[u]
      <4>1. store.token \in Token \cup {None}
        BY DEF SessionInv, SessionTypes
      <4>2. Session!OwnerOf(store.token)' = Session!OwnerOf(store.token)
        BY <3>2, <4>1 DEF Session!OwnerOf
      <4> QED BY <2>1, <2>3, <3>2, <4>2 DEF Blank, Agrees
    <3> QED BY <2>3, <3>1, <3>2
  <2> QED BY <2>2, <2>3
<1> QED BY <1>1, <1>2 DEF SessionInv

\* The types of what a step leaves as it is, and of what every read sends again.
LEMMA SessionFacts ==
  ASSUME SessionTypes
  PROVE  /\ issued \in [owner : Seq(Accounts), live : SUBSET Nat]
         /\ issued.live \subseteq Token /\ revoking \subseteq Token /\ Token \subseteq Nat
         /\ store \in [token : Token \cup {None}, flow : Tabs \cup {None}, pending : Token \cup {None}]
         /\ page \in [Tabs -> [away : BOOLEAN, shown : Accounts \cup {None}]]
         /\ read \in [Tabs -> Token \cup {None}]
         /\ events \in [Tabs -> Seq(Nat \cup {None})]
         /\ \A k \in {store.token, store.pending} : revoking \cup ({k} \ {None}) \subseteq Token
         /\ issued' = issued => Token' = Token /\ \A k : Session!OwnerOf(k)' = Session!OwnerOf(k)
<1>1. issued' = issued => Token' = Token /\ \A k : Session!OwnerOf(k)' = Session!OwnerOf(k)
  BY DEF Token, Session!OwnerOf
<1> QED BY <1>1 DEF SessionTypes, Token

LEMMA RemovalTold ==
  ASSUME SessionTypes
  PROVE  /\ Session!Removal \in Seq(Nat \cup {None})
         /\ Session!Removal = <<>> => store.token = None
         /\ \A k \in Nat : Session!Removal \o <<k>> \in Seq(Nat \cup {None}) /\ Session!Removal \o <<k>> # <<>>
<1>1. Session!Removal \in {<<>>, <<None>>} /\ (Session!Removal = <<>> => store.token = None)
  BY DEF Session!Removal
<1>2. <<>> \in Seq(Nat \cup {None}) /\ <<None>> \in Seq(Nat \cup {None})
  OBVIOUS
<1>3. ASSUME NEW k \in Nat, NEW q \in Seq(Nat \cup {None})
      PROVE  q \o <<k>> \in Seq(Nat \cup {None}) /\ q \o <<k>> # <<>>
  OBVIOUS
<1> QED BY <1>1, <1>2, <1>3

\* What a tab shows next, and that nothing else of it changes.
LEMMA AnnounceType ==
  ASSUME SessionTypes, NEW t \in Tabs, NEW a \in Accounts \cup {None}, Session!Announce(t, a)
  PROVE  /\ page' \in [Tabs -> [away : BOOLEAN, shown : Accounts \cup {None}]]
         /\ page'[t].shown = a /\ page'[t].away = page[t].away
         /\ \A u \in Tabs \ {t} : page'[u] = page[u]
BY DEF SessionTypes, Session!Announce

LEMMA SignInKeeps ==
  ASSUME SessionInv, NEW t \in Tabs, NEW a \in Accounts, Session!SignIn(t, a) PROVE SessionInv'
<1>0. SessionTypes /\ Blank(t)
  BY DEF SessionInv
<1>1. PICK k : k = Session!NewToken
  OBVIOUS
<1>2. /\ ~page[t].away /\ Session!Issue(a) /\ store' = [store EXCEPT !.token = k]
      /\ Told(t, Session!Removal \o <<k>>) /\ Session!Announce(t, a) /\ UNCHANGED <<read, revoking>>
  BY <1>1 DEF Session!SignIn, Session!Tell, Told
<1>3. /\ k \in Nat /\ k \in Token' /\ Token \subseteq Token' /\ Session!OwnerOf(k)' = a
      /\ issued' \in [owner : Seq(Accounts), live : SUBSET Nat] /\ issued'.live \subseteq Token'
      /\ \A j \in Token \cup {None} : Session!OwnerOf(j)' = Session!OwnerOf(j)
  BY <1>0, <1>1, <1>2, IssueKeepsOwners
<1>4. /\ store' \in [token : Token' \cup {None}, flow : Tabs \cup {None}, pending : Token' \cup {None}]
      /\ store'.token = k
  BY <1>0, <1>2, <1>3, SessionFacts
<1>5. revoking' \subseteq Token' /\ read' \in [Tabs -> Token' \cup {None}]
  BY <1>0, <1>2, <1>3, SessionFacts
<1>6. /\ page' \in [Tabs -> [away : BOOLEAN, shown : Accounts \cup {None}]]
      /\ page'[t].shown = a /\ page'[t].away = page[t].away
      /\ \A u \in Tabs \ {t} : page'[u] = page[u]
  BY <1>0, <1>2, AnnounceType
<1>7. PICK tokens \in Seq(Nat \cup {None}) : tokens # <<>> /\ Told(t, tokens)
  BY <1>0, <1>2, <1>3, RemovalTold
<1>8. /\ events' \in [Tabs -> Seq(Nat \cup {None})]
      /\ \A u \in Tabs : page[u].away => events'[u] = events[u]
      /\ \A u \in Tabs \ {t} : ~page[u].away => events'[u] # <<>>
  BY <1>0, <1>7, TellsOthers
<1>9. Blank(t)' /\ Agrees(t)'
  <2>1. store'.token = k /\ Session!OwnerOf(k)' = a
    BY <1>3, <1>4
  <2>2. Session!OwnerOf(store.token)' = a
    BY <2>1 DEF Session!OwnerOf
  <2> QED BY <1>2, <1>6, <2>2 DEF Blank, Agrees
<1> QED BY <1>2, <1>3, <1>4, <1>5, <1>6, <1>7, <1>8, <1>9, TabKeeps

\* A step of tab t that leaves the token and what the tabs are told alone.
LEMMA OwnStepKeeps ==
  ASSUME SessionInv, NEW t \in Tabs,
         issued' \in [owner : Seq(Accounts), live : SUBSET Nat], issued'.live \subseteq Token',
         issued'.owner = issued.owner, revoking' \subseteq Token,
         store' \in [token : Token \cup {None}, flow : Tabs \cup {None}, pending : Token \cup {None}],
         store'.token = store.token,
         page' \in [Tabs -> [away : BOOLEAN, shown : Accounts \cup {None}]],
         read' \in [Tabs -> Token \cup {None}],
         events' \in [Tabs -> Seq(Nat \cup {None})],
         \A u \in Tabs \ {t} : page'[u] = page[u] /\ read'[u] = read[u] /\ events'[u] = events[u],
         Blank(t)', Agrees(t)'
  PROVE  SessionInv'
<1>1. Token' = Token /\ \A k : Session!OwnerOf(k)' = Session!OwnerOf(k)
  BY DEF Token, Session!OwnerOf
<1>2. <<>> \in Seq(Nat \cup {None})
  OBVIOUS
<1> QED BY <1>1, <1>2, TabKeeps

\* A step of the server or of a revocation.
LEMMA ServerStepKeeps ==
  ASSUME SessionInv,
         issued' \in [owner : Seq(Accounts), live : SUBSET Nat], issued'.live \subseteq issued.live,
         issued'.owner = issued.owner, revoking' \subseteq revoking,
         store' \in [token : Token \cup {None}, flow : Tabs \cup {None}, pending : Token \cup {None}],
         store'.token = store.token,
         UNCHANGED <<page, read, events>>
  PROVE  SessionInv'
<1>0. SessionTypes
  BY DEF SessionInv
<1>1. Token' = Token /\ Session!OwnerOf(store.token)' = Session!OwnerOf(store.token)
  BY DEF Token, Session!OwnerOf
<1>2. SessionTypes'
  BY <1>0, <1>1 DEF SessionTypes
<1>3. \A t \in Tabs : Blank(t)' /\ Agrees(t)'
  BY <1>1 DEF SessionInv, Blank, Agrees
<1> QED BY <1>2, <1>3 DEF SessionInv

LEMMA StartOAuthKeeps == ASSUME SessionInv, NEW t \in Tabs, Session!StartOAuth(t) PROVE SessionInv'
<1>0. SessionTypes
  BY DEF SessionInv
<1>1. /\ store' = [store EXCEPT !.flow = t]
      /\ page' = [page EXCEPT ![t] = [away |-> TRUE, shown |-> None]]
      /\ read' = [read EXCEPT ![t] = None] /\ events' = [events EXCEPT ![t] = <<>>]
      /\ UNCHANGED <<issued, revoking>>
  BY DEF Session!StartOAuth
<1>2. <<>> \in Seq(Nat \cup {None}) /\ [away |-> TRUE, shown |-> None] \in [away : BOOLEAN, shown : Accounts \cup {None}]
  OBVIOUS
<1>3. /\ store' \in [token : Token \cup {None}, flow : Tabs \cup {None}, pending : Token \cup {None}]
      /\ store'.token = store.token
  BY <1>0, <1>1, SessionFacts
<1>4. /\ page' \in [Tabs -> [away : BOOLEAN, shown : Accounts \cup {None}]]
      /\ page'[t].shown = None /\ \A u \in Tabs \ {t} : page'[u] = page[u]
  BY <1>0, <1>1, <1>2, SessionFacts
<1>5. /\ read' \in [Tabs -> Token \cup {None}] /\ read'[t] = None
      /\ \A u \in Tabs \ {t} : read'[u] = read[u]
  BY <1>0, <1>1, SessionFacts
<1>6. /\ events' \in [Tabs -> Seq(Nat \cup {None})] /\ events'[t] = <<>>
      /\ \A u \in Tabs \ {t} : events'[u] = events[u]
  BY <1>0, <1>1, <1>2, SessionFacts
<1>7. Blank(t)' /\ Agrees(t)'
  BY <1>4, <1>5, <1>6 DEF Blank, Agrees
<1> QED BY <1>0, <1>1, <1>3, <1>4, <1>5, <1>6, <1>7, SessionFacts, OwnStepKeeps

\* The page of tab t loads.
LEMMA LoadedPage ==
  ASSUME SessionTypes, NEW t \in Tabs, page' = [page EXCEPT ![t] = [away |-> FALSE, shown |-> None]]
  PROVE  /\ page' \in [Tabs -> [away : BOOLEAN, shown : Accounts \cup {None}]]
         /\ page'[t].shown = None /\ page'[t].away = FALSE /\ \A u \in Tabs \ {t} : page'[u] = page[u]
         /\ Blank(t)' /\ Agrees(t)'
<1>1. [away |-> FALSE, shown |-> None] \in [away : BOOLEAN, shown : Accounts \cup {None}]
  OBVIOUS
<1>2. page' \in [Tabs -> [away : BOOLEAN, shown : Accounts \cup {None}]]
  BY <1>1, SessionFacts
<1>3. page'[t].shown = None /\ page'[t].away = FALSE /\ \A u \in Tabs \ {t} : page'[u] = page[u]
  BY SessionFacts
<1> QED BY <1>2, <1>3 DEF Blank, Agrees

\* ... and reads the session, what it was told before being forgotten.
LEMMA ReloadedKeeps ==
  ASSUME SessionInv, NEW t \in Tabs, UNCHANGED issued,
         page' = [page EXCEPT ![t] = [away |-> FALSE, shown |-> None]],
         read' = [read EXCEPT ![t] = store.token], events' = [events EXCEPT ![t] = <<>>],
         store' \in {store, [store EXCEPT !.flow = None]}, Session!Retry
  PROVE  SessionInv'
<1>0. SessionTypes
  BY DEF SessionInv
<1>1. /\ store' \in [token : Token \cup {None}, flow : Tabs \cup {None}, pending : Token \cup {None}]
      /\ store'.token = store.token
  BY <1>0, SessionFacts
<1>2. /\ read' \in [Tabs -> Token \cup {None}]
      /\ \A u \in Tabs \ {t} : read'[u] = read[u]
  BY <1>0, SessionFacts
<1>3. <<>> \in Seq(Nat \cup {None})
  OBVIOUS
<1>4. /\ events' \in [Tabs -> Seq(Nat \cup {None})]
      /\ \A u \in Tabs \ {t} : events'[u] = events[u]
  BY <1>0, <1>3, SessionFacts
<1>5. revoking' \subseteq Token
  BY <1>0, SessionFacts DEF Session!Retry
<1>6. Token' = Token
  BY DEF Token
<1> QED BY <1>0, <1>1, <1>2, <1>4, <1>5, <1>6, SessionFacts, LoadedPage, OwnStepKeeps

LEMMA ReloadKeeps == ASSUME SessionInv, NEW t \in Tabs, Session!Reload(t) PROVE SessionInv'
BY ReloadedKeeps DEF Session!Reload

\* The return from the provider that names the stored nonce is exchanged for a session.
LEMMA RedirectedKeeps ==
  ASSUME SessionInv, NEW t \in Tabs, NEW a \in Accounts, NEW own \in BOOLEAN, Session!Redirected(t, a, own)
  PROVE  SessionInv'
<1>0. SessionTypes
  BY DEF SessionInv
<1>1. page' = [page EXCEPT ![t] = [away |-> FALSE, shown |-> None]] /\ Session!Retry
  BY DEF Session!Redirected
<1>2. CASE /\ store' = [store EXCEPT !.flow = None] /\ read' = [read EXCEPT ![t] = store.token]
           /\ events' = [events EXCEPT ![t] = <<>>] /\ UNCHANGED issued
  BY <1>1, <1>2, ReloadedKeeps
<1>3. CASE /\ Session!Issue(a) /\ Session!Hold(t, Session!NewToken)
           /\ read' = [read EXCEPT ![t] = Session!NewToken]
  <2>1. PICK k : k = Session!NewToken
    OBVIOUS
  <2>2. /\ k \in Nat /\ k \in Token' /\ Token \subseteq Token'
        /\ issued' \in [owner : Seq(Accounts), live : SUBSET Nat] /\ issued'.live \subseteq Token'
        /\ \A j \in Token \cup {None} : Session!OwnerOf(j)' = Session!OwnerOf(j)
    BY <1>0, <1>3, <2>1, IssueKeepsOwners
  <2>3. /\ store' = [store EXCEPT !.token = k, !.flow = IF @ = t THEN None ELSE @]
        /\ Told(t, Session!Removal \o <<k>>) /\ read' = [read EXCEPT ![t] = k]
    BY <1>3, <2>1 DEF Session!Hold, Session!Tell, Told
  <2>4. store' \in [token : Token' \cup {None}, flow : Tabs \cup {None}, pending : Token' \cup {None}]
    BY <1>0, <2>2, <2>3, SessionFacts
  <2>5. revoking' \subseteq Token'
    BY <1>0, <1>1, <2>2, SessionFacts DEF Session!Retry
  <2>6. /\ read' \in [Tabs -> Token' \cup {None}] /\ \A u \in Tabs \ {t} : read'[u] = read[u]
    BY <1>0, <2>2, <2>3, SessionFacts
  <2>7. PICK tokens \in Seq(Nat \cup {None}) : tokens # <<>> /\ Told(t, tokens)
    BY <1>0, <2>2, <2>3, RemovalTold
  <2>8. /\ events' \in [Tabs -> Seq(Nat \cup {None})]
        /\ \A u \in Tabs : page[u].away => events'[u] = events[u]
        /\ \A u \in Tabs \ {t} : ~page[u].away => events'[u] # <<>>
    BY <1>0, <2>7, TellsOthers
  <2> QED BY <1>0, <1>1, <2>2, <2>4, <2>5, <2>6, <2>7, <2>8, LoadedPage, TabKeeps
<1> QED BY <1>2, <1>3 DEF Session!Redirected

\* A read ends, and the tab shows nobody or the account of the stored token.
LEMMA ReadEndsKeeps ==
  ASSUME SessionInv, NEW t \in Tabs, read[t] # None, UNCHANGED <<issued, revoking>>,
         read' = [read EXCEPT ![t] = None],
         NEW a \in {None, Session!OwnerOf(store.token)}, Session!Announce(t, a),
         UNCHANGED <<store, events>>
  PROVE  SessionInv'
<1>0. SessionTypes /\ Blank(t)
  BY DEF SessionInv
<1>1. /\ read' \in [Tabs -> Token \cup {None}] /\ \A u \in Tabs \ {t} : read'[u] = read[u]
  BY <1>0, SessionFacts
<1>2. a \in Accounts \cup {None}
  <2>1. store.token \in Token \cup {None}
    BY <1>0, SessionFacts
  <2> QED BY <1>0, <2>1, OwnerType
<1>3. /\ page' \in [Tabs -> [away : BOOLEAN, shown : Accounts \cup {None}]]
      /\ page'[t].shown = a /\ page'[t].away = page[t].away
      /\ \A u \in Tabs \ {t} : page'[u] = page[u]
  BY <1>0, <1>2, AnnounceType
<1>4. Token' = Token /\ Session!OwnerOf(store.token)' = Session!OwnerOf(store.token)
  BY DEF Token, Session!OwnerOf
<1>5. Blank(t)' /\ Agrees(t)'
  BY <1>0, <1>3, <1>4 DEF Blank, Agrees
<1> QED BY <1>0, <1>1, <1>3, <1>4, <1>5, SessionFacts, OwnStepKeeps

LEMMA ReadConfirmedKeeps == ASSUME SessionInv, NEW t \in Tabs, Session!ReadConfirmed(t) PROVE SessionInv'
BY ReadEndsKeeps DEF Session!ReadConfirmed

LEMMA ReadFailedKeeps == ASSUME SessionInv, NEW t \in Tabs, Session!ReadFailed(t) PROVE SessionInv'
BY ReadEndsKeeps DEF Session!ReadFailed

LEMMA StartReadKeeps == ASSUME SessionInv, NEW t \in Tabs, Session!StartRead(t) PROVE SessionInv'
<1>0. SessionTypes
  BY DEF SessionInv
<1>1. /\ ~page[t].away /\ Session!Retry /\ UNCHANGED <<issued, store, events>>
      /\ read' = [read EXCEPT ![t] = store.token]
      /\ page' = [page EXCEPT ![t].shown = IF store.token = None THEN None ELSE @]
  BY DEF Session!StartRead
<1>2. /\ read' \in [Tabs -> Token \cup {None}] /\ read'[t] = store.token
      /\ \A u \in Tabs \ {t} : read'[u] = read[u]
  BY <1>0, <1>1, SessionFacts
<1>3. /\ page' \in [Tabs -> [away : BOOLEAN, shown : Accounts \cup {None}]]
      /\ page'[t].away = page[t].away /\ \A u \in Tabs \ {t} : page'[u] = page[u]
      /\ store.token = None => page'[t].shown = None
  BY <1>0, <1>1, SessionFacts
<1>4. revoking' \subseteq Token
  BY <1>0, <1>1, SessionFacts DEF Session!Retry
<1>5. Blank(t)' /\ Agrees(t)'
  BY <1>1, <1>2, <1>3 DEF Blank, Agrees
<1>6. Token' = Token
  BY <1>1 DEF Token
<1> QED BY <1>0, <1>1, <1>2, <1>3, <1>4, <1>5, <1>6, SessionFacts, OwnStepKeeps

\* A tab takes the token out of the storage and shows nobody.
LEMMA ForgetKeeps ==
  ASSUME SessionInv, NEW t \in Tabs, ~page[t].away,
         issued' \in [owner : Seq(Accounts), live : SUBSET Nat], issued'.live \subseteq issued.live,
         issued'.owner = issued.owner, revoking' \subseteq Token,
         store' \in [token : Token \cup {None}, flow : Tabs \cup {None}, pending : Token \cup {None}],
         store'.token = None, Told(t, Session!Removal), Session!Announce(t, None),
         read' \in [Tabs -> Token \cup {None}], \A u \in Tabs \ {t} : read'[u] = read[u]
  PROVE  SessionInv'
<1>0. SessionTypes
  BY DEF SessionInv
<1>1. /\ page' \in [Tabs -> [away : BOOLEAN, shown : Accounts \cup {None}]]
      /\ page'[t].shown = None /\ page'[t].away = page[t].away
      /\ \A u \in Tabs \ {t} : page'[u] = page[u]
  BY <1>0, AnnounceType
<1>2. PICK tokens \in Seq(Nat \cup {None}) : (tokens = <<>> => store.token = None) /\ Told(t, tokens)
  BY <1>0, RemovalTold
<1>3. /\ events' \in [Tabs -> Seq(Nat \cup {None})]
      /\ \A u \in Tabs : page[u].away => events'[u] = events[u]
      /\ \A u \in Tabs \ {t} : ~page[u].away =>
           (tokens = <<>> /\ events'[u] = events[u]) \/ events'[u] # <<>>
  BY <1>0, <1>2, TellsOthers
<1>4. \A u \in Tabs \ {t} : ~page[u].away =>
         (store'.token = store.token /\ events'[u] = events[u]) \/ events'[u] # <<>>
  BY <1>2, <1>3
<1>5. Token' = Token /\ \A k : Session!OwnerOf(k)' = Session!OwnerOf(k)
  BY DEF Token, Session!OwnerOf
<1>6. issued'.live \cup revoking' \subseteq Token'
  BY <1>0, <1>5, SessionFacts
<1>7. Blank(t)' /\ Agrees(t)'
  BY <1>1 DEF Blank, Agrees
<1> QED BY <1>1, <1>2, <1>3, <1>4, <1>5, <1>6, <1>7, TabKeeps

LEMMA ReadRefusedKeeps == ASSUME SessionInv, NEW t \in Tabs, Session!ReadRefused(t) PROVE SessionInv'
<1>0. SessionTypes /\ Blank(t)
  BY DEF SessionInv
<1>1. /\ read[t] # None /\ read' = [read EXCEPT ![t] = None] /\ Session!Announce(t, None)
      /\ UNCHANGED <<issued, revoking>>
  BY DEF Session!ReadRefused
<1>2. CASE UNCHANGED <<store, events>>
  BY <1>1, <1>2, ReadEndsKeeps
<1>3. CASE Session!Forget(t, store)
  <2>1. store' = [store EXCEPT !.token = None] /\ Told(t, Session!Removal)
    BY <1>3 DEF Session!Forget, Session!Tell, Told
  <2>2. /\ store' \in [token : Token \cup {None}, flow : Tabs \cup {None}, pending : Token \cup {None}]
        /\ store'.token = None
    BY <1>0, <2>1, SessionFacts
  <2>3. /\ read' \in [Tabs -> Token \cup {None}] /\ \A u \in Tabs \ {t} : read'[u] = read[u]
    BY <1>0, <1>1, SessionFacts
  <2>4. ~page[t].away
    BY <1>0, <1>1 DEF Blank
  <2> QED BY <1>0, <1>1, <2>1, <2>2, <2>3, <2>4, SessionFacts, ForgetKeeps
<1> QED BY <1>2, <1>3 DEF Session!ReadRefused

\* Signing out, of a browser whose server may have ended sessions.
LEMMA EndLocalKeeps ==
  ASSUME SessionInv, NEW t \in Tabs, ~page[t].away, Session!EndLocal(t), UNCHANGED read,
         issued' \in [owner : Seq(Accounts), live : SUBSET Nat], issued'.live \subseteq issued.live,
         issued'.owner = issued.owner
  PROVE  SessionInv'
<1>0. SessionTypes
  BY DEF SessionInv
<1>1. /\ store' = [Session!QueueAfter(store.token) EXCEPT !.token = None]
      /\ Told(t, Session!Removal) /\ Session!Announce(t, None)
      /\ revoking' = revoking \cup ({store.token} \ {None})
  BY DEF Session!EndLocal, Session!Forget, Session!Tell, Told
<1>2. PICK queued : /\ queued = Session!QueueAfter(store.token)
                    /\ queued = [store EXCEPT !.pending = IF store.token = None THEN @ ELSE store.token]
  BY DEF Session!QueueAfter
<1>3. queued \in [token : Token \cup {None}, flow : Tabs \cup {None}, pending : Token \cup {None}]
  BY <1>0, <1>2, SessionFacts
<1>4. /\ store' \in [token : Token \cup {None}, flow : Tabs \cup {None}, pending : Token \cup {None}]
      /\ store'.token = None
  BY <1>1, <1>2, <1>3
<1>5. revoking' \subseteq Token
  BY <1>0, <1>1, SessionFacts
<1> QED BY <1>0, <1>1, <1>4, <1>5, SessionFacts, ForgetKeeps

\* The server ends some sessions of the ones it holds.
LEMMA LiveShrinks ==
  ASSUME SessionTypes, NEW L \in SUBSET issued.live, issued' = [issued EXCEPT !.live = L]
  PROVE  /\ issued' \in [owner : Seq(Accounts), live : SUBSET Nat]
         /\ issued'.live \subseteq issued.live /\ issued'.owner = issued.owner
<1>1. issued \in [owner : Seq(Accounts), live : SUBSET Nat]
  BY DEF SessionTypes
<1>2. issued.live \in SUBSET Nat /\ DOMAIN issued = {"owner", "live"}
  BY <1>1
<1>3. L \in SUBSET Nat
  BY <1>2
<1>4. issued' = [owner |-> issued.owner, live |-> L]
  BY <1>1
<1>5. issued'.live = L /\ issued'.owner = issued.owner
  BY <1>4
<1>6. issued' \in [owner : Seq(Accounts), live : SUBSET Nat]
  BY <1>1, <1>3, <1>4
<1> QED BY <1>5, <1>6

LEMMA TabSignOutKeeps == ASSUME SessionInv, NEW t \in Tabs, Session!SignOut(t) PROVE SessionInv'
<1>1. SessionTypes /\ ~page[t].away /\ Session!EndLocal(t) /\ UNCHANGED <<issued, read>>
  BY DEF Session!SignOut, SessionInv
<1>2. /\ issued' \in [owner : Seq(Accounts), live : SUBSET Nat]
      /\ issued'.live \subseteq issued.live /\ issued'.owner = issued.owner
  BY <1>1, SessionFacts
<1> QED BY <1>1, <1>2, EndLocalKeeps

LEMMA ResetPasswordKeeps ==
  ASSUME SessionInv, NEW t \in Tabs, NEW a \in Accounts, Session!ResetPassword(t, a) PROVE SessionInv'
<1>1. SessionTypes /\ ~page[t].away /\ Session!EndLocal(t) /\ UNCHANGED read
  BY DEF Session!ResetPassword, SessionInv
<1>2. issued' = [issued EXCEPT !.live = {k \in issued.live : issued.owner[k] # a}]
  BY DEF Session!ResetPassword
<1>3. {k \in issued.live : issued.owner[k] # a} \in SUBSET issued.live
  OBVIOUS
<1> QED BY <1>1, <1>2, <1>3, LiveShrinks, EndLocalKeeps

LEMMA RevokeKeeps == ASSUME SessionInv, NEW k, Session!Revoke(k) PROVE SessionInv'
<1>0. SessionTypes
  BY DEF SessionInv
<1>1. revoking' = revoking \ {k} /\ UNCHANGED <<page, read, events>>
  BY DEF Session!Revoke
<1>2. \/ issued' = issued
      \/ issued' = [issued EXCEPT !.live = issued.live \ {k}]
  BY DEF Session!Revoke
<1>3. /\ issued' \in [owner : Seq(Accounts), live : SUBSET Nat]
      /\ issued'.live \subseteq issued.live /\ issued'.owner = issued.owner
  BY <1>0, <1>2, SessionFacts, LiveShrinks
<1>4. store' = store \/ store' = [store EXCEPT !.pending = None]
  BY DEF Session!Revoke, Session!Revoked
<1>5. /\ store' \in [token : Token \cup {None}, flow : Tabs \cup {None}, pending : Token \cup {None}]
      /\ store'.token = store.token
  BY <1>0, <1>4, SessionFacts
<1> QED BY <1>1, <1>3, <1>5, ServerStepKeeps

LEMMA ServerEndsKeeps == ASSUME SessionInv, NEW k, Session!ServerEnds(k) PROVE SessionInv'
<1>0. SessionTypes
  BY DEF SessionInv
<1>1. /\ issued' = [issued EXCEPT !.live = issued.live \ {k}]
      /\ UNCHANGED <<store, page, read, events, revoking>>
  BY DEF Session!ServerEnds
<1>2. /\ issued' \in [owner : Seq(Accounts), live : SUBSET Nat]
      /\ issued'.live \subseteq issued.live /\ issued'.owner = issued.owner
  BY <1>0, <1>1, LiveShrinks
<1> QED BY <1>0, <1>1, <1>2, SessionFacts, ServerStepKeeps

LEMMA StorageEventKeeps == ASSUME SessionInv, NEW t \in Tabs, Session!StorageEvent(t) PROVE SessionInv'
<1>0. SessionTypes /\ Blank(t) /\ Agrees(t)
  BY DEF SessionInv
<1>1. /\ events[t] # <<>> /\ events' = [events EXCEPT ![t] = Tail(events[t])]
      /\ UNCHANGED <<issued, store>>
  BY DEF Session!StorageEvent
<1>2. events[t] \in Seq(Nat \cup {None})
  BY <1>0, SessionFacts
<1>3. Tail(events[t]) \in Seq(Nat \cup {None})
  BY <1>1, <1>2
<1>4. /\ events' \in [Tabs -> Seq(Nat \cup {None})]
      /\ \A u \in Tabs \ {t} : events'[u] = events[u]
  BY <1>0, <1>1, <1>3, SessionFacts
<1>5. ~page[t].away /\ Token' = Token
  BY <1>0, <1>1 DEF Blank, Token
<1>6. CASE Session!Announce(t, None) /\ UNCHANGED <<read, revoking>>
  <2>1. /\ page' \in [Tabs -> [away : BOOLEAN, shown : Accounts \cup {None}]]
        /\ page'[t].shown = None /\ page'[t].away = page[t].away
        /\ \A u \in Tabs \ {t} : page'[u] = page[u]
    BY <1>0, <1>6, AnnounceType
  <2>2. Blank(t)' /\ Agrees(t)'
    BY <1>5, <2>1 DEF Blank, Agrees
  <2> QED BY <1>0, <1>1, <1>4, <1>5, <1>6, <2>1, <2>2, SessionFacts, OwnStepKeeps
<1>7. CASE read[t] # None /\ UNCHANGED <<page, read, revoking>>
  <2>1. Blank(t)' /\ Agrees(t)'
    BY <1>5, <1>7 DEF Blank, Agrees
  <2> QED BY <1>0, <1>1, <1>4, <1>5, <1>7, <2>1, SessionFacts, OwnStepKeeps
<1>8. CASE /\ store.token # None /\ read' = [read EXCEPT ![t] = store.token]
           /\ Session!Retry /\ UNCHANGED page
  <2>1. /\ read' \in [Tabs -> Token \cup {None}] /\ read'[t] # None
        /\ \A u \in Tabs \ {t} : read'[u] = read[u]
    BY <1>0, <1>8, SessionFacts
  <2>2. revoking' \subseteq Token
    BY <1>0, <1>8, SessionFacts DEF Session!Retry
  <2>3. Blank(t)' /\ Agrees(t)'
    BY <1>5, <1>8, <2>1 DEF Blank, Agrees
  <2> QED BY <1>0, <1>1, <1>4, <1>5, <1>8, <2>1, <2>2, <2>3, SessionFacts, OwnStepKeeps
<1> QED BY <1>6, <1>7, <1>8 DEF Session!StorageEvent

LEMMA SessionBegins == Session!Init => SessionInv
<1> SUFFICES ASSUME Session!Init PROVE SessionInv
  OBVIOUS
<1>1. <<>> \in Seq(Accounts) /\ <<>> \in Seq(Nat \cup {None}) /\ Len(<<>>) = 0
  OBVIOUS
<1>2. /\ issued = [owner |-> <<>>, live |-> {}] /\ store = [token |-> None, flow |-> None, pending |-> None]
      /\ page = [t \in Tabs |-> [away |-> FALSE, shown |-> None]]
      /\ read = [t \in Tabs |-> None] /\ events = [t \in Tabs |-> <<>>] /\ revoking = {}
  BY DEF Session!Init
<1>3. page \in [Tabs -> [away : BOOLEAN, shown : Accounts \cup {None}]]
  <2>1. [away |-> FALSE, shown |-> None] \in [away : BOOLEAN, shown : Accounts \cup {None}]
    OBVIOUS
  <2> QED BY <1>2, <2>1
<1>4. SessionTypes
  BY <1>1, <1>2, <1>3 DEF SessionTypes
<1>5. ASSUME NEW t \in Tabs PROVE Blank(t) /\ Agrees(t)
  BY <1>2 DEF Blank, Agrees
<1> QED BY <1>4, <1>5 DEF SessionInv

LEMMA SessionNext == SessionInv /\ [Session!Next]_(Session!vars) => SessionInv'
<1> SUFFICES ASSUME SessionInv, [Session!Next]_(Session!vars) PROVE SessionInv'
  OBVIOUS
<1>1. CASE UNCHANGED Session!vars
  <2>1. UNCHANGED <<issued, store, page, read, events, revoking>>
    BY <1>1 DEF Session!vars
  <2>2. SessionTypes
    BY DEF SessionInv
  <2> QED BY <2>1, <2>2, SessionFacts, ServerStepKeeps
<1>2. CASE \E k \in Session!Issued : Session!Revoke(k) \/ Session!ServerEnds(k)
  BY <1>2, RevokeKeeps, ServerEndsKeeps
<1>3. ASSUME NEW t \in Tabs,
             \/ Session!StartOAuth(t) \/ Session!StartRead(t) \/ Session!ReadConfirmed(t)
             \/ Session!ReadRefused(t) \/ Session!ReadFailed(t) \/ Session!SignOut(t)
             \/ Session!StorageEvent(t) \/ Session!Reload(t)
      PROVE  SessionInv'
  <2>1. CASE Session!StartOAuth(t)
    BY <2>1, StartOAuthKeeps
  <2>2. CASE Session!StartRead(t)
    BY <2>2, StartReadKeeps
  <2>3. CASE Session!ReadConfirmed(t)
    BY <2>3, ReadConfirmedKeeps
  <2>4. CASE Session!ReadRefused(t)
    BY <2>4, ReadRefusedKeeps
  <2>5. CASE Session!ReadFailed(t)
    BY <2>5, ReadFailedKeeps
  <2>6. CASE Session!SignOut(t)
    BY <2>6, TabSignOutKeeps
  <2>7. CASE Session!StorageEvent(t)
    BY <2>7, StorageEventKeeps
  <2>8. CASE Session!Reload(t)
    BY <2>8, ReloadKeeps
  <2> QED BY <1>3, <2>1, <2>2, <2>3, <2>4, <2>5, <2>6, <2>7, <2>8
<1>4. ASSUME NEW t \in Tabs, NEW a \in Accounts,
             \/ Session!SignIn(t, a) \/ Session!ResetPassword(t, a)
             \/ \E own \in BOOLEAN : Session!Redirected(t, a, own)
      PROVE  SessionInv'
  BY <1>4, SignInKeeps, ResetPasswordKeeps, RedirectedKeeps
<1> QED BY <1>1, <1>2, <1>3, <1>4 DEF Session!Next

LEMMA SessionAlways == Session!Spec => []SessionInv
BY SessionBegins, SessionNext, PTL DEF Session!Spec

\* The tabs of a browser agree on who is signed in: a tab with no read out and
\* no storage event waiting shows the account of the token in storage, or
\* nobody, in whatever order reads, refusals, sign-ins and events came.
THEOREM TabsAlwaysAgree == Session!Spec => []TabsAgree
<1>1. SessionInv => TabsAgree
  <2> SUFFICES ASSUME SessionInv PROVE TabsAgree
    OBVIOUS
  <2>1. SessionTypes
    BY DEF SessionInv
  <2>2. issued.owner \in Seq(Accounts) /\ Session!Issued = Token
    BY <2>1 DEF SessionTypes, Session!Issued, Token
  <2>3. Session!TypeOK
    <3>1. issued.owner \in Seq(Accounts) /\ issued.live \cup revoking \subseteq Session!Issued
      BY <2>1, <2>2 DEF SessionTypes
    <3>2. store.token \in Session!Issued \cup {None} /\ store.pending \in Session!Issued \cup {None}
      BY <2>1, <2>2 DEF SessionTypes
    <3>3. ASSUME NEW t \in Tabs
          PROVE  page[t].shown \in Accounts \cup {None} /\ read[t] \in Session!Issued \cup {None}
      BY <2>1, <2>2 DEF SessionTypes
    <3> QED BY <3>1, <3>2, <3>3 DEF Session!TypeOK
  <2>4. Session!OnlyItsAccount
    BY DEF SessionInv, Agrees, Session!OnlyItsAccount
  <2> QED BY <2>3, <2>4 DEF TabsAgree, Session!TabsAgree
<1> QED BY <1>1, SessionAlways, PTL

\* A session leaves the browser only when the server has ended it or its
\* revocation is queued: only a sign-out, which queues it, and the refusal of
\* the stored token itself take it away.
THEOREM SessionIsKept == Session!Spec => KeptUntilEnded
<1>1. ASSUME SessionInv, [Session!Next]_(Session!vars), store.token # None, store'.token = None
      PROVE  store.token \notin issued'.live \/ store'.pending = store.token
  <2>0. SessionTypes
    BY <1>1 DEF SessionInv
  <2>1. store \in [token : Token \cup {None}, flow : Tabs \cup {None}, pending : Token \cup {None}]
    BY <2>0, SessionFacts
  <2>2. ASSUME NEW t \in Tabs, Session!EndLocal(t) PROVE store'.pending = store.token
    BY <1>1, <2>1, <2>2 DEF Session!EndLocal, Session!Forget, Session!QueueAfter
  <2>3. ASSUME NEW t \in Tabs, Session!ReadRefused(t) PROVE store.token \notin issued'.live
    BY <1>1, <2>3 DEF Session!ReadRefused
  <2>4. ASSUME NEW n \in Nat, store' = [store EXCEPT !.token = n] PROVE FALSE
    BY <1>1, <2>1, <2>4
  <2>5. ASSUME NEW t \in Tabs, NEW a \in Accounts, Session!SignIn(t, a) PROVE FALSE
    <3>1. Session!NewToken \in Nat
      BY <2>0, <2>5, IssueKeepsOwners DEF Session!SignIn
    <3> QED BY <2>4, <2>5, <3>1 DEF Session!SignIn
  <2>6. ASSUME NEW t \in Tabs, NEW a \in Accounts, NEW own \in BOOLEAN, Session!Redirected(t, a, own)
        PROVE  FALSE
    <3>1. CASE store' = [store EXCEPT !.flow = None]
      BY <1>1, <2>1, <3>1
    <3>2. CASE Session!Issue(a) /\ Session!Hold(t, Session!NewToken)
      <4>1. PICK k : k = Session!NewToken
        OBVIOUS
      <4>2. k \in Nat /\ store' = [store EXCEPT !.token = k, !.flow = IF @ = t THEN None ELSE @]
        BY <2>0, <3>2, <4>1, IssueKeepsOwners DEF Session!Hold
      <4> QED BY <1>1, <2>1, <4>2
    <3> QED BY <2>6, <3>1, <3>2 DEF Session!Redirected
  <2>7. ASSUME NEW k, Session!Revoke(k) PROVE FALSE
    <3>1. store' = store \/ store' = [store EXCEPT !.pending = None]
      BY <2>7 DEF Session!Revoke, Session!Revoked
    <3> QED BY <1>1, <2>1, <3>1
  <2>8. ASSUME NEW t \in Tabs, Session!StartOAuth(t) PROVE FALSE
    <3>1. store' = [store EXCEPT !.flow = t]
      BY <2>8 DEF Session!StartOAuth
    <3> QED BY <1>1, <2>1, <3>1
  <2>9. store' # store
    BY <1>1
  <2>10. ASSUME NEW t \in Tabs,
                \/ Session!StartOAuth(t) \/ Session!StartRead(t) \/ Session!ReadConfirmed(t)
                \/ Session!ReadRefused(t) \/ Session!ReadFailed(t) \/ Session!SignOut(t)
                \/ Session!StorageEvent(t) \/ Session!Reload(t)
         PROVE  store.token \notin issued'.live \/ store'.pending = store.token
    BY <2>2, <2>3, <2>8, <2>9, <2>10
       DEF Session!StartRead, Session!ReadConfirmed, Session!ReadFailed, Session!SignOut,
           Session!StorageEvent, Session!Reload
  <2>11. ASSUME NEW t \in Tabs, NEW a \in Accounts,
                \/ Session!SignIn(t, a) \/ Session!ResetPassword(t, a)
                \/ \E own \in BOOLEAN : Session!Redirected(t, a, own)
         PROVE  store'.pending = store.token
    BY <2>2, <2>5, <2>6, <2>11 DEF Session!ResetPassword
  <2>12. ASSUME NEW k, Session!Revoke(k) \/ Session!ServerEnds(k) PROVE FALSE
    BY <2>7, <2>9, <2>12 DEF Session!ServerEnds
  <2>13. CASE UNCHANGED Session!vars
    BY <2>9, <2>13 DEF Session!vars
  <2> QED BY <1>1, <2>10, <2>11, <2>12, <2>13 DEF Session!Next
<1>2. SessionInv /\ [Session!Next]_(Session!vars) =>
        [(store.token # None /\ store'.token = None) =>
           (store.token \notin issued'.live \/ store'.pending = store.token)]_(Session!vars)
  BY <1>1
<1> QED BY <1>2, SessionAlways, PTL DEF KeptUntilEnded, Session!KeptUntilEnded, Session!Spec
=============================================================================
