---------------------------- MODULE PhoneAccount ----------------------------
(***************************************************************************)
(* The account in one page of the phone app (mobile-pwa/src/lib/store.ts): *)
(* who is signed in, the account's list of Macs and the chosen Mac.  The   *)
(* session synchronizations, the list refresh, the removal of a Mac and    *)
(* the opening of one all wait between their steps, and each may find that *)
(* another moved on.  The account service and the auth client are external.*)
(* A write to IndexedDB takes its place in order when it is issued.        *)
(***************************************************************************)
EXTENDS Naturals, Sequences

CONSTANTS
  Accounts, Macs,
  Owner,      \* the account each Mac is linked to at first
  None,
  MaxSyncs,   \* bound: session synchronizations
  MaxFaults,  \* bound: requests that fail, answers lost, copies not cleared
  MaxChanges  \* bound: refreshes, removals, and Macs opened or linked again

ASSUME AccountAssumption == None \notin Accounts \cup Macs /\ MaxSyncs \in Nat

VARIABLES
  ui,        \* user, hosts, status, trusted, paired, route, signingOut
  saved,     \* IndexedDB: the chosen Mac
  session,   \* the auth client's session
  event,     \* sessions announced to this page and not handled yet
  version,   \* sessionSyncVersion
  reg,       \* browserRegistration: version, running, succeeded
  syncs,     \* runSessionSync calls under way
  refresh,   \* refreshHostsInFlight
  removal,   \* removeHost under way
  opening,   \* chooseHost under way: the Mac, or None
  edits,     \* hostListEdits: Macs removed by this page
  server,    \* account service: Macs of each account, accounts that know this browser
  faults, changes,
  gone,      \* history: Macs this page removed and nobody linked again
  late,      \* history: Macs removed while a list was being saved
  overtaken  \* history: a Mac was opened after its account had left the page

vars == <<ui, saved, session, event, version, reg, syncs, refresh, removal, opening, edits, server,
          faults, changes, gone, late, overtaken>>

NoRefresh == [pc |-> "idle", background |-> FALSE, v |-> 0, account |-> None, mark |-> 0,
              list |-> {}, trusted |-> FALSE, chosen |-> None]
NoRemoval == [pc |-> "idle", mac |-> None, account |-> None]
SignedOutUi == [user |-> None, hosts |-> {}, status |-> "idle", trusted |-> TRUE, paired |-> None,
                route |-> "auth", signingOut |-> FALSE]

Init ==
  /\ ui = [SignedOutUi EXCEPT !.route = "loading"] /\ saved \in Macs \cup {None}
  /\ session \in {None} \cup Accounts /\ event = <<session>>
  /\ version = 0 /\ reg = [version |-> 0, running |-> FALSE, succeeded |-> FALSE] /\ syncs = {}
  /\ refresh = NoRefresh /\ removal = NoRemoval /\ opening = None /\ edits = <<>>
  /\ server = [macs |-> [a \in Accounts |-> {m \in Macs : Owner[m] = a}], known |-> {}]
  /\ saved # None => session = Owner[saved]
  /\ faults = 0 /\ changes = 0 /\ gone = {} /\ late = {} /\ overtaken = FALSE

-----------------------------------------------------------------------------
(* Helpers. *)

Fault == faults < MaxFaults /\ faults' = faults + 1
Change == changes < MaxChanges /\ changes' = changes + 1

\* withHostListEditsSince: a list without what this page removed since it was asked for.
Unedited(list, mark) == list
Edited(list, mark) == list \ {edits[i] : i \in mark + 1 .. Len(edits)}

Selected(hosts, mac) == IF mac \in hosts THEN mac ELSE None
AfterFailure == IF ui.status = "loaded" THEN "loaded" ELSE "error"

\* The end of a sync: a list still loading shows a failure.
SettledNever(u, v) == u
Settled(u, v) == IF v = version /\ u.status = "loading" THEN [u EXCEPT !.status = "error"] ELSE u
IsCurrentAlways(v) == TRUE
IsCurrent(v) == v = version

Finish(s, u) ==
  /\ ui' = Settled(u, s.v)
  /\ syncs' = syncs \ {s}
Goto(s, next) == syncs' = (syncs \ {s}) \cup {next}
NotRunning(r, v) == IF r.version = v THEN [r EXCEPT !.running = FALSE] ELSE r

-----------------------------------------------------------------------------
(* synchronizeSession and runSessionSync. *)

\* The synchronous part of a sync of session a over the page u.  keep: a
\* refresh, which moves nobody and leaves a failed list on screen.
NewSync(a, keep, u, v) ==
  LET leaves == a = None \/ u.user \notin {None, a}
  IN  [v |-> v, account |-> a, keep |-> keep, leaves |-> leaves,
       pc |-> IF leaves THEN "clear" ELSE "stored", stored |-> IF leaves THEN None ELSE saved,
       seen |-> IF leaves /\ a # None THEN "hosts" ELSE IF leaves THEN "auth" ELSE u.route,
       then |-> "", mark |-> 0, list |-> {}]
Left(a, u) ==
  IF a = None \/ u.user \notin {None, a}
  THEN [u EXCEPT !.user = None, !.hosts = {}, !.paired = None,
                 !.status = IF a = None THEN "idle" ELSE "loading",
                 !.route = IF a = None THEN "auth" ELSE "hosts"]
  ELSE u

Begin(a, keep, u, v) ==
  /\ v <= MaxSyncs /\ version' = v
  /\ reg' = [version |-> v, running |-> TRUE, succeeded |-> FALSE]
  /\ syncs' = syncs \cup {NewSync(a, keep, u, v)}
  /\ ui' = Left(a, u)

\* A session was announced.  One that arrives while a sign-out runs is ignored.
Announced ==
  /\ event # <<>> /\ event' = Tail(event)
  /\ IF ui.signingOut /\ Head(event) # None
     THEN UNCHANGED <<ui, version, reg, syncs>>
     ELSE Begin(Head(event), FALSE, ui, version + 1)
  /\ UNCHANGED <<saved, session, refresh, removal, opening, edits, server, faults, changes, gone, late, overtaken>>

\* The copies of the account that left are cleared, or that fails.
SyncClears(s) ==
  /\ s.pc = "clear"
  /\ \/ /\ IsCurrent(s.v) /\ Goto(s, [s EXCEPT !.pc = "stored"])
        /\ saved' = None /\ UNCHANGED <<ui, reg, faults>>
     \/ /\ ~IsCurrent(s.v) /\ Finish(s, ui) /\ reg' = NotRunning(reg, s.v) /\ UNCHANGED <<saved, faults>>
     \/ /\ Fault /\ IsCurrent(s.v) /\ Finish(s, [ui EXCEPT !.route = "auth", !.status = "idle"])
        /\ reg' = NotRunning(reg, s.v) /\ UNCHANGED saved
  /\ UNCHANGED <<session, event, version, refresh, removal, opening, edits, server, changes, gone, late, overtaken>>

\* IndexedDB answered; the route is the one seen before it was asked.
FirstRoute(s) ==
  IF s.keep /\ s.seen \notin {"loading", "auth"} THEN s.seen
  ELSE IF s.seen = "workspace" THEN "workspace" ELSE "hosts"

SyncStored(s) ==
  /\ s.pc = "stored"
  /\ IF ~IsCurrent(s.v)
     THEN Finish(s, ui) /\ reg' = NotRunning(reg, s.v)
     ELSE IF s.account = None
     THEN /\ Finish(s, [ui EXCEPT !.user = None, !.hosts = {}, !.status = "idle", !.paired = None, !.route = "auth"])
          /\ reg' = NotRunning(reg, s.v)
     ELSE /\ Goto(s, [s EXCEPT !.pc = "register", !.then = FirstRoute(s), !.mark = Len(edits)])
          /\ ui' = [ui EXCEPT !.user = s.account, !.route = FirstRoute(s),
                              !.status = IF @ = "loaded" \/ (s.keep /\ @ = "error") THEN @ ELSE "loading"]
          /\ UNCHANGED reg
  /\ UNCHANGED <<saved, session, event, version, refresh, removal, opening, edits, server, faults, changes,
                 gone, late, overtaken>>

\* The service registers this browser and reads the list.  A refused token is
\* refreshed to the session the browser holds now, which may be another's.
SyncRegisters(s) ==
  /\ s.pc = "register"
  /\ \E a \in {s.account, session} \ {None} :
       /\ server' = [server EXCEPT !.known = @ \cup {a}]
       /\ Goto(s, [s EXCEPT !.pc = "answer", !.account = a, !.list = server.macs[a]])
  /\ UNCHANGED <<ui, saved, session, event, version, reg, refresh, removal, opening, edits, faults, changes,
                 gone, late, overtaken>>

\* Everything but the list stays when the person moved on meanwhile.
ListOnly(s, hosts) == [ui EXCEPT !.user = s.account, !.hosts = hosts, !.status = "loaded", !.trusted = TRUE]

SyncAnswered(s) ==
  /\ s.pc = "answer"
  /\ LET hosts == Edited(s.list, s.mark)
         chosen == Selected(hosts, IF ui.paired = None THEN s.stored ELSE ui.paired)
         done == IF reg.version = s.v THEN [reg EXCEPT !.succeeded = TRUE] ELSE reg
     IN  IF ~IsCurrent(s.v) THEN Finish(s, ui) /\ reg' = NotRunning(done, s.v) /\ UNCHANGED saved
         ELSE IF ui.route # s.then
         THEN Finish(s, ListOnly(s, hosts)) /\ reg' = NotRunning(done, s.v) /\ UNCHANGED saved
         ELSE /\ Goto(s, [s EXCEPT !.pc = "save", !.list = hosts]) /\ reg' = done
              /\ saved' = chosen /\ UNCHANGED ui
  /\ UNCHANGED <<session, event, version, refresh, removal, opening, edits, server, faults, changes, gone, late, overtaken>>

SyncFails(s) ==
  /\ s.pc \in {"register", "answer"} /\ Fault
  /\ Finish(s, IF ~IsCurrent(s.v) THEN ui
               ELSE [ui EXCEPT !.user = s.account, !.status = AfterFailure,
                               !.paired = IF @ = None THEN s.stored ELSE @])
  /\ reg' = NotRunning(reg, s.v)
  /\ UNCHANGED <<saved, session, event, version, refresh, removal, opening, edits, server, changes, gone, late, overtaken>>

\* IndexedDB fails: the sync ends there.
SyncThrows(s) ==
  /\ s.pc = "stored" /\ Fault /\ Finish(s, ui)
  /\ reg' = NotRunning(reg, s.v)
  /\ UNCHANGED <<saved, session, event, version, refresh, removal, opening, edits, server, changes, gone, late, overtaken>>

SyncSaved(s) ==
  /\ s.pc = "save"
  /\ LET chosen == Selected(s.list, IF ui.paired = None THEN s.stored ELSE ui.paired)
     IN  Finish(s, IF ~IsCurrent(s.v) THEN ui
                   ELSE IF ui.route # s.then THEN ListOnly(s, s.list)
                   ELSE [ListOnly(s, s.list) EXCEPT
                          !.paired = chosen,
                          !.route = IF s.keep /\ s.seen \notin {"loading", "auth"} THEN s.then
                                    ELSE IF s.stored # None /\ s.stored = chosen THEN "workspace" ELSE "hosts"])
  /\ reg' = NotRunning(reg, s.v)
  /\ UNCHANGED <<saved, session, event, version, refresh, removal, opening, edits, server, faults, changes,
                 gone, late, overtaken>>

-----------------------------------------------------------------------------
(* Signing in and out. *)

\* A sign-in in this page or another tab.
SignsIn(a) ==
  /\ session # a /\ event = <<>>
  /\ session' = a /\ event' = <<a>>
  /\ UNCHANGED <<ui, saved, version, reg, syncs, refresh, removal, opening, edits, server, faults, changes,
                 gone, late, overtaken>>

\* Another tab signs out.
SignsOutElsewhere ==
  /\ session # None /\ event = <<>>
  /\ session' = None /\ event' = <<None>>
  /\ UNCHANGED <<ui, saved, version, reg, syncs, refresh, removal, opening, edits, server, faults, changes,
                 gone, late, overtaken>>

\* This page's sign-out: the page is emptied first, and the auth client says so
\* before its request leaves, which begins a sync of no session.
\* (Its two steps of the version, with nothing between them, are one here.)
SignOut ==
  /\ ui.user # None /\ ~ui.signingOut
  /\ saved' = None /\ session' = None
  /\ Begin(None, FALSE, [SignedOutUi EXCEPT !.signingOut = TRUE], version + 1)
  /\ UNCHANGED <<event, refresh, removal, opening, edits, server, faults, changes, gone, late, overtaken>>

\* A Mac took this browser's access: the relay's close or the registration's answer.
SignedOutByMac(s) ==
  /\ s.pc = "answer" /\ IsCurrent(s.v) /\ Fault
  /\ ~ui.signingOut /\ saved' = None /\ session' = None
  /\ version < MaxSyncs /\ version' = version + 1
  /\ reg' = [version |-> version + 1, running |-> TRUE, succeeded |-> FALSE]
  /\ LET u == [SignedOutUi EXCEPT !.signingOut = TRUE]
     IN  /\ syncs' = (syncs \ {s}) \cup {NewSync(None, FALSE, u, version + 1)}
         /\ ui' = u
  /\ UNCHANGED <<event, refresh, removal, opening, edits, server, changes, gone, late, overtaken>>

SignOutEnds ==
  /\ ui.signingOut /\ ui' = [ui EXCEPT !.signingOut = FALSE]
  /\ UNCHANGED <<saved, session, event, version, reg, syncs, refresh, removal, opening, edits, server, faults,
                 changes, gone, late, overtaken>>

-----------------------------------------------------------------------------
(* refreshHosts. *)

Running == reg.version = version /\ reg.running
Succeeded == reg.version = version /\ reg.succeeded

RefreshHosts(user) ==
  /\ refresh.pc = "idle" /\ ui.user # None /\ Change
  /\ refresh' = [NoRefresh EXCEPT !.pc = IF Running THEN "wait" ELSE "session", !.background = ~user]
  /\ ui' = IF user /\ ui.status = "error" THEN [ui EXCEPT !.status = "loading"] ELSE ui
  /\ UNCHANGED <<saved, session, event, version, reg, syncs, removal, opening, edits, server, faults, gone, late, overtaken>>

\* The sync it waited for brought the list, or said why not.
RefreshWaited ==
  /\ refresh.pc = "wait" /\ ~Running /\ refresh' = NoRefresh
  /\ UNCHANGED <<ui, saved, session, event, version, reg, syncs, removal, opening, edits, server, faults, changes,
                 gone, late, overtaken>>

\* The session is read: nobody signed in, or a registration that failed, begins
\* a sync; else the list is asked for.
Resync ==
  /\ refresh' = [refresh EXCEPT !.pc = "wait"]
  /\ IF ui.signingOut /\ session # None THEN UNCHANGED <<ui, version, reg, syncs>>
     ELSE Begin(session, refresh.background, ui, version + 1)
RefreshReads ==
  /\ refresh.pc = "session"
  /\ IF session # None /\ Running
     THEN refresh' = [refresh EXCEPT !.pc = "wait"] /\ UNCHANGED <<ui, version, reg, syncs>>
     ELSE IF session = None \/ ~Succeeded THEN Resync
     ELSE /\ refresh' = [refresh EXCEPT !.pc = "fetch", !.v = version, !.account = session,
                                         !.mark = Len(edits)]
          /\ UNCHANGED <<ui, version, reg, syncs>>
  /\ UNCHANGED <<saved, session, event, removal, opening, edits, server, faults, changes, gone, late, overtaken>>

RefreshFetches ==
  /\ refresh.pc = "fetch"
  /\ \E a \in {refresh.account, session} \ {None} :
       refresh' = [refresh EXCEPT !.pc = "answer", !.account = a, !.list = server.macs[a],
                                  !.trusted = a \in server.known]
  /\ UNCHANGED <<ui, saved, session, event, version, reg, syncs, removal, opening, edits, server, faults, changes,
                 gone, late, overtaken>>

\* Only a list read after this session's registration applies.
IsCurrentList == IsCurrent(refresh.v) /\ reg.version = refresh.v

RefreshAnswered ==
  /\ refresh.pc = "answer"
  /\ IF ~IsCurrentList THEN refresh' = NoRefresh /\ UNCHANGED saved
     ELSE LET hosts == Edited(refresh.list, refresh.mark)
              chosen == IF refresh.trusted THEN Selected(hosts, ui.paired) ELSE None
          IN  /\ refresh' = [refresh EXCEPT !.pc = "save", !.list = hosts, !.chosen = chosen]
              /\ saved' = IF chosen = None /\ ui.paired = None THEN saved ELSE chosen
  /\ UNCHANGED <<ui, session, event, version, reg, syncs, removal, opening, edits, server, faults, changes,
                 gone, late, overtaken>>

RefreshFails ==
  /\ refresh.pc \in {"fetch", "answer"} /\ Fault /\ refresh' = NoRefresh
  /\ ui' = IF IsCurrentList THEN [ui EXCEPT !.status = AfterFailure] ELSE ui
  /\ UNCHANGED <<saved, session, event, version, reg, syncs, removal, opening, edits, server, changes, gone, late, overtaken>>

RefreshSaved ==
  /\ refresh.pc = "save" /\ refresh' = NoRefresh
  /\ ui' = IF ~IsCurrentList THEN ui
           ELSE [ui EXCEPT !.user = IF @ = None THEN refresh.account ELSE @, !.hosts = refresh.list,
                           !.status = "loaded", !.trusted = refresh.trusted, !.paired = refresh.chosen]
  /\ UNCHANGED <<saved, session, event, version, reg, syncs, removal, opening, edits, server, faults, changes,
                 gone, late, overtaken>>

-----------------------------------------------------------------------------
(* removeHost and chooseHost. *)

\* The list and the choice without a Mac that left the account.
Without(m, workspaceLeft) ==
  [ui EXCEPT !.hosts = @ \ {m}, !.paired = IF @ = m THEN None ELSE @,
             !.route = IF ui.paired = m /\ workspaceLeft THEN "hosts" ELSE @]

RemoveHost(m) ==
  /\ removal.pc = "idle" /\ m \in ui.hosts /\ Change
  /\ removal' = [pc |-> "sent", mac |-> m, account |-> ui.user]
  /\ UNCHANGED <<ui, saved, session, event, version, reg, syncs, refresh, opening, edits, server, faults, gone, late, overtaken>>

\* The service removes it from the account the browser is signed in to, and
\* its answer may be lost.
RemovedAtServer ==
  /\ removal.pc = "sent"
  /\ IF session # None /\ removal.mac \in server.macs[session]
     THEN /\ server' = [server EXCEPT !.macs[session] = @ \ {removal.mac}]
          /\ \/ removal' = [removal EXCEPT !.pc = "removed"] /\ UNCHANGED faults
             \/ removal' = [removal EXCEPT !.pc = "recheck"] /\ Fault
     ELSE removal' = NoRemoval /\ UNCHANGED <<server, faults>>
  /\ UNCHANGED <<ui, saved, session, event, version, reg, syncs, refresh, opening, edits, changes, gone, late, overtaken>>

RequestLost ==
  /\ removal.pc = "sent" /\ Fault /\ removal' = [removal EXCEPT !.pc = "recheck"]
  /\ UNCHANGED <<ui, saved, session, event, version, reg, syncs, refresh, opening, edits, server, changes, gone, late, overtaken>>

\* hostLeftAccountList: no answer came, so the account's list says whether it happened.
Rechecked ==
  /\ removal.pc = "recheck"
  /\ removal' = IF session = removal.account /\ ui.user = session /\ removal.mac \notin server.macs[session]
                THEN [removal EXCEPT !.pc = "removed"] ELSE NoRemoval
  /\ UNCHANGED <<ui, saved, session, event, version, reg, syncs, refresh, opening, edits, server, faults, changes,
                 gone, late, overtaken>>

\* This page's list loses it, and what it saved of it, unless another account
\* has taken the page.
Forgets(m, left) ==
  /\ edits' = Append(edits, m) /\ gone' = (IF \E a \in Accounts : m \in server.macs[a] THEN gone ELSE gone \cup {m})
  /\ late' = IF refresh.pc = "save" \/ (\E s \in syncs : s.pc = "save") THEN late \cup {m} ELSE late
  /\ ui' = Without(m, left)
  /\ saved' = IF ui.paired = m THEN None ELSE saved
RemovedHere ==
  /\ removal.pc = "removed" /\ removal' = NoRemoval
  /\ IF ui.user = removal.account THEN Forgets(removal.mac, ui.route = "workspace")
     ELSE UNCHANGED <<ui, saved, edits, gone, late>>
  /\ UNCHANGED <<session, event, version, reg, syncs, refresh, opening, server, faults, changes, overtaken>>

\* Another browser, or the Mac's Sign Out, removes it; the relay closes this
\* page's socket and says so.
RemovedElsewhere(a, m) ==
  /\ m \in server.macs[a] /\ Change
  /\ server' = [server EXCEPT !.macs[a] = @ \ {m}]
  /\ UNCHANGED <<ui, saved, session, event, version, reg, syncs, refresh, removal, opening, edits, faults, gone, late, overtaken>>
RelayClosed ==
  /\ ui.paired # None /\ ui.route = "workspace" /\ \A a \in Accounts : ui.paired \notin server.macs[a]
  /\ Forgets(ui.paired, TRUE)
  /\ UNCHANGED <<session, event, version, reg, syncs, refresh, removal, opening, server, faults, changes, overtaken>>

LinkedAgain(a, m) ==
  /\ (\A b \in Accounts : m \notin server.macs[b])
  /\ server' = [server EXCEPT !.macs[a] = @ \cup {m}] /\ gone' = gone \ {m}
  /\ UNCHANGED <<ui, saved, session, event, version, reg, syncs, refresh, removal, opening, edits, faults, changes, late, overtaken>>

ChooseHost(m) ==
  /\ m \in ui.hosts /\ opening = None /\ Change
  /\ opening' = [mac |-> m, account |-> ui.user] /\ saved' = m
  /\ UNCHANGED <<ui, session, event, version, reg, syncs, refresh, removal, edits, server, faults, gone, late, overtaken>>

\* Saved, and its offline copies read: the Mac opens, whoever the page belongs to now.
HostOpened ==
  /\ opening # None /\ opening' = None
  /\ ui' = [ui EXCEPT !.paired = opening.mac, !.route = "workspace"]
  /\ overtaken' = (overtaken \/ ui.user # opening.account \/ opening.mac \notin ui.hosts)
  /\ UNCHANGED <<saved, session, event, version, reg, syncs, refresh, removal, edits, server, faults, changes, gone, late>>

\* The person leaves the workspace for the list.
ShowHosts ==
  /\ ui.route = "workspace" /\ ui' = [ui EXCEPT !.route = "hosts"]
  /\ UNCHANGED <<saved, session, event, version, reg, syncs, refresh, removal, opening, edits, server, faults,
                 changes, gone, late, overtaken>>

-----------------------------------------------------------------------------

SyncStep(s) ==
  \/ SyncClears(s) \/ SyncStored(s) \/ SyncRegisters(s) \/ SyncAnswered(s) \/ SyncFails(s) \/ SyncThrows(s)
  \/ SyncSaved(s)
SyncMoves == \E s \in syncs : SyncStep(s)

Next ==
  \/ SyncMoves \/ Announced \/ SignOut \/ SignOutEnds \/ SignsOutElsewhere
  \/ \E s \in syncs : SignedOutByMac(s)
  \/ \E user \in BOOLEAN : RefreshHosts(user)
  \/ RefreshWaited \/ RefreshReads \/ RefreshFetches \/ RefreshAnswered \/ RefreshFails \/ RefreshSaved
  \/ RemovedAtServer \/ RequestLost \/ Rechecked \/ RemovedHere \/ RelayClosed
  \/ HostOpened \/ ShowHosts
  \/ \E m \in Macs : RemoveHost(m) \/ ChooseHost(m)
  \/ \E a \in Accounts : SignsIn(a) \/ (\E m \in Macs : RemovedElsewhere(a, m) \/ LinkedAgain(a, m))

\* What the page waits for comes or fails: every request has a time limit.
RefreshMoves ==
  RefreshWaited \/ RefreshReads \/ RefreshFetches \/ RefreshAnswered \/ RefreshSaved

Spec ==
  /\ Init /\ [][Next]_vars
  /\ WF_vars(SyncMoves)
  /\ WF_vars(RefreshMoves)

-----------------------------------------------------------------------------
(* Properties. *)

TypeOK ==
  /\ ui.user \in Accounts \cup {None} /\ ui.hosts \subseteq Macs /\ ui.paired \in Macs \cup {None}
  /\ ui.status \in {"idle", "loading", "loaded", "error"} /\ ui.route \in {"loading", "auth", "hosts", "workspace"}
  /\ saved \in Macs \cup {None} /\ version \in 0 .. MaxSyncs /\ reg.version \in 0 .. version
  /\ \A s, t \in syncs : s.v = t.v => s = t
  /\ ui.user # None => ui.route \notin {"loading", "auth"}

\* While a sign-out runs the page shows no account, and no account's Macs
\* without one.
SignOutWins ==
  /\ ui.signingOut => ui.user = None
  /\ ui.user = None => ui.hosts = {} /\ (ui.paired = None \/ overtaken)

\* A Mac this page removed stays out of its list, whatever list, read before
\* the removal, arrives after it.
RemovedStaysRemoved == gone \cap ui.hosts = {}

\* The same, but for a removal made while a list is being saved: its edits were
\* applied before.
OldListsAreEdited == (gone \ late) \cap ui.hosts = {}

\* A loaded list was read by a browser its account knew: it says which Macs
\* trust it.  (A refresh whose token was refused shows the list of whoever is
\* signed in by then, until this page hears of that sign-in.)
ReadWhenRegistered == ui.status = "loaded" /\ event = <<>> => ui.trusted

\* The list stops loading, whatever fails or is overtaken (up to the bound on syncs).
LoadingEnds == ui.status = "loading" ~> (ui.status # "loading" \/ version = MaxSyncs)

\* The list on the page is the account's: not older than this page's own
\* removals, nor read before the account knew the browser.
ListIsOwn == TypeOK /\ OldListsAreEdited /\ ReadWhenRegistered
=============================================================================
