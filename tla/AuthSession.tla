---------------------------- MODULE AuthSession ----------------------------
(***************************************************************************)
(* The session of a browser's tabs (mobile-pwa/src/lib/authClient.ts): the *)
(* bearer token, its snapshot, the provider sign-in in progress and the    *)
(* token still to be revoked, all in storage the tabs share; the one read  *)
(* of the session a tab runs at a time; what each tab last announced to    *)
(* its store; and the sessions the auth server holds (external).           *)
(***************************************************************************)
EXTENDS Naturals, Sequences

CONSTANTS
  Tabs, Accounts,
  None,
  MaxTokens,    \* bound: sessions the server issues
  MaxFailures   \* bound: lost requests and answers, reloads, links from elsewhere,
                \* password resets, and sessions the server ends

VARIABLES
  server,   \* owner of each issued token, and the live ones
  store,    \* localStorage: the token (and its snapshot), the flow's nonce, pendingRevocation
  tab,      \* each tab: away at a provider, and the account it announced
  read,     \* each tab's session read: the token it went out with, or None
  events,   \* storage events each tab has not seen, as the new token
  revoking, \* tokens a revocation request is out for
  faults,
  stranded  \* history: tokens whose queued revocation another sign-out replaced

vars == <<server, store, tab, read, events, revoking, faults, stranded>>

Tokens == 1 .. MaxTokens
Issued == DOMAIN server.owner
OwnerOf(k) == IF k = None THEN None ELSE server.owner[k]

Init ==
  /\ server = [owner |-> <<>>, live |-> {}]
  /\ store = [token |-> None, flow |-> None, pending |-> None]
  /\ tab = [t \in Tabs |-> [away |-> FALSE, shown |-> None]]
  /\ read = [t \in Tabs |-> None] /\ events = [t \in Tabs |-> <<>>]
  /\ revoking = {} /\ faults = 0 /\ stranded = {}

-----------------------------------------------------------------------------
(* Helpers. *)

Fault == faults < MaxFailures /\ faults' = faults + 1

Announce(t, a) == tab' = [tab EXCEPT ![t].shown = a]

\* Tab t stores or removes the token: the other tabs are told when it changed.
Tell(t, tokens) ==
  events' = [u \in Tabs |-> IF u = t \/ tab[u].away THEN events[u] ELSE events[u] \o tokens]
Removal == IF store.token = None THEN <<>> ELSE <<None>>

\* A new session replaces what the browser held: clearStoredSession, then the token.
Hold(t, k) ==
  /\ store' = [store EXCEPT !.token = k, !.flow = IF @ = t THEN None ELSE @]
  /\ Tell(t, Removal \o <<k>>)
Forget(t, s) == store' = [s EXCEPT !.token = None] /\ Tell(t, Removal)

NewToken == Len(server.owner) + 1
Issue(a) ==
  /\ NewToken \in Tokens
  /\ server' = [owner |-> Append(server.owner, a), live |-> server.live \cup {NewToken}]

\* Every read of the session first retries a queued revocation.
Retry == revoking' = revoking \cup ({store.pending} \ {None})

-----------------------------------------------------------------------------
(* Signing in. *)

\* Email and password, or sign-up.
SignIn(t, a) ==
  /\ ~tab[t].away /\ Issue(a)
  /\ store' = [store EXCEPT !.token = NewToken] /\ Tell(t, Removal \o <<NewToken>>)
  /\ Announce(t, a)
  /\ UNCHANGED <<read, revoking, faults, stranded>>

\* Google or GitHub: the nonce (the tab's own) is stored and the page leaves.
\* A later start, in any tab, replaces the nonce.
StartOAuth(t) ==
  /\ ~tab[t].away
  /\ store' = [store EXCEPT !.flow = t]
  /\ tab' = [tab EXCEPT ![t] = [away |-> TRUE, shown |-> None]]
  /\ read' = [read EXCEPT ![t] = None] /\ events' = [events EXCEPT ![t] = <<>>]
  /\ UNCHANGED <<server, revoking, faults, stranded>>

\* The page loads with a one-time token for account a in its address: the
\* provider's return, or a link from elsewhere that carries somebody else's
\* token.  Whatever came with it, the stored nonce is taken; only the return
\* that names it is exchanged, and the exchange may fail.
Exchanged(t, own) == own /\ store.flow = t
Redirected(t, a, own) ==
  /\ own = tab[t].away
  /\ IF own THEN UNCHANGED faults ELSE Fault
  /\ tab' = [tab EXCEPT ![t] = [away |-> FALSE, shown |-> None]]
  /\ Retry
  /\ \/ Exchanged(t, own) /\ Issue(a) /\ Hold(t, NewToken) /\ read' = [read EXCEPT ![t] = NewToken]
     \/ /\ store' = [store EXCEPT !.flow = None] /\ read' = [read EXCEPT ![t] = store.token]
        /\ events' = [events EXCEPT ![t] = <<>>] /\ UNCHANGED server
  /\ UNCHANGED stranded

-----------------------------------------------------------------------------
(* Reading the session: readSessionFromServer, shared by concurrent callers. *)

StartRead(t) ==
  /\ read[t] = None /\ ~tab[t].away
  /\ read' = [read EXCEPT ![t] = store.token] /\ Retry
  /\ tab' = [tab EXCEPT ![t].shown = IF store.token = None THEN None ELSE @]
  /\ UNCHANGED <<server, store, events, faults, stranded>>

ReadConfirmedAnyway(t) ==
  /\ read[t] # None /\ read[t] \in server.live
  /\ read' = [read EXCEPT ![t] = None]
  /\ Announce(t, OwnerOf(read[t]))
  /\ UNCHANGED <<server, store, events, revoking, faults, stranded>>

\* Confirmed: announced, unless the token in storage changed meanwhile, when
\* what its snapshot says goes instead.
ReadConfirmed(t) ==
  /\ read[t] # None /\ read[t] \in server.live
  /\ read' = [read EXCEPT ![t] = None]
  /\ Announce(t, OwnerOf(store.token))
  /\ UNCHANGED <<server, store, events, revoking, faults, stranded>>

\* Refused (401): the session goes only when it is still the stored one, but
\* the tab is told there is none in either case.
ReadRefusedForgets(t) ==
  /\ read[t] # None /\ read[t] \notin server.live
  /\ read' = [read EXCEPT ![t] = None] /\ Announce(t, None) /\ Forget(t, store)
  /\ UNCHANGED <<server, revoking, faults, stranded>>

ReadRefused(t) ==
  /\ read[t] # None /\ read[t] \notin server.live
  /\ read' = [read EXCEPT ![t] = None] /\ Announce(t, None)
  /\ IF store.token = read[t] THEN Forget(t, store) ELSE UNCHANGED <<store, events>>
  /\ UNCHANGED <<server, revoking, faults, stranded>>

\* Unreachable: the last confirmed session of the stored token.
ReadFailed(t) ==
  /\ read[t] # None /\ Fault
  /\ read' = [read EXCEPT ![t] = None] /\ Announce(t, OwnerOf(store.token))
  /\ UNCHANGED <<server, store, events, revoking, stranded>>

-----------------------------------------------------------------------------
(* Signing out, and what other tabs hear. *)

\* endLocalSession: the token leaves and is queued; its revocation goes out.
QueueAfter(k) == [store EXCEPT !.pending = IF k = None THEN @ ELSE k]
EndLocal(t) ==
  /\ Forget(t, QueueAfter(store.token))
  /\ stranded' = stranded \cup (IF store.token = None THEN {} ELSE {store.pending} \ {None, store.token})
  /\ revoking' = revoking \cup ({store.token} \ {None})
  /\ Announce(t, None)

SignOut(t) ==
  /\ store.token # None /\ ~tab[t].away
  /\ EndLocal(t)
  /\ UNCHANGED <<server, read, faults>>

\* A new password ends every session of the account it was for, and this
\* browser's session whoever it belongs to.
ResetPassword(t, a) ==
  /\ ~tab[t].away /\ Fault
  /\ server' = [server EXCEPT !.live = {k \in @ : server.owner[k] # a}]
  /\ EndLocal(t)
  /\ UNCHANGED read

\* Revoked, its answer arriving or lost; or the request is lost.
RevokedAny(k) == [store EXCEPT !.pending = None]
Revoked(k) == IF store.pending = k THEN [store EXCEPT !.pending = None] ELSE store
Revoke(k) ==
  /\ k \in revoking /\ revoking' = revoking \ {k}
  /\ \/ /\ server' = [server EXCEPT !.live = @ \ {k}] /\ store' = Revoked(k) /\ UNCHANGED faults
     \/ Fault /\ server' = [server EXCEPT !.live = @ \ {k}] /\ UNCHANGED store
     \/ Fault /\ UNCHANGED <<server, store>>
  /\ UNCHANGED <<tab, read, events, stranded>>

\* A storage event: an ended session is announced at once, a new one read, by
\* the read already out when there is one.
StorageEvent(t) ==
  /\ events[t] # <<>> /\ events' = [events EXCEPT ![t] = Tail(@)]
  /\ IF Head(events[t]) = None \/ (store.token = None /\ read[t] = None)
     THEN Announce(t, None) /\ UNCHANGED <<read, revoking>>
     ELSE IF read[t] # None THEN UNCHANGED <<tab, read, revoking>>
     ELSE read' = [read EXCEPT ![t] = store.token] /\ Retry /\ UNCHANGED tab
  /\ UNCHANGED <<server, store, faults, stranded>>

\* The server ends a session by itself: it expired.
ServerEnds(k) ==
  /\ k \in server.live /\ Fault /\ server' = [server EXCEPT !.live = @ \ {k}]
  /\ UNCHANGED <<store, tab, read, events, revoking, stranded>>

Reload(t) ==
  /\ Fault
  /\ tab' = [tab EXCEPT ![t] = [away |-> FALSE, shown |-> None]]
  /\ read' = [read EXCEPT ![t] = store.token] /\ events' = [events EXCEPT ![t] = <<>>]
  /\ Retry
  /\ UNCHANGED <<server, store, stranded>>

Next ==
  \/ \E t \in Tabs :
       \/ StartOAuth(t) \/ StartRead(t) \/ ReadConfirmed(t) \/ ReadRefused(t) \/ ReadFailed(t)
       \/ SignOut(t) \/ StorageEvent(t) \/ Reload(t)
       \/ \E a \in Accounts : SignIn(t, a) \/ ResetPassword(t, a) \/ \E own \in BOOLEAN : Redirected(t, a, own)
  \/ \E k \in Issued : Revoke(k) \/ ServerEnds(k)

\* Requests are answered, pages come back from a provider, and the session is
\* read again from time to time in some tab: every account request reads it
\* first.
Spec ==
  /\ Init /\ [][Next]_vars
  /\ WF_vars(\E k \in Issued : Revoke(k))
  /\ SF_vars(\E t \in Tabs : StartRead(t))
  /\ WF_vars(\E t \in Tabs : ReadConfirmed(t) \/ ReadRefused(t))
  /\ WF_vars(\E t \in Tabs, a \in Accounts : Redirected(t, a, TRUE))

-----------------------------------------------------------------------------
(* Properties. *)

TypeOK ==
  /\ server.owner \in Seq(Accounts) /\ server.live \cup revoking \subseteq Issued
  /\ store.token \in Issued \cup {None} /\ store.pending \in Issued \cup {None}
  /\ \A t \in Tabs : tab[t].shown \in Accounts \cup {None} /\ read[t] \in Issued \cup {None}

\* With nothing in flight, a tab shows no account but the one whose token the
\* browser sends, in whatever order reads, sign-ins and events of several tabs
\* came.  (It may show none: a refusal of an older token, or an event older
\* than the tab's own sign-in, says the session ended.)
OnlyItsAccount ==
  \A t \in Tabs : (read[t] = None /\ events[t] = <<>>) => tab[t].shown \in {None, OwnerOf(store.token)}

\* A session leaves the browser only when the server has ended it or its
\* revocation is queued: no late refusal of an older token takes a newer
\* session with it.
KeptUntilEnded ==
  [][(store.token # None /\ store'.token = None) =>
       (store.token \notin server'.live \/ store'.pending = store.token)]_vars

\* Signing out ends the session at the server too, whatever requests and
\* answers are lost, unless a second sign-out took its place in the queue.
SignedOutEnds ==
  \A k \in Tokens : k \in revoking ~> (k \notin server.live \/ k \in stranded)

\* The tabs of a browser agree on who is signed in once they have heard of it.
TabsAgree == TypeOK /\ OnlyItsAccount
=============================================================================
