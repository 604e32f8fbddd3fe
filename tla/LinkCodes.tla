----------------------------- MODULE LinkCodes -----------------------------
(***************************************************************************)
(* The code a Mac opens the browser with, kept through a forgotten         *)
(* password (mobile-pwa/src/lib/pendingLinkCode.ts and the store's         *)
(* password reset): it leaves the address bar for storage, bound to the    *)
(* address the reset is for, and comes back for that account's sign-in.    *)
(***************************************************************************)
EXTENDS Naturals

CONSTANTS
  Tabs, Accounts, Codes,
  None,
  MaxAge,   \* PENDING_LINK_CODE_MAX_AGE_MS
  MaxNow,   \* bound: how far time goes
  MaxAsked  \* bound: reset emails asked for

VARIABLES
  tab,      \* each tab: code in the address bar, code on the hosts screen,
            \* movedHere, account shown, forgot screen, reset requests in flight
  kept,     \* localStorage: code, savedAt, email
  session,  \* the account the browser is signed in to
  now, asked,
  opened,   \* history: codes a Mac opened the browser with
  named,    \* history: <<code, address>> named in a tab that had moved the code
  restored  \* history: <<code, account>> put back into an address bar

vars == <<tab, kept, session, now, asked, opened, named, restored>>

NoEntry == [code |-> None, savedAt |-> 0, email |-> None]
Page == [url |-> None, form |-> None, moved |-> None, user |-> None, forgot |-> FALSE, sending |-> {}]

Init ==
  /\ tab = [t \in Tabs |-> Page] /\ kept = NoEntry /\ session = None
  /\ now = 0 /\ asked = 0 /\ opened = {} /\ named = {} /\ restored = {}

-----------------------------------------------------------------------------
(* pendingLinkCode.ts *)

\* The kept entry while it is fresh: an expired one is removed when read.
Fresh == IF now - kept.savedAt > MaxAge THEN NoEntry ELSE kept

\* Only the tab whose flow moved the code binds it, and its age stays.
BindFromAnyTab(t, a) == IF Fresh.code = None THEN Fresh ELSE [Fresh EXCEPT !.email = a]
Bind(t, a) ==
  IF tab[t].moved = None THEN kept
  ELSE IF Fresh.code # tab[t].moved THEN Fresh
  ELSE [Fresh EXCEPT !.email = a]

\* Claimed or, with no code named, signed out: the entry goes unless it is another's.
Cleared(c) == IF kept.code \in {c, None} THEN NoEntry ELSE kept

\* A sign-in to the account it is bound to, in a tab without a code, takes it.
IsRestored(t, a) == tab[t].url = None /\ Fresh.code # None /\ Fresh.email = a
Taken == NoEntry

-----------------------------------------------------------------------------

FromMac(t, c) ==
  /\ c \notin opened /\ opened' = opened \cup {c}
  /\ tab' = [tab EXCEPT ![t] = [Page EXCEPT !.url = c, !.user = session]]
  /\ UNCHANGED <<kept, session, now, asked, named, restored>>

\* "Forgot password?" with an address typed so far, or none.
OpenForgot(t, a) ==
  /\ tab[t].user = None /\ ~tab[t].forgot
  /\ IF tab[t].url = None
     THEN tab' = [tab EXCEPT ![t].forgot = TRUE] /\ UNCHANGED <<kept, named>>
     ELSE /\ kept' = [code |-> tab[t].url, savedAt |-> now, email |-> a]
          /\ tab' = [tab EXCEPT ![t].forgot = TRUE, ![t].url = None, ![t].moved = tab[t].url]
          /\ named' = named \cup ({tab[t].url} \X ({a} \cup tab[t].sending))
  /\ UNCHANGED <<session, now, asked, opened, restored>>

CloseForgot(t) ==
  /\ tab[t].forgot /\ tab' = [tab EXCEPT ![t].forgot = FALSE]
  /\ UNCHANGED <<kept, session, now, asked, opened, named, restored>>

RequestReset(t, a) ==
  /\ tab[t].forgot /\ asked < MaxAsked /\ asked' = asked + 1
  /\ tab' = [tab EXCEPT ![t].sending = @ \cup {a}]
  /\ named' = IF tab[t].moved = None THEN named ELSE named \cup {<<tab[t].moved, a>>}
  /\ UNCHANGED <<kept, session, now, opened, restored>>

\* The email is on its way, even if the person left the screen; or it failed.
ResetAnswered(t) ==
  /\ \E a \in tab[t].sending :
       tab' = [tab EXCEPT ![t].sending = @ \ {a}] /\ kept' \in {Bind(t, a), kept}
  /\ UNCHANGED <<session, now, asked, opened, named, restored>>

\* A sign-in made in this tab.
SignIn(t, a) ==
  /\ tab[t].user = None /\ session' = a
  /\ IF IsRestored(t, a)
     THEN /\ kept' = Taken
          /\ tab' = [tab EXCEPT ![t].user = a, ![t].forgot = FALSE, ![t].url = kept.code, ![t].moved = None]
          /\ restored' = restored \cup {<<kept.code, a>>}
     ELSE /\ kept' = (IF tab[t].url = None THEN Fresh ELSE kept)
          /\ tab' = [tab EXCEPT ![t].user = a, ![t].forgot = FALSE] /\ UNCHANGED restored
  /\ UNCHANGED <<now, asked, opened, named>>

\* A sign-in or sign-out of another tab reaches this one.
Adopt(t) ==
  /\ tab[t].user # session
  /\ tab' = [tab EXCEPT ![t].user = session, ![t].form = None, ![t].forgot = FALSE]
  /\ UNCHANGED <<kept, session, now, asked, opened, named, restored>>

SignOut(t) ==
  /\ tab[t].user # None /\ session' = None
  /\ kept' = NoEntry
  /\ tab' = [tab EXCEPT ![t].user = None, ![t].form = None, ![t].moved = None]
  /\ UNCHANGED <<now, asked, opened, named, restored>>

\* The hosts screen takes the code out of the address bar and asks to add the Mac.
TakeCode(t) ==
  /\ tab[t].user # None /\ tab[t].url # None
  /\ tab' = [tab EXCEPT ![t].url = None, ![t].form = tab[t].url]
  /\ UNCHANGED <<kept, session, now, asked, opened, named, restored>>

Claim(t) ==
  /\ tab[t].form # None /\ tab[t].user # None
  /\ kept' = Cleared(tab[t].form)
  /\ tab' = [tab EXCEPT ![t].form = None, ![t].moved = IF @ = tab[t].form THEN None ELSE @]
  /\ UNCHANGED <<session, now, asked, opened, named, restored>>

\* A reload forgets what the page held but its address.
Reload(t) ==
  /\ tab' = [tab EXCEPT ![t] = [Page EXCEPT !.url = tab[t].url, !.user = session]]
  /\ UNCHANGED <<kept, session, now, asked, opened, named, restored>>

Tick == now < MaxNow /\ now' = now + 1 /\ UNCHANGED <<tab, kept, session, asked, opened, named, restored>>

Next ==
  \/ \E t \in Tabs :
       \/ CloseForgot(t) \/ ResetAnswered(t) \/ Adopt(t) \/ SignOut(t) \/ TakeCode(t) \/ Claim(t) \/ Reload(t)
       \/ \E c \in Codes : FromMac(t, c)
       \/ \E a \in Accounts : OpenForgot(t, a) \/ RequestReset(t, a) \/ SignIn(t, a)
       \/ OpenForgot(t, None)
  \/ Tick

Spec == Init /\ [][Next]_vars

-----------------------------------------------------------------------------
(* Properties. *)

TypeOK ==
  /\ kept.code \in Codes \cup {None} /\ kept.savedAt \in 0 .. now
  /\ kept.email \in Accounts \cup {None} /\ (kept.code = None => kept = NoEntry)
  /\ \A t \in Tabs : /\ {tab[t].url, tab[t].form, tab[t].moved} \subseteq opened \cup {None}
                     /\ tab[t].user \in Accounts \cup {None}

\* A code is in one place: an address bar, a hosts screen or storage.  Two
\* tabs that held it would each claim the Mac.
Holders(c) ==
  {<<t, "url">> : t \in {u \in Tabs : tab[u].url = c}}
    \cup {<<t, "form">> : t \in {u \in Tabs : tab[u].form = c}}
    \cup {<<None, "kept">> : k \in {kept.code} \cap {c}}
OneHolder == \A c \in Codes : \A p, q \in Holders(c) : p = q

\* A kept code comes back only for an account whose address was named in the
\* tab that moved it: no reset or sign-in in another tab of a shared browser
\* gets it.  (In that tab, a reset asked for earlier and answered late counts.)
KeptForItsAddress == restored \subseteq named

\* A code that waits for a new password serves the person it was shown to, once.
HeldForItsAccount == TypeOK /\ OneHolder /\ KeptForItsAddress
=============================================================================
