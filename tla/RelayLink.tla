------------------------------ MODULE RelayLink ------------------------------
(***************************************************************************)
(* How a browser's workspace page keeps its connection to one Mac's relay  *)
(* (store.ts, App.tsx and RelayConnection.ts of apps/mobile-pwa).          *)
(*                                                                         *)
(* startPeer is a chain of awaits: the offline copy, the account session,  *)
(* then the relay's authentication.  Each call bumps peerStartGeneration,  *)
(* and a call that finds itself superseded after an await gives up.  So    *)
(* several unfinished calls coexist: each occupies a slot of Calls, and    *)
(* `current' is the slot of the newest generation.  Around it run the      *)
(* reconnect timer, the one shared recovery in flight, the page's          *)
(* visibility and the screen video, which outlives the relay socket.       *)
(*                                                                         *)
(* The number of unfinished calls (Calls) is the only bound.  The WebRTC   *)
(* fallback, off unless a build flag asks for it, is left out.             *)
(***************************************************************************)

CONSTANTS
  Calls, None,
  NotesRenewal   \* whether the history variable `since' tells renewals from losses

\* A recovery in flight is a call, or one of two ways of reading the Macs.
ASSUME CallsAssumption ==
  None \notin Calls \cup {"hosts", "hostsKeeping"} /\ Calls \cap {"hosts", "hostsKeeping"} = {}

VARIABLES calls,     \* what each startPeer call waits for, or that its socket is open
          current,   \* the newest call, None after disconnectPeer
          relay,     \* the page's relay is set
          online,    \* relayHostOnline
          hello,     \* hostHello is set
          error,     \* none, about the screen stream, or another
          timer,     \* reconnectTimer is set
          recovery,  \* recoverConnectionInFlight: None, reading the Macs, or the call it awaits
          flow,      \* the live video flow, whatever the page's state says of it
          peer,      \* the page's peer is set
          stream,    \* the page shows a video stream of the screen
          route, hidden,
          choosing,  \* chooseHost waits for its storage
          resume,    \* the lifecycle recovery the page is about to ask for
          effect,    \* App's workspace effect is about to run
          since      \* why the relay is away (history): renewal, overtaken or none

link == <<calls, current, relay>>
video == <<flow, peer, stream>>
shown == <<online, hello, error>>
page == <<route, hidden, choosing, resume>>
vars == <<link, recovery, video, shown, page, timer, effect, since>>

\* A call, or a recovery reading the Macs, keeps a rendering video or does not.
Caching(keep) == IF keep THEN "cacheKeeping" ELSE "cache"
Reading(keep) == IF keep THEN "hostsKeeping" ELSE "hosts"
Reads == {"hosts", "hostsKeeping"}
Waiting == {"cache", "cacheKeeping", "token", "dial"}

TypeOK ==
  /\ calls \in [Calls -> {"idle", "open"} \cup Waiting]
  /\ current \in Calls \cup {None}
  /\ online \in {"yes", "no", "unknown"} /\ error \in {"none", "screen", "other"}
  /\ {relay, hello, timer, peer, stream, hidden, choosing, effect} \subseteq BOOLEAN
  /\ recovery \in Calls \cup Reads \cup {None} /\ since \in {"none", "renewal", "overtaken"}
  /\ flow \in {"none", "starting", "playing"}
  /\ route \in {"hosts", "workspace"} /\ resume \in {"none", "soft", "forced"}
  \* at most one recovery is in flight, and it awaits a call that is not over
  /\ recovery \in Calls => calls[recovery] \in Waiting

Init ==
  /\ calls = [c \in Calls |-> "idle"] /\ current = None
  /\ relay = FALSE /\ online = "unknown" /\ hello = FALSE /\ error = "none"
  /\ timer = FALSE /\ recovery = None
  /\ flow = "none" /\ peer = FALSE /\ stream = FALSE
  /\ route = "hosts" /\ hidden = FALSE /\ choosing = FALSE /\ resume = "none"
  /\ effect = FALSE /\ since = "none"

Live(c) == c = current

\* The recovery in flight awaits a start that another one superseded.
Overtaken == recovery \notin Reads \cup {None, current}

\* React runs App's effect after a render in which one of its inputs changed.
Rendered == effect' = (effect \/ <<route, relay, peer>>' # <<route, relay, peer>>)
----------------------------------------------------------------------------
(* Starting                                                                *)

\* The calls once the sockets the page holds are closed on purpose.
Hung == [c \in Calls |-> IF calls[c] = "open" THEN "idle" ELSE calls[c]]

KeepsVideo(keep) == keep /\ stream

\* Slots are alike: a new call takes any free one.
IsFree(c) == calls[c] = "idle" /\ c = CHOOSE d \in Calls : calls[d] = "idle"

StartPeer(c, keep) ==
  /\ IsFree(c)
  /\ calls' = [Hung EXCEPT ![c] = Caching(KeepsVideo(keep))]
  /\ current' = c
  /\ timer' = FALSE
  /\ flow' = IF KeepsVideo(keep) THEN flow ELSE "none"

\* Call c is over: its slot is free, and a recovery that awaited it ends.
Over(c) ==
  /\ calls' = [calls EXCEPT ![c] = "idle"]
  /\ recovery' = IF recovery = c THEN None ELSE recovery

\* scheduleReconnect, after the page showed error e and `others' already held.
ScheduleReconnect(e) ==
  IF timer \/ hidden \/ route # "workspace"
  THEN timer' = timer /\ error' = e
  ELSE timer' = TRUE /\ error' = "other"

PictureAfter(keep) ==
  IF keep THEN UNCHANGED video ELSE peer' = FALSE /\ stream' = FALSE /\ UNCHANGED flow

CacheAnswers(c, keep, cached) ==
  /\ calls[c] = Caching(keep)
  /\ IF ~Live(c)
     THEN Over(c) /\ UNCHANGED <<relay, shown, video>>
     ELSE /\ calls' = [calls EXCEPT ![c] = "token"]
          /\ PictureAfter(keep)
          /\ relay' = FALSE
          /\ online' = IF cached /\ ~keep THEN "no" ELSE "unknown"
          /\ hello' \in IF cached THEN {TRUE, hello} ELSE {FALSE}
          /\ error' = "other"
          /\ UNCHANGED recovery
  /\ UNCHANGED <<current, page, timer>>

\* The page gives up on the current call: the session or the relay refused it.
Failed(c) ==
  /\ Over(c)
  /\ peer' = FALSE /\ relay' = FALSE /\ online' = "no"
  /\ ScheduleReconnect("other")
  /\ UNCHANGED <<flow, stream, hello>>

TokenAnswers(c) ==
  /\ calls[c] = "token"
  /\ IF Live(c) THEN calls' = [calls EXCEPT ![c] = "dial"] /\ UNCHANGED recovery
                ELSE Over(c)
  /\ UNCHANGED <<current, relay, video, shown, page, timer>>

Refused(c) ==
  /\ calls[c] \in {"token", "dial"}
  /\ IF Live(c) THEN Failed(c) ELSE Over(c) /\ UNCHANGED <<relay, video, shown, timer>>
  /\ UNCHANGED <<current, page>>

\* A call superseded while the relay authenticated it closes its socket.
SupersededUnseen(c) == FALSE
Superseded(c) == ~Live(c)

Authenticated(c) ==
  /\ calls[c] = "dial"
  /\ IF Superseded(c)
     THEN Over(c) /\ UNCHANGED relay
     ELSE /\ calls' = [calls EXCEPT ![c] = "open"]
          /\ relay' = TRUE
          /\ recovery' = IF recovery = c THEN None ELSE recovery
  /\ UNCHANGED <<current, video, shown, page, timer>>
----------------------------------------------------------------------------
(* What the open relay says                                                *)

Presence(on) ==
  /\ current # None /\ calls[current] = "open"
  /\ online' = (IF on THEN "yes" ELSE "no")
  /\ error' = (IF on THEN "none" ELSE "other")
  /\ UNCHANGED <<link, recovery, video, hello, page, timer>>

Hello(cached) ==
  /\ current # None /\ calls[current] = "open"
  /\ hello' = TRUE
  /\ online' = IF ~cached THEN "yes" ELSE IF online = "unknown" THEN "no" ELSE online
  /\ error' = IF ~cached \/ online = "yes" THEN "none"
              ELSE IF error = "none" THEN "other" ELSE error
  /\ UNCHANGED <<link, recovery, video, page, timer>>

\* The socket ends: "renew" is close code 4001, its authorization window.
RelayCloses(code) ==
  /\ current # None /\ calls[current] = "open"
  /\ calls' = Hung
  /\ relay' = FALSE
  /\ online' = IF code = "renew" THEN online ELSE "no"
  /\ ScheduleReconnect(IF code = "renew" THEN error ELSE "other")
  /\ since' = IF Overtaken THEN "overtaken" ELSE IF code = "renew" /\ NotesRenewal THEN "renewal" ELSE "none"
  /\ UNCHANGED <<current, recovery, video, hello, page>>
  /\ Rendered
----------------------------------------------------------------------------
(* Recovering                                                              *)

Healthy == online = "yes" /\ hello /\ (relay \/ peer) /\ error # "other"

\* A reconnect that is already due is left alone, unless the person asks.
DefersAnyway(asked, t) == ~asked
Defers(asked, t) == t /\ ~asked

\* recoverConnection: joins the one in flight, may find nothing to do, may
\* read the Macs of the account first, and then starts again.
Recover(force, keep, asked, t) ==
  IF \/ recovery # None \/ route # "workspace" \/ hidden
     \/ ~force /\ Healthy
     \/ Defers(asked, t)
  THEN timer' = t /\ UNCHANGED <<link, recovery, flow>>
  ELSE \/ recovery' = Reading(keep) /\ timer' = t /\ UNCHANGED <<link, flow>>
       \/ \E c \in Calls : /\ StartPeer(c, keep)
                           /\ recovery' = c
                           /\ UNCHANGED relay

HostsAnswer(keep, macOnline) ==
  /\ recovery = Reading(keep)
  /\ IF macOnline THEN UNCHANGED <<online, error>> ELSE online' = "no" /\ error' = "other"
  /\ \E c \in Calls : StartPeer(c, keep) /\ recovery' = c
  /\ UNCHANGED <<relay, peer, stream, hello, page>>

HostsFail ==
  /\ recovery \in Reads
  /\ recovery' = None
  /\ ScheduleReconnect("other")
  /\ UNCHANGED <<link, video, online, hello, page>>

TimerFires ==
  /\ timer
  /\ Recover(TRUE, TRUE, FALSE, FALSE)
  /\ UNCHANGED <<peer, stream, shown, page>>

PersonRetries ==
  /\ Recover(TRUE, FALSE, TRUE, timer)
  /\ UNCHANGED <<peer, stream, shown, page>>

ResumeFires ==
  /\ resume # "none"
  /\ resume' = "none"
  /\ Recover(resume = "forced", TRUE, FALSE, timer)
  /\ UNCHANGED <<peer, stream, shown, route, hidden, choosing>>

\* The workspace opened, or lost its connection, without anyone to restore it.
Bare == route = "workspace" /\ ~relay /\ ~peer

EffectRuns ==
  /\ effect
  /\ IF Bare THEN Recover(FALSE, FALSE, FALSE, timer)
             ELSE UNCHANGED <<link, recovery, flow, timer>>
  /\ effect' = FALSE
  /\ UNCHANGED <<peer, stream, shown, page, since>>
----------------------------------------------------------------------------
(* The page                                                                *)

DisconnectPeer ==
  /\ calls' = Hung /\ current' = None /\ timer' = FALSE
  /\ flow' = "none" /\ peer' = FALSE /\ stream' = FALSE
  /\ relay' = FALSE /\ online' = "unknown" /\ hello' = FALSE
  /\ UNCHANGED recovery

\* Back to the account's Macs: a link code was opened, or the Mac was removed.
Leave ==
  /\ route = "workspace" /\ ~choosing
  /\ DisconnectPeer
  /\ route' = "hosts"
  /\ UNCHANGED <<error, hidden, choosing, resume>>

ChooseHost ==
  /\ ~choosing
  /\ DisconnectPeer
  /\ choosing' = TRUE
  /\ UNCHANGED <<error, route, hidden, resume>>

ChoiceStored(macOnline, cached) ==
  /\ choosing /\ choosing' = FALSE
  /\ route' = "workspace"
  /\ online' = (IF macOnline THEN "yes" ELSE "no")
  /\ error' = (IF macOnline THEN "none" ELSE "other")
  /\ hello' = cached
  /\ \E c \in Calls : StartPeer(c, FALSE)
  /\ UNCHANGED <<relay, recovery, peer, stream, hidden, resume>>

Hide ==
  /\ ~hidden /\ hidden' = TRUE
  /\ UNCHANGED <<link, recovery, video, shown, route, choosing, resume, timer>>

\* Visible again (forced after more than 1.5 s), focused, or back on the network.
Show(forced) ==
  /\ hidden' = FALSE
  /\ (~hidden => ~forced)
  /\ resume' = IF forced \/ resume = "forced" THEN "forced" ELSE "soft"
  /\ UNCHANGED <<link, recovery, video, shown, route, choosing, timer>>
----------------------------------------------------------------------------
(* The screen's video, as far as the relay's recovery looks at it          *)

\* The screen panel, or the flow's retry, asks for it: only with a list of apps.
StartVideo ==
  /\ route = "workspace" /\ ~hidden /\ ~choosing /\ current # None
  /\ online = "yes" \/ stream
  /\ flow' = "starting" /\ peer' = FALSE /\ stream' = FALSE /\ error' = "screen"
  /\ UNCHANGED <<link, recovery, online, hello, page, timer>>

\* Signalling is up: a network's answer comes after the render before it.
VideoSignals ==
  /\ flow = "starting" /\ ~peer /\ ~effect /\ peer' = TRUE
  /\ UNCHANGED <<link, recovery, flow, stream, shown, page, timer>>

VideoPlays ==
  /\ flow = "starting" /\ peer
  /\ flow' = "playing" /\ stream' = TRUE /\ online' = "yes" /\ error' = "none"
  /\ UNCHANGED <<link, recovery, peer, hello, page, timer>>

\* The flow ended by itself, or the screen panel stopped it.
VideoEnds ==
  /\ flow # "none"
  /\ flow' = "none" /\ peer' = FALSE /\ stream' = FALSE
  /\ error' \in {error, "none", "screen"}
  /\ UNCHANGED <<link, recovery, online, hello, page, timer>>
----------------------------------------------------------------------------
Step ==
  \/ \E c \in Calls : TokenAnswers(c) \/ Refused(c) \/ Authenticated(c)
  \/ \E c \in Calls, a, b \in BOOLEAN : CacheAnswers(c, a, b)
  \/ \E b \in BOOLEAN : Presence(b) \/ Hello(b) \/ Show(b)
  \/ \E a, b \in BOOLEAN : ChoiceStored(a, b) \/ HostsAnswer(a, b)
  \/ HostsFail \/ TimerFires \/ PersonRetries \/ ResumeFires
  \/ Leave \/ ChooseHost \/ Hide
  \/ StartVideo \/ VideoSignals \/ VideoPlays \/ VideoEnds

Page(A) ==
  /\ A /\ Rendered
  /\ since' = IF relay' \/ choosing' THEN "none"
              ELSE IF Overtaken THEN "overtaken" ELSE since

Next == Page(Step) \/ EffectRuns \/ \E code \in {"renew", "lost"} : RelayCloses(code)

\* Storage answers, timers and effects run, and the account and the relay,
\* asked again and again, do not refuse for ever.
Fairness ==
  /\ WF_vars(Page(\E c \in Calls, a, b \in BOOLEAN : CacheAnswers(c, a, b)))
  /\ WF_vars(Page(\E c \in Calls : ~Live(c) /\ (TokenAnswers(c) \/ Authenticated(c))))
  /\ SF_vars(Page(\E c \in Calls : Live(c) /\ TokenAnswers(c)))
  /\ SF_vars(Page(\E c \in Calls : Live(c) /\ Authenticated(c)))
  /\ SF_vars(Page(\E a, b \in BOOLEAN : HostsAnswer(a, b)))
  /\ WF_vars(Page(TimerFires)) /\ WF_vars(Page(ResumeFires)) /\ WF_vars(EffectRuns)
  /\ WF_vars(Page(\E a, b \in BOOLEAN : ChoiceStored(a, b)))

Spec == Init /\ [][Next]_vars /\ Fairness
----------------------------------------------------------------------------
(* A socket that authenticated is the page's own: a call superseded while  *)
(* it waited never leaves a second connection of this browser open, which  *)
(* the relay would answer by closing the page's.                           *)
OneLink == \A c \in Calls : calls[c] = "open" => Live(c) /\ relay

(* A picture kept across a reconnect is one a live flow still delivers,    *)
(* once the call that ended the flow has had its offline copy.             *)
KeptVideoIsAlive ==
  stream => flow = "playing" \/ (current # None /\ calls[current] = "cache")

Wanted == route = "workspace" /\ ~hidden /\ ~choosing
Linked == relay \/ ~Wanted

(* A visible workspace without its relay gets it back by itself, as long   *)
(* as no video is kept and no recovery was overtaken by a choice of Mac:   *)
(* such a recovery swallows every later one until its call answers.        *)
LinkReturns == Wanted ~> Linked \/ peer \/ since = "overtaken"

(* CHANGELOG 169-172: when the relay closes a socket for authorization     *)
(* "the phone reconnects at once".                                         *)
RenewalReconnects == (since = "renewal" /\ Wanted) ~> (since # "renewal" \/ ~Wanted)

(* One connection at a time, and a kept picture is a live one.             *)
OneLiveLink == TypeOK /\ OneLink /\ KeptVideoIsAlive
=============================================================================
