------------------------------ MODULE VideoFlow ------------------------------
(***************************************************************************)
(* The screen's live video in a browser: startVideoPeer, its retries and   *)
(* the panel's effect (store.ts, ScreenRemotePanel.tsx), and the flow they *)
(* start, one signalling socket and one peer connection to the Mac         *)
(* (startPeerFlow.ts, SignalingClient.ts, PeerConnection.ts).              *)
(*                                                                         *)
(* A flow waits for its code to load, for the signalling socket to         *)
(* authenticate, and for the ping that asks the Mac for an offer.  It may  *)
(* be aborted at any of these waits; PeerFlowAbortRegistry holds the       *)
(* controller of the one that was begun last.  Flows is the set of slots   *)
(* for flows not over yet, the only bound.                                 *)
(***************************************************************************)

CONSTANTS Flows, None

VARIABLES phase,     \* how far each flow came
          conn,      \* its peer connection: new, up or down for up to 8 s
          sock,      \* the flows whose signalling socket is open
          aborted,   \* the flows whose abort signal was raised
          current,   \* the newest flow, None once its generation is over
          peer,      \* the flow whose peer the page holds
          stream,    \* the flow whose picture the page shows
          wanted,    \* videoPeerWanted
          retry,     \* videoRetryTimer is set
          sharing, online, hidden,  \* the screen is shared, the Mac reached, the page hidden
          resume,    \* the lifecycle recovery is about to look
          effect     \* the screen panel's effect is about to run

flows == <<phase, conn, sock, aborted>>
shown == <<current, peer, stream>>
asks == <<wanted, retry>>
env == <<sharing, online, hidden, resume>>
vars == <<flows, shown, asks, env, effect>>

Alive == {"dialing", "greeting", "open", "failed"}

TypeOK ==
  /\ phase \in [Flows -> Alive \cup {"over", "begun", "refused"}]
  /\ conn \in [Flows -> {"new", "up", "down"}]
  /\ sock \subseteq {f \in Flows : phase[f] \in Alive} /\ aborted \subseteq Flows
  /\ {current, peer, stream} \subseteq Flows \cup {None}
  /\ {wanted, retry, sharing, online, hidden, resume, effect} \subseteq BOOLEAN

Init ==
  /\ phase = [f \in Flows |-> "over"] /\ conn = [f \in Flows |-> "new"]
  /\ sock = {} /\ aborted = {} /\ current = None /\ peer = None /\ stream = None
  /\ wanted = FALSE /\ retry = FALSE
  /\ sharing = FALSE /\ online = FALSE /\ hidden = FALSE /\ resume = FALSE /\ effect = FALSE

\* The panel's effect runs after a render in which one of its inputs changed.
Page(A) ==
  /\ A
  /\ effect' = (effect \/ sharing' # sharing \/ online' # online
                       \/ (stream' = None) # (stream = None))
----------------------------------------------------------------------------
(* Starting and stopping                                                   *)

\* What aborting every flow of the registry leaves of them: one whose code
\* still loads learns of it when it starts.
CancelHeld(f) == f = peer
Cancel(f) == phase[f] \in Alive

CancelAll ==
  /\ phase' = [f \in Flows |-> IF Cancel(f) THEN "over" ELSE phase[f]]
  /\ sock' = {f \in sock : ~Cancel(f)}
  /\ aborted' = {f \in Flows : phase[f] = "begun"}

\* startVideoPeer; a page that is hidden only remembers that it was asked.
StartVideoPeer ==
  /\ wanted' = TRUE /\ retry' = FALSE
  /\ IF hidden THEN UNCHANGED <<flows, shown>>
     ELSE \E f \in Flows :
            /\ phase[f] \in {"over", "refused"}
            /\ phase' = [g \in Flows |-> IF g = f THEN "begun"
                                         ELSE IF Cancel(g) THEN "over" ELSE phase[g]]
            /\ sock' = {g \in sock : ~Cancel(g)}
            /\ aborted' = {g \in Flows \ {f} : phase[g] = "begun"}
            /\ conn' = [conn EXCEPT ![f] = "new"]
            /\ current' = f /\ peer' = None /\ stream' = None

StopVideoPeer ==
  /\ CancelAll
  /\ wanted' = FALSE /\ retry' = FALSE
  /\ current' = None /\ peer' = None /\ stream' = None
  /\ UNCHANGED conn

CanResume == wanted /\ ~hidden /\ online /\ sharing /\ stream = None

EffectRuns ==
  /\ effect
  /\ IF ~sharing THEN StopVideoPeer
     ELSE IF online /\ stream = None THEN StartVideoPeer
     ELSE UNCHANGED <<flows, shown, asks>>
  /\ effect' = (stream' # stream /\ stream # None)
  /\ UNCHANGED env

RetryFires ==
  /\ retry
  /\ IF CanResume THEN StartVideoPeer
                  ELSE retry' = FALSE /\ UNCHANGED <<flows, shown, wanted>>
  /\ UNCHANGED env

ResumeRuns ==
  /\ resume /\ resume' = FALSE
  /\ IF CanResume THEN StartVideoPeer ELSE UNCHANGED <<flows, shown, asks>>
  /\ UNCHANGED <<sharing, online, hidden>>

\* The panel saw the picture freeze.
RestartStalled == stream # None /\ StartVideoPeer /\ UNCHANGED env

\* startPeer without keepVideoPeer: every flow is given up, and the panel
\* starts another once the Mac is online again.
RelayRestarts ==
  /\ CancelAll /\ retry' = FALSE /\ online' = FALSE
  /\ current' = None /\ peer' = None /\ stream' = None
  /\ UNCHANGED <<conn, wanted, sharing, hidden, resume>>
----------------------------------------------------------------------------
(* One flow                                                                *)

Becomes(f, p) == phase' = [phase EXCEPT ![f] = p]

\* disposeFlow
Dispose(f) == Becomes(f, "over") /\ sock' = sock \ {f} /\ UNCHANGED <<conn, aborted>>

\* The page gives up on flow f, and tries again later while the screen is wanted.
RetryUnset == FALSE
RetrySet == wanted

Cleared == None

GivesUp(f) ==
  /\ peer' = IF f = current THEN None ELSE peer
  /\ stream' = IF f = current THEN Cleared ELSE stream
  /\ retry' = (retry \/ (f = current /\ RetrySet))
  /\ UNCHANGED <<current, wanted>>

CloseFlow(f) == Dispose(f) /\ GivesUp(f)

\* The code is loaded: an abort from before is seen here.
AbortUnseen(f) == FALSE
AbortSeen(f) == f \in aborted

Starts(f) ==
  /\ phase[f] = "begun"
  /\ IF AbortSeen(f) THEN Becomes(f, "over") /\ UNCHANGED sock
                     ELSE Becomes(f, "dialing") /\ sock' = sock \cup {f}
  /\ UNCHANGED <<conn, aborted, shown, asks, env>>

Dialled(f) ==
  /\ phase[f] = "dialing"
  /\ Becomes(f, "greeting")
  /\ peer' = IF f = current THEN f ELSE peer
  /\ UNCHANGED <<conn, sock, aborted, current, stream, asks, env>>

\* The socket fails: the wait ends with an error, and the close event follows.
Fails(f) ==
  /\ phase[f] \in {"dialing", "greeting"}
  /\ Becomes(f, "failed")
  /\ GivesUp(f)
  /\ UNCHANGED <<conn, sock, aborted, env>>

Greeted(f) ==
  /\ phase[f] = "greeting" /\ Becomes(f, "open")
  /\ UNCHANGED <<conn, sock, aborted, shown, asks, env>>

\* The signalling socket closes: a peer that was connected does without it.
SignalingCloses(f) ==
  /\ f \in sock
  /\ IF conn[f] = "new" THEN CloseFlow(f)
     ELSE sock' = sock \ {f} /\ UNCHANGED <<phase, conn, aborted, shown, asks>>
  /\ UNCHANGED env

PeerConnects(f) ==
  /\ phase[f] \in {"greeting", "open", "failed"} /\ conn[f] # "up"
  /\ conn' = [conn EXCEPT ![f] = "up"]
  /\ online' = (online \/ f = current)
  /\ UNCHANGED <<phase, sock, aborted, shown, asks, sharing, hidden, resume>>

PeerDrops(f) ==
  /\ phase[f] \in Alive /\ conn[f] = "up"
  /\ conn' = [conn EXCEPT ![f] = "down"]
  /\ UNCHANGED <<phase, sock, aborted, shown, asks, env>>

\* 8 s without the peer, 25 s without ever having it, or the peer failed.
PeerEnds(f) ==
  /\ phase[f] \in Alive /\ (phase[f] = "open" \/ conn[f] # "new")
  /\ CloseFlow(f)
  /\ UNCHANGED env

Track(f) ==
  /\ phase[f] \in Alive /\ conn[f] = "up"
  /\ stream' = IF f = current THEN f ELSE stream
  /\ UNCHANGED <<flows, current, peer, asks, env>>

\* The Mac speaks another protocol version: closed without a retry.
Refuses(f) ==
  /\ phase[f] \in Alive /\ conn[f] = "up"
  /\ Becomes(f, "refused") /\ sock' = sock \ {f}
  /\ UNCHANGED <<conn, aborted, shown, asks, env>>
----------------------------------------------------------------------------
(* Around it                                                               *)

Shared(b) ==
  /\ sharing' = b /\ UNCHANGED <<flows, shown, asks, online, hidden, resume>>
Presence(b) ==
  /\ online' = b /\ UNCHANGED <<flows, shown, asks, sharing, hidden, resume>>
Hide ==
  /\ hidden' = TRUE /\ UNCHANGED <<flows, shown, asks, sharing, online, resume>>
Show ==
  /\ hidden /\ hidden' = FALSE /\ resume' = TRUE
  /\ UNCHANGED <<flows, shown, asks, sharing, online>>

FlowStep(f) ==
  \/ Starts(f) \/ Dialled(f) \/ Fails(f) \/ Greeted(f) \/ SignalingCloses(f)
  \/ PeerConnects(f) \/ PeerDrops(f) \/ PeerEnds(f) \/ Track(f) \/ Refuses(f)

Next ==
  \/ \E f \in Flows : Page(FlowStep(f))
  \/ \E b \in BOOLEAN : Page(Shared(b)) \/ Page(Presence(b))
  \/ Page(Hide) \/ Page(Show)
  \/ Page(RetryFires) \/ Page(ResumeRuns) \/ Page(RestartStalled) \/ Page(RelayRestarts)
  \/ EffectRuns

\* Code loads, timers and effects run, and a Mac that is asked again and again
\* is reached and sends its picture in the end.
Fairness ==
  /\ WF_vars(\E f \in Flows : Page(Starts(f))) /\ WF_vars(\E f \in Flows : conn[f] # "up" /\ Page(PeerEnds(f)))
  /\ SF_vars(\E f \in Flows : Page(Dialled(f))) /\ SF_vars(\E f \in Flows : Page(PeerConnects(f)))
  /\ SF_vars(\E f \in Flows : Page(Track(f)))
  /\ WF_vars(\E f \in Flows : phase[f] = "failed" /\ Page(SignalingCloses(f)))
  /\ WF_vars(Page(RetryFires)) /\ WF_vars(Page(ResumeRuns)) /\ WF_vars(EffectRuns)

Spec == Init /\ [][Next]_vars /\ Fairness
----------------------------------------------------------------------------
(* A flow that was replaced, stopped or given up with its generation holds *)
(* no socket and no peer connection: the Mac would go on sending to it.    *)
NothingLeftOpen == \A f \in Flows : phase[f] \in Alive => f = current

(* The picture on the page comes from the current flow, which is alive or  *)
(* was closed for the Mac's protocol version.                              *)
PictureIsLive == stream # None => stream = current /\ phase[stream] \in Alive \cup {"refused"}

Watched == sharing /\ online /\ ~hidden
Refused == current # None /\ phase[current] = "refused"

(* A shared screen that the visible page watches gets its picture, however *)
(* many flows time out, fail or drop on the way.                           *)
PictureReturns == Watched ~> (stream # None \/ ~Watched \/ Refused)

(* Only the current flow holds anything, or shows anything.                *)
OnlyCurrentFlow == TypeOK /\ NothingLeftOpen /\ PictureIsLive
=============================================================================
