-------------------------- MODULE MCPhoneProgress --------------------------
(***************************************************************************)
(* What must eventually happen in the phone app, for TLC in small          *)
(* instances: the screen's video ("video"), the screen's stop ("stop"),    *)
(* uploads ("upload") and the removal of kept copies ("copies").  In a     *)
(* behaviour one of them, `part', runs and the others stay as they began.  *)
(* What must hold of the first three in every state is MCPhoneLink's.      *)
(***************************************************************************)
EXTENDS Naturals, Sequences, TLC

CONSTANTS
  None,
  Flows,
  MaxQueue, MaxPresses, MaxDrops, MaxAtMac,
  Apps, Files, Chunks, MaxSubmits,
  Tabs, Hosts, NoHost, Nobody, TTL, MaxNow, MaxOps, MaxJobs, t1, t2

VARIABLES
  part,
  phase, conn, sock, aborted, current, peer, stream, wanted, retry, sharing, online, hidden,
  resume, effect,
  pending, list, frame, macOnline, linked, macLinked, shares, kept, toMac, toPage, presses,
  drops, atMac, asked,
  card, draft, picked, uploading, readOnly, uploads, parts, prompts, reported, whole,
  now, ops, db, tab, lane, reuse, lock, cleared, adopted

Video   == INSTANCE VideoFlow
Stop    == INSTANCE ScreenStop WITH online <- macOnline
Upload  == INSTANCE Composer
Copies  == INSTANCE OfflineCopies

videoVars == <<phase, conn, sock, aborted, current, peer, stream, wanted, retry, sharing,
               online, hidden, resume, effect>>
stopVars == <<pending, list, frame, macOnline, linked, macLinked, shares, kept, toMac, toPage,
              presses, drops, atMac, asked>>
uploadVars == <<card, draft, picked, uploading, readOnly, uploads, parts, prompts, reported,
                whole>>
copyVars == <<now, ops, db, tab, lane, reuse, lock, cleared, adopted>>
allVars == <<part, videoVars, stopVars, uploadVars, copyVars>>

MCInit ==
  /\ part \in {"video", "stop", "upload", "copies"}
  /\ Video!Init /\ Stop!Init /\ Upload!Init /\ Copies!Init
  /\ part # "copies" => \A h \in Hosts : db.copy[h] = None
  /\ part # "upload" => card = CHOOSE x \in Apps : TRUE

MCNext ==
  \/ part = "video" /\ Video!Next
     /\ UNCHANGED <<part, stopVars, uploadVars, copyVars>>
  \/ part = "stop" /\ Stop!Next
     /\ UNCHANGED <<part, videoVars, uploadVars, copyVars>>
  \/ part = "upload" /\ Upload!Next
     /\ UNCHANGED <<part, videoVars, stopVars, copyVars>>
  \/ part = "copies" /\ Copies!Next
     /\ UNCHANGED <<part, videoVars, stopVars, uploadVars>>

\* The fairness of each part, as its module states it.  `part' never changes, so
\* one strong condition can stand for one of each part.
running ==
  CASE part = "video" -> videoVars [] OTHER -> copyVars
Either(video, copies) ==
  /\ part' = part
  /\ \/ part = "video" /\ video
     \/ part = "copies" /\ copies
Flow(A(_)) == \E f \in Flows : Video!Page(A(f))
LostPeerEnds(f) == conn[f] # "up" /\ Video!PeerEnds(f)
FailedCloses(f) == phase[f] = "failed" /\ Video!SignalingCloses(f)
Fairness ==
  /\ WF_videoVars(part = "video" /\ Flow(Video!Starts))
  /\ WF_videoVars(part = "video" /\ Flow(LostPeerEnds))
  /\ WF_videoVars(part = "video" /\ Flow(FailedCloses))
  /\ WF_videoVars(part = "video" /\ Video!Page(Video!RetryFires))
  /\ WF_videoVars(part = "video" /\ Video!Page(Video!ResumeRuns))
  /\ WF_videoVars(part = "video" /\ Video!EffectRuns)
  /\ WF_stopVars(part = "stop" /\ Stop!Receive) /\ WF_stopVars(part = "stop" /\ Stop!Warn)
  /\ WF_stopVars(part = "stop" /\ Stop!MacObeys)
  /\ WF_stopVars(part = "stop" /\ Stop!PageLinks) /\ WF_stopVars(part = "stop" /\ Stop!MacLinks)
  /\ \A b \in 1 .. MaxSubmits : WF_uploadVars(part = "upload" /\ Upload!Upload(b))
  /\ SF_running(Either(Flow(Video!Dialled), Copies!Job(t1)))
  /\ SF_running(Either(Flow(Video!PeerConnects), Copies!Job(t2)))
  /\ SF_running(Either(Flow(Video!Track), FALSE))

MCSpec == MCInit /\ [][MCNext]_allVars /\ Fairness

-----------------------------------------------------------------------------
(* The properties of the parts; their modules say what they are about.     *)

\* A watched screen gets its picture.
PictureReturns ==
  part = "video" /\ Video!Watched ~> (part = "video" => (stream # None \/ ~Video!Watched \/ Video!Refused))

\* A stop is answered.
StopIsAnswered == asked = "stop" ~> (~shares \/ list = "on" \/ asked # "stop")

\* The composer unlocks, and a clear of the kept copies ends (the tabs are alike).
Unlocks == uploading ~> ~uploading
ClearEnds == Copies!Waiting(t1, "clear") ~> ~Copies!Waiting(t1, "clear")
JobsEnd == Unlocks /\ ClearEnds
=============================================================================
