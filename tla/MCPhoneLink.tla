----------------------------- MODULE MCPhoneLink -----------------------------
(***************************************************************************)
(* What one page of the phone app holds and shows, for TLC: its connection *)
(* to the relay ("link"), the screen's video ("video"), the screen's stop  *)
(* ("stop") and uploads ("upload").  In a behaviour one of them, `part',   *)
(* runs and the others stay as they began.  What must eventually happen in *)
(* the last three is MCPhoneProgress's.                                    *)
(***************************************************************************)
EXTENDS RelayLink, Naturals

CONSTANTS
  Flows,
  MaxQueue, MaxPresses, MaxDrops, MaxAtMac,
  Apps, Files, Chunks, MaxSubmits

VARIABLES
  part,
  phase, conn, sock, aborted, newest, flowPeer, picture, wanted, retry, sharing, reached,
  away, back, panel,
  pending, list, frame, macOnline, linked, macLinked, shares, kept, toMac, toPage, presses,
  drops, atMac, asked,
  card, draft, picked, uploading, readOnly, uploads, parts, prompts, reported, whole

Video  == INSTANCE VideoFlow WITH
            current <- newest, peer <- flowPeer, stream <- picture, online <- reached,
            hidden <- away, resume <- back, effect <- panel
Stop   == INSTANCE ScreenStop WITH online <- macOnline
Upload == INSTANCE Composer

\* What stands for no flow and no upload is none; a batch has a piece at least.
ASSUME PageAssumption ==
  /\ None \notin Flows \cup Upload!Stage
  /\ Files \in Nat \ {0} /\ Chunks \in Nat \ {0} /\ MaxSubmits \in Nat
  /\ MaxQueue \in Nat /\ MaxPresses \in Nat /\ MaxDrops \in Nat /\ MaxAtMac \in Nat

videoVars == <<phase, conn, sock, aborted, newest, flowPeer, picture, wanted, retry, sharing,
               reached, away, back, panel>>
stopVars == <<pending, list, frame, macOnline, linked, macLinked, shares, kept, toMac, toPage,
              presses, drops, atMac, asked>>
uploadVars == <<card, draft, picked, uploading, readOnly, uploads, parts, prompts, reported,
                whole>>
allVars == <<part, vars, videoVars, stopVars, uploadVars>>

MCInit ==
  /\ part \in {"link", "video", "stop", "upload"}
  /\ Init /\ Video!Init /\ Stop!Init /\ Upload!Init
  /\ part # "upload" => card = CHOOSE x \in Apps : TRUE

MCNext ==
  \/ part = "link" /\ Next
     /\ UNCHANGED <<part, videoVars, stopVars, uploadVars>>
  \/ part = "video" /\ Video!Next
     /\ UNCHANGED <<part, vars, stopVars, uploadVars>>
  \/ part = "stop" /\ Stop!Next
     /\ UNCHANGED <<part, vars, videoVars, uploadVars>>
  \/ part = "upload" /\ Upload!Next
     /\ UNCHANGED <<part, vars, videoVars, stopVars>>

\* The link's fairness asks nothing of it while another part runs: at the start
\* none of its fair steps can be taken.
MCSpec == MCInit /\ [][MCNext]_allVars /\ Fairness

-----------------------------------------------------------------------------
(* The properties of the other parts; their modules say what they are      *)
(* about.                                                                  *)

\* Only the current flow of the video holds or shows anything.
OnlyCurrentFlow == Video!OnlyCurrentFlow
\* A page that says the screen is off is right, and shows nothing of it.
StopHolds == Stop!StopHolds
\* What the page reports of a batch of files is true.
ReportIsTrue == Upload!ReportIsTrue
=============================================================================
