------------------------------- MODULE Composer -------------------------------
(***************************************************************************)
(* Sending files to an agent: the composer of the card on screen           *)
(* (agents/AgentCard.tsx), the batch of chunks the page sends over the     *)
(* relay or else over the video peer's data channel (store.ts,             *)
(* RelayConnection.ts, PeerConnection.ts), and the two tables in which the *)
(* Mac puts batches together, one per path (SessionManager.swift,          *)
(* Session.swift).                                                         *)
(*                                                                         *)
(* A chunk the page hands to a path may arrive, be lost with the path or   *)
(* by a Mac that refuses it, or be refused by the path (closed, or         *)
(* congested for 3 s).  One card component serves every app in turn, so an *)
(* upload may end under another app's card.                                *)
(***************************************************************************)
EXTENDS Naturals, FiniteSets

CONSTANTS
  Apps,
  Files, Chunks, \* of every batch: how many files, and chunks of a file
  MaxSubmits,    \* bound: batches
  None

Batches == 1 .. MaxSubmits
Paths == {"relay", "peer"}
Pieces == (1 .. Files) \X (1 .. Chunks)

VARIABLES
  card,      \* the app whose card is on screen
  draft,     \* prompt: text typed in the composer
  picked,    \* attachments
  uploading, \* uploadingAttachments
  readOnly,  \* effectiveReadOnly
  uploads,   \* the submit() in flight of each batch: where it is, or None
  parts,     \* the Mac: the pieces it has of each batch, per path
  prompts,   \* the Mac: prompts made of each batch
  reported,  \* what the page told the person of each batch
  whole      \* history: batches that used one path and of which nothing was lost

composer == <<card, draft, picked, uploading, readOnly>>
mac == <<parts, prompts>>
vars == <<composer, uploads, mac, reported, whole>>

Stage == [app : Apps, path : {"none"} \cup Paths, file : 1 .. Files, chunk : 1 .. Chunks]

TypeOK ==
  /\ card \in Apps
  /\ {draft, picked, uploading, readOnly} \subseteq BOOLEAN
  /\ uploads \in [Batches -> Stage \cup {None}]
  /\ parts \in [Paths -> [Batches -> SUBSET Pieces]]
  /\ prompts \in [Batches -> 0 .. 1]
  /\ reported \in [Batches -> {"no", "sent", "failed"}]
  /\ whole \subseteq Batches
  /\ \A b \in Batches : uploads[b] # None => reported[b] = "no"

Init ==
  /\ card \in Apps
  /\ draft = FALSE /\ picked = FALSE /\ uploading = FALSE /\ readOnly = FALSE
  /\ uploads = [b \in Batches |-> None]
  /\ parts = [p \in Paths |-> [b \in Batches |-> {}]]
  /\ prompts = [b \in Batches |-> 0]
  /\ reported = [b \in Batches |-> "no"]
  /\ whole = Batches
----------------------------------------------------------------------------
(* The card                                                                *)

Write ==
  /\ ~draft /\ draft' = TRUE
  /\ UNCHANGED <<card, picked, uploading, readOnly, uploads, mac, reported, whole>>

ChooseAttachments ==
  /\ ~picked /\ picked' = TRUE
  /\ UNCHANGED <<card, draft, uploading, readOnly, uploads, mac, reported, whole>>

OpenCard(a) ==
  /\ a # card /\ card' = a
  /\ draft' = FALSE /\ picked' = FALSE /\ uploading' = FALSE
  /\ UNCHANGED <<readOnly, uploads, mac, reported, whole>>

ReadOnly ==
  /\ readOnly' = ~readOnly
  /\ UNCHANGED <<card, draft, picked, uploading, uploads, mac, reported, whole>>

ComposerDisabled == readOnly \/ uploading

\* A prompt without files stays in the composer unless it was handed over.
SubmitText ==
  /\ draft /\ ~picked /\ ~ComposerDisabled
  /\ draft' \in BOOLEAN
  /\ UNCHANGED <<card, picked, uploading, readOnly, uploads, mac, reported, whole>>

Unused(b) == uploads[b] = None /\ reported[b] = "no"
\* createClientId: a batch of its own for every press of Send.
NewBatch(b) == Unused(b) /\ \A c \in Batches : c < b => ~Unused(c)

\* Batch b, sent from app a's card, is about to hand this chunk to a path.
GoesTo(b, a, p, f, c) ==
  uploads' = [uploads EXCEPT ![b] = [app |-> a, path |-> p, file |-> f, chunk |-> c]]

SubmitFiles(b) ==
  /\ picked /\ ~ComposerDisabled /\ NewBatch(b)
  /\ uploading' = TRUE
  /\ GoesTo(b, card, "none", 1, 1)
  /\ reported' = [reported EXCEPT ![b] = "no"]
  /\ UNCHANGED <<card, draft, picked, readOnly, mac, whole>>
----------------------------------------------------------------------------
(* The batch                                                               *)

\* The end of submit(), whichever card is on screen by then.
Sent(b) ==
  /\ reported' = [reported EXCEPT ![b] = "sent"]
  /\ uploads' = [uploads EXCEPT ![b] = None]
  /\ draft' = FALSE /\ picked' = FALSE /\ uploading' = FALSE

NotSentKeepsLock(b) ==
  /\ reported' = [reported EXCEPT ![b] = "failed"]
  /\ uploads' = [uploads EXCEPT ![b] = None]
  /\ UNCHANGED <<draft, picked, uploading>>

NotSent(b) ==
  /\ reported' = [reported EXCEPT ![b] = "failed"]
  /\ uploads' = [uploads EXCEPT ![b] = None]
  /\ uploading' = FALSE
  /\ UNCHANGED <<draft, picked>>

\* Each file asks again whether the page may control the Mac, and tries the
\* relay first.
StartFile(b) ==
  LET u == uploads[b] IN
    /\ u # None /\ u.path = "none"
    /\ IF readOnly
       THEN NotSent(b)
       ELSE GoesTo(b, u.app, "relay", u.file, u.chunk) /\ UNCHANGED <<draft, picked, uploading, reported>>
    /\ UNCHANGED <<card, readOnly, mac, whole>>

\* A path that refuses a chunk ends its attempt; the file starts anew on the
\* other path.  Reading a file that changed fails the same way.
PathRefuses(b) ==
  LET u == uploads[b] IN
    /\ u # None
    /\ whole' = whole \ {b}
    /\ IF u.path = "relay"
       THEN /\ GoesTo(b, u.app, "peer", u.file, 1)
            /\ UNCHANGED <<draft, picked, uploading, reported>>
       ELSE NotSent(b)
    /\ UNCHANGED <<card, readOnly, mac>>

\* What the Mac makes of a chunk: the last one it lacked completes the batch,
\* which becomes one prompt and leaves the table.
Received(p, b, piece) == parts[p][b] \cup {piece}
CompleteFile(pieces) == \E f \in 1 .. Files : \A c \in 1 .. Chunks : <<f, c>> \in pieces
Complete(pieces) == pieces = Pieces

Arrives(b, p, piece) ==
  LET pieces == Received(p, b, piece) IN
    /\ parts' = [parts EXCEPT ![p][b] = IF Complete(pieces) THEN {} ELSE pieces]
    /\ prompts' = [prompts EXCEPT ![b] = @ + IF Complete(pieces) THEN 1 ELSE 0]
    /\ UNCHANGED whole

Lost(b) == whole' = whole \ {b} /\ UNCHANGED mac

\* sendFileAttachment's loop, then the loop over the files.
SendChunk(b) ==
  LET u == uploads[b] IN
    /\ u # None /\ u.path # "none"
    /\ Arrives(b, u.path, <<u.file, u.chunk>>) \/ Lost(b)
    /\ \/ /\ u.chunk < Chunks
          /\ GoesTo(b, u.app, u.path, u.file, u.chunk + 1)
          /\ UNCHANGED <<draft, picked, uploading, reported>>
       \/ /\ u.chunk = Chunks /\ u.file < Files
          /\ GoesTo(b, u.app, "none", u.file + 1, 1)
          /\ UNCHANGED <<draft, picked, uploading, reported>>
       \/ u.chunk = Chunks /\ u.file = Files /\ Sent(b)
    /\ UNCHANGED <<card, readOnly>>

\* A table forgets a batch after its time, and the peer's with its session.
Forget(p, b) ==
  /\ parts[p][b] # {}
  /\ parts' = [parts EXCEPT ![p][b] = {}]
  /\ whole' = whole \ {b}
  /\ UNCHANGED <<composer, uploads, prompts, reported>>

Upload(b) == StartFile(b) \/ SendChunk(b) \/ PathRefuses(b)

Next ==
  \/ Write \/ ChooseAttachments \/ ReadOnly \/ SubmitText
  \/ \E a \in Apps : OpenCard(a)
  \/ \E b \in Batches : SubmitFiles(b) \/ Upload(b)
  \/ \E p \in Paths, b \in Batches : Forget(p, b)

Fairness == \A b \in Batches : WF_vars(Upload(b))

Spec == Init /\ [][Next]_vars /\ Fairness
----------------------------------------------------------------------------
(* A batch the page reports as failed never reaches the agent, not even    *)
(* later or by the other path: the person can send it again without        *)
(* sending it twice.  One it reports as sent becomes one prompt, if it     *)
(* used one path and nothing was lost.                                     *)
ReportIsTrue ==
  TypeOK /\ \A b \in Batches :
    /\ reported[b] = "failed" => prompts[b] = 0
    /\ reported[b] = "sent" /\ b \in whole => prompts[b] = 1

(* The composer of the card on screen is never left locked: an upload ends *)
(* and unlocks it whatever its paths do.                                   *)
Unlocks == uploading ~> ~uploading
=============================================================================
