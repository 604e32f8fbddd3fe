--------------------------- MODULE MCPhoneAccount ---------------------------
(***************************************************************************)
(* The phone's account, for TLC: one page's account and its list of Macs   *)
(* ("account"), and the session that the tabs of a browser share           *)
(* ("session").  In a behaviour one of them, `part', runs and the other    *)
(* stays as it began.  Of two accounts the first has the Mac.              *)
(***************************************************************************)
EXTENDS PhoneAccount
CONSTANTS a1, a2, Tabs, MaxTokens, MaxFailures
\* A token is a number; "none" is not.
ASSUME TokenAssumption == None \notin Nat /\ MaxTokens \in Nat

VARIABLES part, issued, store, page, read, events, revoking, failures, stranded

Session == INSTANCE AuthSession WITH server <- issued, tab <- page, faults <- failures

FirstOwner == [m \in Macs |-> a1]

sessionVars == <<issued, store, page, read, events, revoking, failures, stranded>>

InAccount(A) == part = "account" /\ A /\ UNCHANGED <<part, sessionVars>>

MCInit ==
  /\ part \in {"account", "session"} /\ Init /\ Session!Init
  /\ part = "session" => saved = None /\ session = None

MCNext ==
  \/ InAccount(Next)
  \/ part = "session" /\ Session!Next /\ UNCHANGED <<part, vars>>

MCSpec ==
  /\ MCInit /\ [][MCNext]_<<part, vars, sessionVars>>
  /\ WF_vars(InAccount(SyncMoves))
  /\ WF_vars(InAccount(RefreshMoves))

-----------------------------------------------------------------------------
(* The properties of the session; its module says what they are about.     *)

\* The tabs agree on who is signed in.
TabsAgree == Session!TabsAgree
\* A session leaves the browser only when it ended or its revocation is queued.
KeptUntilEnded == Session!KeptUntilEnded
=============================================================================
