-------------------------- MODULE MCAccountService --------------------------
(***************************************************************************)
(* For TLC: the account service's tables under any calls ("tables"); the   *)
(* access of one browser to one Mac, kept by the hub, the relay, the Mac   *)
(* and the service together ("access"); and a link code that waits for a   *)
(* new password in one browser ("codes").  In a behaviour one of them,     *)
(* `part', runs and the others stay as they began.                         *)
(***************************************************************************)
EXTENDS AccountService, TLC

CONSTANTS a1, a2, h1, b1, k1, k2,
  Waiting, Lost, Tasks, Workloads, Failing, MaxLosses, MaxRebuilds,
  Tabs, None, PageCodes, MaxAge, MaxNow, MaxAsked

\* "No code" and "no address" are told from codes and addresses.
ASSUME CodeAssumption == None \notin PageCodes \cup Accounts
\* The pair is a Mac and a browser of the account; a lost answer is none.
ASSUME PairAssumption ==
  a1 \in Accounts /\ h1 \in Hosts \ Browsers /\ b1 \in Browsers \ Hosts /\ Lost # TRUE

VARIABLES
  part,
  granted, rows, denied, phoneAuth, hostAuth, relayDenied, tombstone, signedIn, queued, on,
  task, late, left, faults, clock, confirmed, restored, giving, leaked,
  tab, kept, session, now, asked, opened, named, taken

Access == INSTANCE PairAccess WITH
  plane <- granted, Account <- a1, Mac <- h1, Phone <- b1
Links == INSTANCE LinkCodes WITH restored <- taken, Codes <- PageCodes

accessVars == <<granted, rows, denied, phoneAuth, hostAuth, relayDenied, tombstone, signedIn,
                queued, on, task, late, left, faults, clock, confirmed, restored, giving, leaked>>
linkVars == <<tab, kept, session, now, asked, opened, named, taken>>
allVars == <<part, plane, accessVars, linkVars>>

\* What is asked of the pair: how often each kind of work starts.
Work(revoke, signin, register, claim, phone, host) ==
  [revoke |-> revoke, signin |-> signin, register |-> register, claim |-> claim,
   phone |-> phone, host |-> host, ask |-> 0, expire |-> 0, approve |-> 0, reject |-> 0]
Approvals(ask, expire, approve, reject, revoke) ==
  [Work(revoke, 0, 0, 0, 0, 0) EXCEPT !["ask"] = ask, !["expire"] = expire,
     !["approve"] = approve, !["reject"] = reject]
Mixed == {Work(1, 1, 1, 0, 1, 0), Work(1, 0, 0, 0, 1, 1), Work(1, 0, 0, 1, 2, 0),
          Work(2, 0, 0, 1, 0, 0),
          Approvals(1, 1, 1, 1, 0), Approvals(2, 0, 1, 0, 1),
          [Approvals(1, 0, 1, 0, 1) EXCEPT !["claim"] = 1]}

MCInit ==
  /\ part \in {"tables", "access", "codes"} /\ Init /\ Access!Init /\ Links!Init
  /\ part # "access" => left = Work(2, 0, 0, 1, 0, 0)

MCNext ==
  \/ part = "tables" /\ Next /\ UNCHANGED <<part, accessVars, linkVars>>
  \/ part = "access" /\ Access!Next /\ UNCHANGED <<part, plane, linkVars>>
  \/ part = "codes" /\ Links!Next /\ UNCHANGED <<part, plane, accessVars>>

MCSpec == MCInit /\ [][MCNext]_allVars

-----------------------------------------------------------------------------
(* The properties of the other parts; their modules say what they are      *)
(* about.                                                                  *)

\* What a person was told about a browser's access holds everywhere.
ConfirmedHolds == Access!ConfirmedHolds
\* The pair's handlers change the service's tables by its mutations only.
AccessImplementsService == Access!ImplementsService
\* A kept link code serves the person it was shown to, once.
HeldForItsAccount == Links!HeldForItsAccount
=============================================================================
