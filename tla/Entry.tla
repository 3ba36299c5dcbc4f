-------------------------------- MODULE Entry --------------------------------
(***************************************************************************)
(* Who gets in, and who is counted as having been there: three protocols   *)
(* of the repository beside each other, one of them per behaviour          *)
(* (`focus`) while the variables of the others stand still:                *)
(*   "waiting"  the waiting room, requests made one at a time;             *)
(*   "heard"    the waiting room, requests overlapping;                    *)
(*   "code"     one join code, requests overlapping;                       *)
(*   "prayer"   a partner zone's sessions: PrayerSessions itself; the      *)
(*              others are instances.                                      *)
(* They share no state; they are checked, and proved about, in one place.  *)
(***************************************************************************)
EXTENDS PrayerSessions

CONSTANTS
  Handlers, MaxOps,                        \* of WaitingRoom
  People, Invited, HostOps, MaxSessions,   \* with requests one at a time
  Askers, AnyOps, MaxHeard,                \* with requests overlapping
  Devices, MaxJoins, MaxStaff, MaxDrops    \* of JoinCodes

VARIABLES
  focus,
  rec, knocking, room, inside, tokens, hooks, sessions, asking, opsLeft, letIn, vouched,
  holder, mark, locked, page, staff, now, joins, acts, drops, signedOut

Waiting == INSTANCE WaitingRoom WITH
  Requests <- Handlers, Ops <- HostOps, Serial <- TRUE, req <- asking
Heard == INSTANCE WaitingRoom WITH
  People <- Askers, Invited <- {}, Requests <- Handlers, Ops <- AnyOps,
  MaxSessions <- MaxHeard, Serial <- FALSE, req <- asking
Code == INSTANCE JoinCodes

waitingVars ==
  <<rec, knocking, room, inside, tokens, hooks, sessions, asking, opsLeft, letIn, vouched>>
codeVars == <<holder, mark, locked, page, staff, now, joins, acts, drops, signedOut>>
entryVars == <<focus, vars, waitingVars, codeVars>>

EntryInit ==
  /\ focus \in {"waiting", "heard", "code", "prayer"}
  /\ IF focus = "heard" THEN Heard!Init ELSE Waiting!Init
  /\ Init /\ Code!Init

EntryNext ==
  /\ UNCHANGED focus
  /\ \/ focus = "waiting" /\ Waiting!Next /\ UNCHANGED <<vars, codeVars>>
     \/ focus = "heard" /\ Heard!Next /\ UNCHANGED <<vars, codeVars>>
     \/ focus = "code" /\ Code!Next /\ UNCHANGED <<vars, waitingVars>>
     \/ focus = "prayer" /\ Next /\ UNCHANGED <<waitingVars, codeVars>>

\* WaitingRoom's fairness, of the behaviours in which it moves.
HeardFairness ==
  /\ \A p \in Askers :
       /\ WF_waitingVars(focus = "heard" /\ Heard!BeginKnock(p))
       /\ WF_waitingVars(focus = "heard" /\ Heard!KnockSteps(p))
       /\ WF_waitingVars(focus = "heard" /\ Heard!RefusalSpent(p))
  /\ \A s \in Askers \cup Handlers : WF_waitingVars(focus = "heard" /\ Heard!UpdateSteps(s))

\* JoinCodes' fairness: requests run on, and a joined page asks every ten
\* seconds.  In the other behaviours nothing of it is enabled.
EntrySpec ==
  EntryInit /\ [][EntryNext]_entryVars /\ Code!Fairness /\ HeardFairness

----------------------------------------------------------------------------

\* Every variable of every protocol has its type.
TypesOK ==
  /\ IF focus = "heard" THEN Heard!TypeOK ELSE Waiting!TypeOK
  /\ Code!TypeOK /\ TypeOK

\* WaitingRoom: an admission lasts for one session.
AdmissionEnds == focus = "waiting" => Waiting!AdmissionEnds

\* WaitingRoom: what a host answered stands.
AnswersStand == [][focus = "waiting" => Waiting!KeepsAnswers]_entryVars

\* WaitingRoom: who keeps knocking is heard.
AskersAreHeard == focus = "heard" => Heard!AskersAreHeard

\* JoinCodes: while somebody holds the code, one camera is left in the end.
SettlesOnOneCamera == focus = "code" => Code!SettlesOnOneCamera

\* JoinCodes: a sign-out reaches every page that had joined.
SignedOutStops == focus = "code" => Code!SignedOutStops
=============================================================================
