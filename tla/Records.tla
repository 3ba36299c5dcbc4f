------------------------------- MODULE Records -------------------------------
(***************************************************************************)
(* Records in two places that must agree: five protocols of the repository *)
(* beside each other, one per behaviour (`focus`) while the variables of   *)
(* the others stand still:                                                 *)
(*   "address"   which meeting an address opens;                           *)
(*   "devices"   the sessions of one account, here and at Clerk:           *)
(*               DeviceSessions itself; the others are instances;          *)
(*   "one call"  an automation rule and its alert;                         *)
(*   "refund"    the refunds of one sale, here and at Stripe;              *)
(*   "meeting"   a meeting's record and its room at LiveKit.               *)
(* They share no state; they are checked, and proved about, in one place.  *)
(***************************************************************************)
EXTENDS DeviceSessions

CONSTANTS
  Requests, Apart,                                      \* of SlugIndex and Refunds
  Events, Leftover, Slugs, MaxBegun,                    \* of SlugIndex
  Price, MaxRequests, MaxErrors, Slow,                  \* of Refunds
  Subjects, Calls, CallKinds, MaxPerRun, Threshold,     \* of Automation
  MaxCalls, MaxFaults, MaxSkips, Overlap,
  MaxDeaths,                                            \* of Automation and Refunds
  IsPermanent, ScheduledAt, EarlyStart, Grace, Ops,     \* of MeetingRecord
  Handlers, InitState, LastTime, MaxOps, MaxSessions, LossyHooks

VARIABLES
  focus,
  event, index, copies, used, work, ops,
  active, state, lock, claims, done, alert, call, calls, faults, skips, deaths, lastRun,
  sale, refundLock, sent, request, mirror, heard, requests, died, errors,
  time, ev, room, hooks, handler, opsLeft, sessions, pressed

Address == INSTANCE SlugIndex WITH MaxOps <- MaxBegun, req <- work
OneCall == INSTANCE Automation WITH
  Kinds <- CallKinds, MaxFailures <- MaxFaults, failures <- faults
Refund == INSTANCE Refunds
Meeting == INSTANCE MeetingRecord WITH
  Requests <- Handlers, MaxTime <- LastTime, clock <- time, req <- handler

addressVars == <<event, index, copies, used, work, ops>>
ruleVars ==
  <<active, state, lock, claims, done, alert, call, calls, faults, skips, deaths, lastRun>>
refundVars == <<sale, refundLock, sent, request, mirror, heard, requests, died, errors>>
meetingVars == <<time, ev, room, hooks, handler, opsLeft, sessions, pressed>>
recordsVars == <<focus, vars, addressVars, ruleVars, refundVars, meetingVars>>

RecordsInit ==
  /\ focus \in {"address", "devices", "one call", "refund", "meeting"}
  /\ Init /\ Address!Init /\ OneCall!Init /\ Refund!Init /\ Meeting!Init
  /\ focus # "one call" => ~active

RecordsNext ==
  /\ UNCHANGED focus
  /\ \/ /\ focus = "devices" /\ Next
        /\ UNCHANGED <<addressVars, ruleVars, refundVars, meetingVars>>
     \/ /\ focus = "address" /\ Address!Next
        /\ UNCHANGED <<vars, ruleVars, refundVars, meetingVars>>
     \/ /\ focus = "one call" /\ OneCall!Next
        /\ UNCHANGED <<vars, addressVars, refundVars, meetingVars>>
     \/ /\ focus = "refund" /\ Refund!Next
        /\ UNCHANGED <<vars, addressVars, ruleVars, meetingVars>>
     \/ /\ focus = "meeting" /\ Meeting!Next
        /\ UNCHANGED <<vars, addressVars, ruleVars, refundVars>>

\* MeetingRecord's fairness, of the behaviours in which it moves.
MeetingFairness ==
  /\ WF_meetingVars(focus = "meeting" /\ Meeting!Tick)
  /\ \A r \in Handlers :
       /\ WF_meetingVars(focus = "meeting" /\ Meeting!Steps(r))
       /\ WF_meetingVars(focus = "meeting" /\ Meeting!Receives(r))
       /\ WF_meetingVars(focus = "meeting" /\ Meeting!BeginSweep(r))

RecordsSpec == RecordsInit /\ [][RecordsNext]_recordsVars /\ MeetingFairness

----------------------------------------------------------------------------

\* Every variable of every protocol has its type.
TypesOK == TypeOK /\ Address!TypeOK /\ OneCall!TypeOK /\ Refund!TypeOK /\ Meeting!TypeOK

\* SlugIndex: an address goes on opening the meeting that it opens.
AddressKept == [][focus = "address" => Address!KeepsAddresses]_recordsVars

\* Automation: a good run ends the failing and closes the alert.
GoodRunClears == focus = "one call" => OneCall!GoodRunClears

\* Refunds: the sale's record and Stripe's come to agree.
RecordSettles == Refund!RecordSettles

\* MeetingRecord: one that its host ended stays ended.
EndedOnPurposeStays == [][focus = "meeting" => Meeting!KeepsEnd]_recordsVars

\* MeetingRecord: one left live with its room gone for good is closed.
StaleMeetingCloses == focus = "meeting" => Meeting!StaleMeetingCloses
=============================================================================
