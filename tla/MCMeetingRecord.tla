-------------------------- MODULE MCMeetingRecord --------------------------
(***************************************************************************)
(* MeetingRecord with the constants TLC needs.  There are two kinds of     *)
(* behaviour, one per meeting (`focus`), while the other's variables stand *)
(* still:                                                                  *)
(*   "scheduled"    a scheduled meeting, with the constants of the run;    *)
(*   "always open"  a permanent room that an older release stored as       *)
(*                  ended: one request at a time, LiveKit's calls lost.    *)
(***************************************************************************)
EXTENDS MeetingRecord, TLC

CONSTANTS r1, r2

VARIABLES
  focus,
  time, meeting, open, calls, handler, left, opened, made

Room == INSTANCE MeetingRecord WITH
  IsPermanent <- TRUE, InitState <- "ended", LossyHooks <- TRUE,
  Requests <- {"r"}, Ops <- AllOps, MaxOps <- 3,
  clock <- time, ev <- meeting, room <- open, hooks <- calls, req <- handler,
  opsLeft <- left, sessions <- opened, pressed <- made

roomVars == <<time, meeting, open, calls, handler, left, opened, made>>

MeetingsInit == focus \in {"scheduled", "always open"} /\ Init /\ Room!Init

MeetingsNext ==
  /\ UNCHANGED focus
  /\ \/ focus = "scheduled" /\ Next /\ UNCHANGED roomVars
     \/ focus = "always open" /\ Room!Next /\ UNCHANGED vars

MeetingsSpec == MeetingsInit /\ [][MeetingsNext]_<<focus, vars, roomVars>>

\* Requests are interchangeable; used only where no liveness is checked.
Symmetry == Permutations({r1, r2})

----------------------------------------------------------------------------

\* Once a join or a start has reopened the permanent room, neither
\* LiveKit's room_finished nor a sweep ends it again.
ReopenedStaysOpen == Room!AlwaysOpenStaysOpen
=============================================================================
