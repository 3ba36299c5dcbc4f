----------------------------- MODULE Lifecycle -----------------------------
(***************************************************************************)
(* The judgements of lib/meetingLifecycle.ts, on the part of a NeoEvent    *)
(* they read: its state, who ended it, when it started.  Times are         *)
(* naturals, None a field that is absent.  'waiting' and 'replay' are in   *)
(* the type but nothing in the code writes them, so they are left out of   *)
(* States; endedAt is written and cleared together with endedBy, and       *)
(* updatedAt is only a fallback the code below never reaches (see          *)
(* Coherent in MeetingRecord), so neither is carried.                      *)
(***************************************************************************)
EXTENDS Integers

CONSTANTS
  IsPermanent,   \* an always-open personal room
  ScheduledAt,   \* when the meeting is due
  EarlyStart,    \* EARLY_START_MS
  Grace          \* DEFAULT_GRACE_MS

ASSUME LifecycleAssumption ==
  /\ IsPermanent \in BOOLEAN
  /\ ScheduledAt \in Nat /\ EarlyStart \in Nat /\ Grace \in Nat

None == -1
Times == Nat \cup {None}

States == {"scheduled", "live", "ended", "archived"}
EndedBy == {"nobody", "host", "room_empty"}
Records == [state : States, endedBy : EndedBy, startedAt : Times]

IsInProgress(ev) == ev.state = "live"

CanEnd(ev) == ~IsPermanent

\* Mutant: forgets who ended it.
EndedByAnyone(ev) == ev.state = "ended"

EndedByEmptyRoom(ev) == ev.state = "ended" /\ ev.endedBy = "room_empty"

\* Mutant: forgets that the meeting must be due.
GoesLiveWheneverRoomStarts(ev, now) == EndedByEmptyRoom(ev) \/ ev.state = "scheduled"

GoesLiveWhenRoomStarts(ev, now) ==
  \/ EndedByEmptyRoom(ev)
  \/ ev.state = "scheduled" /\ ScheduledAt - now <= EarlyStart

\* Mutant: forgets always-open rooms.
EndsEvenPermanent(ev, now) == IsInProgress(ev) \/ (ev.state = "scheduled" /\ ScheduledAt <= now)

EndsWhenRoomFinishes(ev, now) ==
  /\ CanEnd(ev)
  /\ \/ IsInProgress(ev)
     \/ ev.state = "scheduled" /\ ScheduledAt <= now

ReopensOnJoin(ev) == ~CanEnd(ev) /\ ev.state = "ended"

\* Mutant: asks for the room instead of for its absence.
SweepEndsActive(ev, roomOpen, now) ==
  IsInProgress(ev) /\ CanEnd(ev) /\ roomOpen /\ ev.startedAt # None /\ now - ev.startedAt >= Grace

\* decideSweep for one event: in progress, no room, past the grace period.
SweepEnds(ev, roomOpen, now) ==
  /\ IsInProgress(ev) /\ CanEnd(ev)
  /\ ~roomOpen
  /\ ev.startedAt # None
  /\ now - ev.startedAt >= Grace

----------------------------------------------------------------------------
(* What each writer makes of the stored copy it was given.                 *)

\* Mutant: a restart that keeps the old end.
WentLiveOverEnd(prev, at) ==
  [prev EXCEPT !.state = "live", !.startedAt = IF @ = None THEN at ELSE @]

WentLive(prev, at) ==
  [state |-> "live", endedBy |-> "nobody",
   startedAt |-> IF prev.startedAt = None THEN at ELSE prev.startedAt]

NotedStart(prev, at) ==
  [prev EXCEPT !.startedAt = IF @ = None THEN at ELSE @]

\* Mutant: the two fields swapped.
EndedAsSwapped(prev, who) == [prev EXCEPT !.state = who, !.endedBy = "ended"]

EndedAs(prev, who) == [prev EXCEPT !.state = "ended", !.endedBy = who]

Archived(prev) == [prev EXCEPT !.state = "archived"]

Reopened(prev) == [prev EXCEPT !.state = "live"]
=============================================================================
