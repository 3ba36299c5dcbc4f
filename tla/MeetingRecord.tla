--------------------------- MODULE MeetingRecord ---------------------------
(***************************************************************************)
(* One stored meeting and the request handlers that change it.             *)
(*                                                                         *)
(* eventStore.update reads the whole record from KV, patches it and writes *)
(* it back whole; nothing locks it.  Every handler also reads the record   *)
(* once before that, to decide whether to go on.  So a request is up to    *)
(* three KV steps (first read, second read, write) and other requests run  *)
(* between them.  A request holds what it has read so far.                 *)
(*                                                                         *)
(* LiveKit is external: it opens a room when someone connects, closes it   *)
(* when it has emptied or was deleted, and tells the webhook route.  What  *)
(* it says may arrive late, out of order, or never.                        *)
(***************************************************************************)
EXTENDS Lifecycle

CONSTANTS
  Requests,      \* requests that may be in flight at once
  Ops,           \* the kinds of request this instance receives
  InitState,     \* the state the meeting is found in
  MaxTime,       \* bound: the clock stops here
  MaxOps,        \* bound: how many people's requests are made
  MaxSessions,   \* bound: how often the room is opened
  LossyHooks     \* whether LiveKit's calls may be lost

AllOps == {"start", "end", "archive", "edit", "join"}

ASSUME RecordAssumption ==
  /\ Ops \subseteq AllOps
  /\ InitState \in States
  /\ MaxTime \in Nat /\ MaxOps \in Nat /\ MaxSessions \in Nat
  /\ LossyHooks \in BOOLEAN

VARIABLES
  clock,
  ev,        \* the record in KV
  room,      \* whether LiveKit has the room open
  hooks,     \* LiveKit's calls not yet received: kind, and when it happened
  req,       \* each request: what it is doing and what it has read
  opsLeft, sessions,   \* the bounds' counters
  pressed    \* history: the people's requests that have been written

vars == <<clock, ev, room, hooks, req, opsLeft, sessions, pressed>>

Hooks == [kind : {"room_started", "room_finished"}, at : Nat]

\* A request: `at` and `now` are times it has taken, `read` the copy its
\* first read returned while that is still needed, `prev` the copy update
\* patches.
OpNames == AllOps \cup {"none", "room_started", "room_finished", "clear", "sweep"}
Pcs == {"idle", "reread", "write", "decide", "list_rooms", "delete_room"}
Reqs == [op : OpNames, pc : Pcs, at : Times, now : Times, read : Records, prev : Records]

Blank == [state |-> "scheduled", endedBy |-> "nobody", startedAt |-> None]
Request(op, pc, at, now, read, prev) ==
  [op |-> op, pc |-> pc, at |-> at, now |-> now, read |-> read, prev |-> prev]
Idle == Request("none", "idle", None, None, Blank, Blank)

\* Nothing is started within Grace of MaxTime, so that every meeting can
\* still grow old enough to be swept.
TimeLeft == clock + Grace <= MaxTime

Init ==
  /\ clock = 0
  /\ ev = [state |-> InitState, startedAt |-> IF InitState = "live" THEN 0 ELSE None,
           endedBy |-> IF InitState = "ended" THEN "room_empty" ELSE "nobody"]
  /\ room = FALSE
  /\ hooks = {}
  /\ req = [r \in Requests |-> Idle]
  /\ opsLeft = MaxOps
  /\ sessions = 0
  /\ pressed = {}

Tick ==
  /\ clock < MaxTime
  /\ clock' = clock + 1
  /\ UNCHANGED <<ev, room, hooks, req, opsLeft, sessions, pressed>>

----------------------------------------------------------------------------
(* LiveKit.                                                                *)

RoomOpens ==
  /\ ~room /\ TimeLeft /\ sessions < MaxSessions
  /\ room' = TRUE
  /\ sessions' = sessions + 1
  /\ hooks' = hooks \cup {[kind |-> "room_started", at |-> clock]}
  /\ UNCHANGED <<clock, ev, req, opsLeft, pressed>>

RoomCloses ==
  /\ room
  /\ room' = FALSE
  /\ hooks' = hooks \cup {[kind |-> "room_finished", at |-> clock]}
  /\ UNCHANGED <<clock, ev, req, opsLeft, sessions, pressed>>

HookLost ==
  /\ LossyHooks
  /\ \E h \in hooks : hooks' = hooks \ {h}
  /\ UNCHANGED <<clock, ev, room, req, opsLeft, sessions, pressed>>

----------------------------------------------------------------------------
(* The first read.  Each Begin takes a free request, reads ev and applies  *)
(* the handler's early returns; what follows is the update.                *)

Take(r, next) == req[r] = Idle /\ req' = [req EXCEPT ![r] = next]

\* A handler about to update, having decided on its first read.
Reread(op, at, now) == Request(op, "reread", at, now, Blank, Blank)

\* A handler whose first read decides nothing, in the middle of its update.
Updating(op) == Request(op, "write", None, None, Blank, ev)

\* The end route once it no longer touches the record.
DeletingRoom == Request("end", "delete_room", None, None, Blank, Blank)

\* room_finished, before and after the waiting room has been cleared.
Clearing(read) == Request("clear", "reread", None, None, read, Blank)
Deciding(read) == Request("room_finished", "decide", None, None, read, Blank)

\* A person's request: counted against the bound.
Asked(op) ==
  /\ op \in Ops /\ TimeLeft
  /\ opsLeft > 0 /\ opsLeft' = opsLeft - 1
  /\ UNCHANGED <<clock, ev, room, hooks, sessions, pressed>>

\* POST /api/events/[id]/start: refused only for an archived meeting.
BeginStart(r) ==
  /\ Asked("start")
  /\ ev.state # "archived"
  /\ Take(r, Reread("start", clock, None))

\* POST /api/events/[id]/end: an always-open room is only emptied.
BeginEnd(r) ==
  /\ Asked("end")
  /\ Take(r, IF CanEnd(ev) THEN Updating("end") ELSE DeletingRoom)

\* POST /api/events/delete with mode 'archive'.
BeginArchive(r) == Asked("archive") /\ Take(r, Updating("archive"))

\* Any other handler that saves the meeting (waiting room, lock, edits):
\* it leaves these fields as it read them, and writes them back.
BeginEdit(r) == Asked("edit") /\ Take(r, Updating("edit"))

\* A token request for an always-open room stored as ended.
BeginJoin(r) ==
  /\ Asked("join")
  /\ ReopensOnJoin(ev)
  /\ Take(r, Reread("join", None, None))

\* room_started: `now` and the first decision are taken before the update.
ReceiveRoomStarted(r) ==
  \E h \in hooks :
    /\ h.kind = "room_started"
    /\ hooks' = hooks \ {h}
    /\ req[r] = Idle
    /\ req' = IF ev.startedAt # None /\ ~GoesLiveWhenRoomStarts(ev, clock)
              THEN req
              ELSE [req EXCEPT ![r] = Reread("room_started", h.at, clock)]
    /\ UNCHANGED <<clock, ev, room, opsLeft, sessions, pressed>>

\* room_finished: the waiting room is cleared first, when there is anything
\* in it to clear, with an update of its own; the decision to end is taken
\* after that, on the copy read here.
ReceiveRoomFinished(r) ==
  \E h \in hooks, clears \in BOOLEAN :
    /\ h.kind = "room_finished"
    /\ hooks' = hooks \ {h}
    /\ req[r] = Idle
    /\ req' = [req EXCEPT ![r] = IF clears THEN Clearing(ev) ELSE Deciding(ev)]
    /\ UNCHANGED <<clock, ev, room, opsLeft, sessions, pressed>>

DecideRoomFinished(r) ==
  /\ req[r].op = "room_finished" /\ req[r].pc = "decide"
  /\ req' = [req EXCEPT ![r] = IF EndsWhenRoomFinishes(req[r].read, clock)
                               THEN Reread("room_finished", None, None) ELSE Idle]
  /\ UNCHANGED <<clock, ev, room, hooks, opsLeft, sessions, pressed>>

\* sweepStaleMeetings: `now`, then every event is listed, then the rooms.
\* (When the rooms cannot be listed nothing is changed: that sweep is as if
\* it had not begun.)
BeginSweep(r) ==
  /\ IsInProgress(ev)
  /\ Take(r, Request("sweep", "list_rooms", None, clock, ev, Blank))
  /\ UNCHANGED <<clock, ev, room, hooks, opsLeft, sessions, pressed>>

DecideSweep(r) ==
  /\ req[r].op = "sweep" /\ req[r].pc = "list_rooms"
  /\ req' = [req EXCEPT ![r] = IF SweepEnds(req[r].read, room, req[r].now)
                               THEN Reread("sweep", None, None) ELSE Idle]
  /\ UNCHANGED <<clock, ev, room, hooks, opsLeft, sessions, pressed>>

----------------------------------------------------------------------------
(* eventStore.update: GET, patch, SET.                                     *)

UpdateRead(r) ==
  /\ req[r].pc = "reread"
  /\ req' = [req EXCEPT ![r].pc = "write", ![r].prev = ev]
  /\ UNCHANGED <<clock, ev, room, hooks, opsLeft, sessions, pressed>>

\* The patch of each handler, on the copy UpdateRead returned.  Only
\* room_started decides again on that copy.
Patched(q) ==
  CASE q.op = "start" -> WentLive(q.prev, q.at)
    [] q.op = "room_started" /\ GoesLiveWhenRoomStarts(q.prev, q.now) -> WentLive(q.prev, q.at)
    [] q.op = "room_started" /\ ~GoesLiveWhenRoomStarts(q.prev, q.now) -> NotedStart(q.prev, q.at)
    [] q.op = "end" -> EndedAs(q.prev, "host")
    [] q.op \in {"room_finished", "sweep"} -> EndedAs(q.prev, "room_empty")
    [] q.op = "archive" -> Archived(q.prev)
    [] q.op = "join" -> Reopened(q.prev)
    [] q.op \in {"edit", "clear"} -> q.prev

UpdateWrite(r) ==
  /\ req[r].pc = "write"
  /\ ev' = Patched(req[r])
  /\ req' = [req EXCEPT ![r] =
       CASE @.op = "end" -> DeletingRoom
         [] @.op = "clear" -> Deciding(@.read)
         [] OTHER -> Idle]
  /\ pressed' = pressed \cup ({req[r].op} \cap AllOps)
  /\ UNCHANGED <<clock, room, hooks, opsLeft, sessions>>

\* The end route then disconnects whoever is in the room; a failure is
\* only logged.
DeleteRoom(r) ==
  /\ req[r].pc = "delete_room"
  /\ req' = [req EXCEPT ![r] = Idle]
  /\ \/ /\ room' = FALSE
        /\ hooks' = IF room THEN hooks \cup {[kind |-> "room_finished", at |-> clock]} ELSE hooks
     \/ UNCHANGED <<room, hooks>>
  /\ UNCHANGED <<clock, ev, opsLeft, sessions, pressed>>

Steps(r) ==
  \/ DecideRoomFinished(r) \/ DecideSweep(r)
  \/ UpdateRead(r) \/ UpdateWrite(r) \/ DeleteRoom(r)

Receives(r) == ReceiveRoomStarted(r) \/ ReceiveRoomFinished(r)

Next ==
  \/ Tick \/ RoomOpens \/ RoomCloses \/ HookLost
  \/ \E r \in Requests :
       \/ BeginStart(r) \/ BeginEnd(r) \/ BeginArchive(r) \/ BeginEdit(r) \/ BeginJoin(r)
       \/ Receives(r) \/ BeginSweep(r)
       \/ Steps(r)

Spec == Init /\ [][Next]_vars

\* Time passes and a request that has begun runs on (a serverless call is
\* not cut off between two KV calls); a call from LiveKit that is not lost
\* is received; and, as every load of the meetings list may sweep, sweeps
\* keep coming.  Nobody has to press anything or join.
Fairness ==
  /\ WF_vars(Tick)
  /\ \A r \in Requests :
       /\ WF_vars(Steps(r))
       /\ WF_vars(Receives(r))
       /\ WF_vars(BeginSweep(r))

FairSpec == Spec /\ Fairness
----------------------------------------------------------------------------
(* Properties.                                                             *)

\* Every variable has its type.
TypeOK ==
  /\ clock \in 0..MaxTime
  /\ ev \in Records
  /\ room \in BOOLEAN
  /\ hooks \subseteq Hooks
  /\ req \in [Requests -> Reqs]
  /\ opsLeft \in 0..MaxOps /\ sessions \in 0..MaxSessions
  /\ pressed \subseteq AllOps

\* A record makes sense by itself: a live meeting has a start and no end on
\* it, an ended one says how it ended.  The token route (rejoining keeps or
\* drops roles), the sweep (how long it has run) and the webhook (does it
\* come back on) all read one field to judge another.  It must survive
\* whole-record writes of stale copies.
RecordMakesSense(e) ==
  /\ e.state = "live" => e.startedAt # None /\ e.endedBy = "nobody"
  /\ e.state = "ended" => e.endedBy # "nobody"

Coherent == ~IsPermanent => RecordMakesSense(ev)

\* Coherent is kept because every copy in flight makes sense too, and a
\* request that will set a start has the time to set.
CopiesMakeSense ==
  ~IsPermanent =>
    /\ RecordMakesSense(ev)
    /\ \A r \in Requests :
         /\ RecordMakesSense(req[r].read) /\ RecordMakesSense(req[r].prev)
         /\ req[r].op \in {"start", "room_started"} => req[r].at # None
         /\ req[r].op # "join"

\* "A host checking tomorrow's room today must not make it live, or their
\* leaving would end it": before the early window, while nobody has pressed
\* Start or End, a scheduled meeting is still scheduled (or archived),
\* however often its room has been opened and emptied.
OnlyLookedIn ==
  InitState = "scheduled" /\ ScheduledAt - clock > EarlyStart /\ pressed \cap {"start", "end"} = {}
LookingInIsHarmless == OnlyLookedIn => ev.state \in {"scheduled", "archived"}

\* ... because no copy in flight says otherwise, and neither webhook nor
\* sweep has decided to move it.
NothingMovesItEarly ==
  OnlyLookedIn =>
    /\ ev.state \in {"scheduled", "archived"}
    /\ \A r \in Requests :
         /\ req[r].read.state \in {"scheduled", "archived"}
         /\ req[r].prev.state \in {"scheduled", "archived"}
         /\ req[r].op = "room_started" => req[r].now <= clock
         /\ req[r].op = "room_finished" => req[r].pc = "decide"
         /\ req[r].op \notin {"sweep", "join"}

\* One ended on purpose stays ended (meetingLifecycle.ts): whatever LiveKit
\* says later, it stays ended by the host until someone starts or archives
\* it.
EndedOnPurpose == ev.state = "ended" /\ ev.endedBy = "host"
Wrote(op) ==
  \E r \in Requests : req[r].op = op /\ req[r].pc = "write" /\ req'[r].pc # "write"
KeepsEnd == EndedOnPurpose => EndedOnPurpose' \/ Wrote("start") \/ Wrote("archive")
EndedOnPurposeStays == [][KeepsEnd]_vars

\* A room that is always open never becomes an ended meeting, whoever
\* empties it; one an older release stored as ended stays open once a join
\* has reopened it.
AlwaysOpenStaysOpen ==
  [][IsPermanent /\ ev.state # "ended" => ev'.state # "ended"]_vars

\* A meeting left marked live with its room gone for good is closed in the
\* end, even when LiveKit's calls are lost.
StaleMeetingCloses == ~IsPermanent /\ <>[](~room) => []<>(ev.state # "live")
=============================================================================
