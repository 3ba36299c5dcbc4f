--------------------------- MODULE PrayerSessions ---------------------------
(***************************************************************************)
(* lib/partners/attendance.ts: the prayer sessions of one partner zone and *)
(* the connections recorded in them.  LiveKit's webhook says who came and  *)
(* went, the visitors' pages say that they are still on; both are received *)
(* late, more than once and in any order, and each call is several KV      *)
(* calls with others between them.                                         *)
(*                                                                         *)
(* The zone has a pointer to its current session, which is the only way    *)
(* from the zone to a session that has not ended.  Times are left out but  *)
(* for one: a session in which nothing has happened for ten minutes is     *)
(* stale.  So are retention, the reports' indexes, the cap of 300          *)
(* connections per person, and giving up after eight lost races.           *)
(***************************************************************************)
EXTENDS Integers

CONSTANTS
  Sessions,     \* ids that are drawn
  Connections,  \* LiveKit's ids of visitors' connections
  Requests,     \* calls that are handled at once
  MaxCalls,     \* bound: how many are made
  MaxStale,     \* bound: how often a session goes stale
  Apart         \* whether nobody reads the pointer before what it names is written

VARIABLES
  pointer,   \* the zone's current session
  session,   \* each session's record: "none", "open", "ended"
  stale,     \* the open ones that are stale
  belongs,   \* the session a connection belongs to
  recorded,  \* <<session, connection>>: it started
  left,      \* <<session, connection>>: it ended
  here, came,  \* LiveKit: which connections are on, and which have been
  req,       \* each call: what it does, where it is, what it has read
  calls, lulls          \* the bounds' counters

livekit == <<here, came>>
vars == <<pointer, session, stale, belongs, recorded, left, livekit, req, calls, lulls>>

SessionOrNone == Sessions \cup {"none"}
Ops == {"none", "opened", "host", "beat", "left", "look", "finished"}
Pcs == {"idle", "mapped", "verify", "pointer", "current", "stale", "move", "write",
        "map", "record", "end", "close", "touch"}

Somebody == CHOOSE c \in Connections : TRUE
Idle == [op |-> "none", pc |-> "idle", who |-> Somebody, s |-> "none", old |-> "none"]

Init ==
  /\ pointer = "none"
  /\ session = [s \in Sessions |-> "none"]
  /\ stale = {}
  /\ belongs = [c \in Connections |-> "none"]
  /\ recorded = {} /\ left = {}
  /\ here = {} /\ came = {}
  /\ req = [r \in Requests |-> Idle]
  /\ calls = 0 /\ lulls = 0

Begins(r, op, pc, who, s) ==
  /\ req[r] = Idle /\ calls < MaxCalls /\ calls' = calls + 1
  /\ req' = [req EXCEPT ![r] = [op |-> op, pc |-> pc, who |-> who, s |-> s, old |-> "none"]]

Goes(r, pc) == req' = [req EXCEPT ![r].pc = pc]
GoesWith(r, pc, s) == req' = [req EXCEPT ![r].pc = pc, ![r].s = s]
Done(r) == req' = [req EXCEPT ![r] = Idle]

IsOpen(s) == s # "none" /\ session[s] = "open"

----------------------------------------------------------------------------
(* LiveKit.                                                                *)

Connect(c) ==
  /\ c \notin came
  /\ here' = here \cup {c} /\ came' = came \cup {c}
  /\ UNCHANGED <<pointer, session, stale, belongs, recorded, left, req, calls, lulls>>

Disconnect(c) ==
  /\ c \in here
  /\ here' = here \ {c}
  /\ UNCHANGED <<pointer, session, stale, belongs, recorded, left, came, req, calls, lulls>>

\* Ten minutes in which nothing was heard of a session.
GoesStale(s) ==
  /\ IsOpen(s) /\ s \notin stale
  /\ lulls < MaxStale /\ lulls' = lulls + 1
  /\ stale' = stale \cup {s}
  /\ UNCHANGED <<pointer, session, belongs, recorded, left, livekit, req, calls>>

----------------------------------------------------------------------------
(* Closing.  HSETNX: the first end stands.                                 *)

Closed(s) == [session EXCEPT ![s] = "ended"]

\* room_finished: of any room the zone has had, also one that only others
\* than its visitors were in.
BeginFinished(r) ==
  /\ IsOpen(pointer)
  /\ Begins(r, "finished", "close", Somebody, pointer)
  /\ UNCHANGED <<pointer, session, stale, belongs, recorded, left, livekit, lulls>>

\* Whoever looks at the current session (a timer, a report) when it is stale.
BeginLook(r) ==
  /\ IsOpen(pointer) /\ pointer \in stale
  /\ Begins(r, "look", "close", Somebody, pointer)
  /\ UNCHANGED <<pointer, session, stale, belongs, recorded, left, livekit, lulls>>

Close(r) ==
  /\ req[r].pc = "close"
  /\ session' = Closed(req[r].s)
  /\ stale' = stale \ {req[r].s}
  /\ Done(r)
  /\ UNCHANGED <<pointer, belongs, recorded, left, livekit, calls, lulls>>

----------------------------------------------------------------------------
(* ensureSession.                                                          *)

BeingWritten == \E q \in Requests : req[q].pc = "write"

ReadPointer(r) ==
  /\ req[r].pc = "pointer"
  /\ Apart => ~BeingWritten
  /\ req' = [req EXCEPT ![r].old = pointer, ![r].pc = IF pointer = "none" THEN "move" ELSE "current"]
  /\ UNCHANGED <<pointer, session, stale, belongs, recorded, left, livekit, calls, lulls>>

InHand(r) == IF req[r].op = "host" THEN "touch" ELSE "map"

\* What the pointer named: open, stale, ended, or not there (yet).
ReadCurrent(r) ==
  LET cur == req[r].old IN
    /\ req[r].pc = "current"
    /\ IF IsOpen(cur) /\ cur \notin stale THEN GoesWith(r, InHand(r), cur)
       ELSE Goes(r, IF IsOpen(cur) THEN "stale" ELSE "move")
    /\ UNCHANGED <<pointer, session, stale, belongs, recorded, left, livekit, calls, lulls>>

\* Mutant: the stale one is left as it is.
NotClosed(s) == session

ClosedBefore(s) == Closed(s)

CloseStale(r) ==
  /\ req[r].pc = "stale"
  /\ session' = ClosedBefore(req[r].old)
  /\ stale' = stale \ {s \in stale : session'[s] = "ended"}
  /\ Goes(r, "move")
  /\ UNCHANGED <<pointer, belongs, recorded, left, livekit, calls, lulls>>

Drawn == {s \in Sessions : session[s] # "none"} \cup {pointer} \cup {req[q].s : q \in Requests}

\* Set-if-absent, or compare-and-set; whoever loses begins again.
MovePointer(r) ==
  /\ req[r].pc = "move"
  /\ IF pointer = req[r].old
     THEN /\ Sessions \ Drawn # {}
          /\ pointer' = CHOOSE s \in Sessions : s \notin Drawn
          /\ GoesWith(r, "write", pointer')
     ELSE UNCHANGED pointer /\ Goes(r, "pointer")
  /\ UNCHANGED <<session, stale, belongs, recorded, left, livekit, calls, lulls>>

WriteSession(r) ==
  /\ req[r].pc = "write"
  /\ session' = [session EXCEPT ![req[r].s] = "open"]
  /\ Goes(r, InHand(r))
  /\ UNCHANGED <<pointer, stale, belongs, recorded, left, livekit, calls, lulls>>

----------------------------------------------------------------------------
(* Connections.                                                            *)

\* participant_joined of a visitor; of anybody else it only keeps the
\* session's clock.
BeginOpened(r) ==
  \E c \in came :
    /\ Begins(r, "opened", "mapped", c, "none")
    /\ UNCHANGED <<pointer, session, stale, belongs, recorded, left, livekit, lulls>>

BeginHost(r) ==
  /\ Begins(r, "host", "pointer", Somebody, "none")
  /\ UNCHANGED <<pointer, session, stale, belongs, recorded, left, livekit, lulls>>

HostLeft(r) ==
  /\ IsOpen(pointer)
  /\ Begins(r, "host", IF pointer \in stale THEN "close" ELSE "touch", Somebody, pointer)
  /\ UNCHANGED <<pointer, session, stale, belongs, recorded, left, livekit, lulls>>

ReadMapped(r) ==
  LET s == belongs[req[r].who] IN
    /\ req[r].pc = "mapped"
    /\ IF s = "none" THEN Goes(r, "pointer") ELSE GoesWith(r, "record", s)
    /\ UNCHANGED <<pointer, session, stale, belongs, recorded, left, livekit, calls, lulls>>

\* Mutant: a plain set.
OwnSession(r) == req[r].s

\* SET NX; whoever is late takes the first one's session.
MappedTo(r) == IF belongs[req[r].who] = "none" THEN req[r].s ELSE belongs[req[r].who]

MapConnection(r) ==
  /\ req[r].pc = "map"
  /\ belongs' = [belongs EXCEPT ![req[r].who] = MappedTo(r)]
  /\ GoesWith(r, "record", MappedTo(r))
  /\ UNCHANGED <<pointer, session, stale, recorded, left, livekit, calls, lulls>>

Record(r) ==
  /\ req[r].pc = "record"
  /\ recorded' = recorded \cup {<<req[r].s, req[r].who>>}
  /\ Goes(r, "touch")
  /\ UNCHANGED <<pointer, session, stale, belongs, left, livekit, calls, lulls>>

\* Something happened in the session, now or as long ago as the call is late.
Touch(r) ==
  /\ req[r].pc = "touch"
  /\ stale' \in {stale, stale \ {req[r].s}}
  /\ Done(r)
  /\ UNCHANGED <<pointer, session, belongs, recorded, left, livekit, calls, lulls>>

\* A page's heartbeat: of a connection that is recorded, neither it nor its
\* session ended, believed unless it was quiet; of one that is unknown here,
\* LiveKit is asked.
BeginBeat(r) ==
  \E c \in came :
    LET s == belongs[c] IN
      /\ \/ s = "none" /\ Begins(r, "beat", "verify", c, "none")
         \/ /\ <<s, c>> \in recorded \ left /\ IsOpen(s)
            /\ \E pc \in {"touch", "verify"} : Begins(r, "beat", pc, c, s)
      /\ UNCHANGED <<pointer, session, stale, belongs, recorded, left, livekit, lulls>>

Verify(r) ==
  LET c == req[r].who IN
    /\ req[r].pc = "verify"
    /\ IF c \in here THEN Goes(r, IF req[r].s = "none" THEN "mapped" ELSE "touch")
       ELSE IF req[r].s = "none" THEN Done(r) ELSE Goes(r, "end")
    /\ UNCHANGED <<pointer, session, stale, belongs, recorded, left, livekit, calls, lulls>>

\* participant_left: of a connection that is recorded.
BeginLeft(r) ==
  \E c \in came \ here :
    /\ belongs[c] # "none" /\ <<belongs[c], c>> \in recorded
    /\ Begins(r, "left", "end", c, belongs[c])
    /\ UNCHANGED <<pointer, session, stale, belongs, recorded, left, livekit, lulls>>

RecordEnd(r) ==
  /\ req[r].pc = "end"
  /\ left' = left \cup {<<req[r].s, req[r].who>>}
  /\ Goes(r, "touch")
  /\ UNCHANGED <<pointer, session, stale, belongs, recorded, livekit, calls, lulls>>

----------------------------------------------------------------------------
Begin(r) ==
  \/ BeginFinished(r) \/ BeginLook(r) \/ BeginOpened(r) \/ BeginHost(r) \/ HostLeft(r)
  \/ BeginBeat(r) \/ BeginLeft(r)
Ensure(r) == ReadPointer(r) \/ ReadCurrent(r) \/ CloseStale(r) \/ MovePointer(r) \/ WriteSession(r)
Keep(r) == ReadMapped(r) \/ MapConnection(r) \/ Record(r) \/ Verify(r) \/ RecordEnd(r) \/ Touch(r) \/ Close(r)

Next ==
  \/ \E c \in Connections : Connect(c) \/ Disconnect(c)
  \/ \E s \in Sessions : GoesStale(s)
  \/ \E r \in Requests : Begin(r) \/ Ensure(r) \/ Keep(r)

Spec == Init /\ [][Next]_vars

----------------------------------------------------------------------------
(* Properties.                                                             *)

\* Every variable has its type.
TypeOK ==
  /\ pointer \in SessionOrNone
  /\ session \in [Sessions -> {"none", "open", "ended"}]
  /\ stale \subseteq Sessions
  /\ belongs \in [Connections -> SessionOrNone]
  /\ recorded \subseteq Sessions \X Connections /\ left \subseteq recorded
  /\ here \subseteq came /\ came \subseteq Connections
  /\ req \in [Requests -> [op : Ops, pc : Pcs, who : Connections, s : SessionOrNone, old : SessionOrNone]]
  /\ calls \in 0..MaxCalls /\ lulls \in 0..MaxStale

\* "Two first connections at once start one session": whatever session is
\* open is the zone's current one.  One that is not is in no report, and
\* nobody will end it.
OneSession == \A s \in Sessions : session[s] = "open" => s = pointer

\* A visitor's time is counted once: whichever of the webhook and the page
\* is first, late or repeated, a connection is recorded in one session.
CountedOnce ==
  \A c \in Connections, s, t \in Sessions : {<<s, c>>, <<t, c>>} \subseteq recorded => s = t
=============================================================================
