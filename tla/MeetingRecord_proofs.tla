------------------------ MODULE MeetingRecord_proofs ------------------------
(***************************************************************************)
(* What MeetingRecord promises for any number of requests in flight, any   *)
(* times and any bounds.                                                   *)
(***************************************************************************)
EXTENDS MeetingRecord, TLAPS

USE LifecycleAssumption, RecordAssumption DEF LifecycleAssumption, RecordAssumption

\* The records the handlers write are records.
LEMMA PatchedType ==
  ASSUME NEW q \in Reqs, q.op \in OpNames \ {"none"}
  PROVE  Patched(q) \in Records
BY DEF Patched, WentLive, NotedStart, EndedAs, Archived, Reopened, Records, States, EndedBy,
       Times, None, Reqs, OpNames, AllOps

LEMMA RequestType ==
  ASSUME NEW op \in OpNames, NEW pc \in Pcs, NEW at \in Times, NEW now \in Times,
         NEW read \in Records, NEW prev \in Records
  PROVE  /\ Request(op, pc, at, now, read, prev) \in Reqs
         /\ Request(op, pc, at, now, read, prev).op = op
         /\ Request(op, pc, at, now, read, prev).pc = pc
BY DEF Request, Reqs

LEMMA BlankType == Blank \in Records /\ None \in Times
BY DEF Blank, Records, States, EndedBy, Times, None

\* What a handler can put in its request.
LEMMA FixedTypes ==
  /\ Idle \in Reqs /\ Idle.op = "none" /\ Idle.pc = "idle"
  /\ DeletingRoom \in Reqs /\ DeletingRoom.op = "end" /\ DeletingRoom.pc = "delete_room"
BY RequestType, BlankType DEF OpNames, AllOps, Pcs, Idle, DeletingRoom

LEMMA ReadingTypes ==
  ASSUME NEW rec \in Records
  PROVE  /\ Clearing(rec) \in Reqs /\ Clearing(rec).op = "clear"
         /\ Deciding(rec) \in Reqs /\ Deciding(rec).op = "room_finished"
<1>1. {"clear", "room_finished"} \subseteq OpNames /\ {"reread", "decide"} \subseteq Pcs
  BY DEF OpNames, Pcs
<1> QED BY <1>1, RequestType, BlankType DEF Clearing, Deciding

LEMMA RereadType ==
  ASSUME NEW at \in Times, NEW now \in Times, NEW op \in OpNames \ {"none"}
  PROVE  Reread(op, at, now) \in Reqs /\ Reread(op, at, now).op = op
BY RequestType, BlankType DEF Pcs, Reread

LEMMA UpdatingType ==
  ASSUME NEW rec \in Records, NEW op \in OpNames \ {"none"}
  PROVE  /\ Request(op, "write", None, None, Blank, rec) \in Reqs
         /\ Request(op, "write", None, None, Blank, rec).op = op
BY RequestType, BlankType DEF Pcs

LEMMA SweepingType ==
  ASSUME NEW rec \in Records, NEW now \in Times
  PROVE  /\ Request("sweep", "list_rooms", None, now, rec, Blank) \in Reqs
         /\ Request("sweep", "list_rooms", None, now, rec, Blank).op = "sweep"
<1>1. "sweep" \in OpNames /\ "list_rooms" \in Pcs
  BY DEF OpNames, Pcs
<1> QED BY <1>1, RequestType, BlankType

\* Nothing is written by a request that is not doing anything.
Busy == \A r \in Requests : req[r].pc \in {"reread", "write"} => req[r].op # "none"

IndTypeOK == TypeOK /\ Busy

\* Giving one request another step keeps the requests well formed.
LEMMA ReqStep ==
  ASSUME req \in [Requests -> Reqs], Busy, NEW r \in Requests, NEW q \in Reqs,
         q.op # "none" \/ q.pc = "idle", req' = [req EXCEPT ![r] = q]
  PROVE  req' \in [Requests -> Reqs] /\ Busy'
BY DEF Busy

LEMMA IndTypeInit == Init => IndTypeOK
<1> SUFFICES ASSUME Init PROVE IndTypeOK
  OBVIOUS
<1>1. ev \in Records
  BY DEF Init, Records, States, EndedBy, Times, None
<1>2. room \in BOOLEAN /\ hooks \subseteq Hooks /\ pressed \subseteq AllOps
  BY DEF Init
<1>3. clock \in 0..MaxTime /\ opsLeft \in 0..MaxOps /\ sessions \in 0..MaxSessions
  BY DEF Init
<1>4. req \in [Requests -> Reqs] /\ Busy
  BY FixedTypes DEF Init, Busy
<1> QED BY <1>1, <1>2, <1>3, <1>4 DEF IndTypeOK, TypeOK

LEMMA IndTypeNext == IndTypeOK /\ [Next]_vars => IndTypeOK'
<1> SUFFICES ASSUME IndTypeOK, [Next]_vars PROVE IndTypeOK'
  OBVIOUS
<1> USE DEF IndTypeOK, TypeOK
<1>1. CASE Tick
  BY <1>1 DEF Tick, Busy
<1>2. CASE RoomOpens \/ RoomCloses \/ HookLost
  <2>1. UNCHANGED <<clock, ev, req, opsLeft, pressed>>
    BY <1>2 DEF RoomOpens, RoomCloses, HookLost
  <2>2. hooks' \subseteq Hooks
    BY <1>2 DEF RoomOpens, RoomCloses, HookLost, Hooks
  <2>3. room' \in BOOLEAN
    BY <1>2 DEF RoomOpens, RoomCloses, HookLost
  <2>4. sessions' \in 0..MaxSessions
    BY <1>2 DEF RoomOpens, RoomCloses, HookLost
  <2> QED BY <2>1, <2>2, <2>3, <2>4 DEF Busy
<1>3. ASSUME NEW r \in Requests,
             BeginStart(r) \/ BeginEnd(r) \/ BeginArchive(r) \/ BeginEdit(r) \/ BeginJoin(r)
      PROVE  IndTypeOK'
  <2>1. /\ opsLeft' = opsLeft - 1 /\ opsLeft > 0
        /\ UNCHANGED <<clock, ev, room, hooks, sessions, pressed>>
    BY <1>3 DEF BeginStart, BeginEnd, CanEnd, BeginArchive, BeginEdit, BeginJoin, Asked
  <2>2. \E q \in Reqs : (q.op # "none" \/ q.pc = "idle") /\ req' = [req EXCEPT ![r] = q]
    <3>1. clock \in Times /\ {"start", "end", "archive", "edit", "join"} \subseteq OpNames
      BY DEF Times, OpNames, AllOps
    <3> QED
      BY <1>3, <3>1, FixedTypes, RereadType, UpdatingType, BlankType
      DEF BeginStart, BeginEnd, CanEnd, BeginArchive, BeginEdit, BeginJoin, Take, Updating
  <2>3. req' \in [Requests -> Reqs] /\ Busy'
    BY <2>2, ReqStep
  <2> QED BY <2>1, <2>3
<1>4. ASSUME NEW r \in Requests, ReceiveRoomStarted(r)
      PROVE  IndTypeOK'
  <2>1. PICK h \in hooks : ReceiveRoomStarted(r)!(h)
    BY <1>4 DEF ReceiveRoomStarted
  <2>2. \/ req' = req
        \/ req' = [req EXCEPT ![r] = Reread("room_started", h.at, clock)]
    BY <2>1
  <2>3. "room_started" \in OpNames \ {"none"} /\ h.at \in Times /\ clock \in Times
    BY DEF OpNames, Hooks, Times
  <2>4. req' \in [Requests -> Reqs] /\ Busy'
    <3>1. CASE req' = req
      BY <3>1 DEF Busy
    <3>2. CASE req' = [req EXCEPT ![r] = Reread("room_started", h.at, clock)]
      <4>1. /\ Reread("room_started", h.at, clock) \in Reqs
            /\ Reread("room_started", h.at, clock).op # "none"
        <5> DEFINE at == h.at
        <5>1. at \in Times
          BY <2>3
        <5> HIDE DEF at
        <5>2. Reread("room_started", at, clock) \in Reqs /\ Reread("room_started", at, clock).op # "none"
          BY <2>3, <5>1, RereadType
        <5> QED BY <5>2 DEF at
      <4>2. \E q \in Reqs : (q.op # "none" \/ q.pc = "idle") /\ req' = [req EXCEPT ![r] = q]
        BY <3>2, <4>1
      <4> QED BY <4>2, ReqStep
    <3> QED BY <2>2, <3>1, <3>2
  <2> QED BY <2>1, <2>4
<1>5. ASSUME NEW r \in Requests, ReceiveRoomFinished(r)
      PROVE  IndTypeOK'
  <2>1. PICK h \in hooks, c \in BOOLEAN : ReceiveRoomFinished(r)!(h, c)
    BY <1>5 DEF ReceiveRoomFinished
  <2>2. req' = [req EXCEPT ![r] = IF c THEN Clearing(ev) ELSE Deciding(ev)]
    BY <2>1
  <2>3. req' \in [Requests -> Reqs] /\ Busy'
    BY <2>2, ReadingTypes, ReqStep
  <2> QED BY <2>1, <2>3
<1>6. ASSUME NEW r \in Requests, BeginSweep(r) \/ DecideSweep(r) \/ DecideRoomFinished(r)
      PROVE  IndTypeOK'
  <2>1. UNCHANGED <<clock, ev, room, hooks, opsLeft, sessions, pressed>>
    BY <1>6 DEF BeginSweep, DecideSweep, DecideRoomFinished
  <2>2. \E q \in Reqs : (q.op # "none" \/ q.pc = "idle") /\ req' = [req EXCEPT ![r] = q]
    <3>1. clock \in Times /\ {"sweep", "room_finished"} \subseteq OpNames
      BY DEF Times, OpNames
    <3> QED
      BY <1>6, <3>1, FixedTypes, RereadType, UpdatingType, SweepingType, BlankType DEF BeginSweep, DecideSweep, DecideRoomFinished, Take
  <2>3. req' \in [Requests -> Reqs] /\ Busy'
    BY <2>2, ReqStep
  <2> QED BY <2>1, <2>3
<1>7. ASSUME NEW r \in Requests, UpdateRead(r)
      PROVE  IndTypeOK'
  <2> DEFINE q == [req[r] EXCEPT !.pc = "write", !.prev = ev]
  <2>1. q \in Reqs /\ q.op # "none"
    BY <1>7 DEF UpdateRead, Reqs, Pcs, Busy
  <2>2. req' = [req EXCEPT ![r] = q]
    BY <1>7 DEF UpdateRead
  <2> HIDE DEF q
  <2>3. req' \in [Requests -> Reqs] /\ Busy'
    BY <2>1, <2>2, ReqStep
  <2> QED BY <1>7, <2>3 DEF UpdateRead
<1>8. ASSUME NEW r \in Requests, UpdateWrite(r)
      PROVE  IndTypeOK'
  <2>1. ev' \in Records
    <3>1. req[r] \in Reqs /\ req[r].op \in OpNames \ {"none"}
      BY <1>8 DEF UpdateWrite, Reqs, Busy
    <3> QED BY <1>8, <3>1, PatchedType DEF UpdateWrite
  <2>2. pressed' \subseteq AllOps
    BY <1>8 DEF UpdateWrite
  <2>3. \E q \in Reqs : (q.op # "none" \/ q.pc = "idle") /\ req' = [req EXCEPT ![r] = q]
    <3>1. req[r].read \in Records
      BY DEF Reqs
    <3>2. \/ req' = [req EXCEPT ![r] = DeletingRoom]
          \/ req' = [req EXCEPT ![r] = Deciding(req[r].read)]
          \/ req' = [req EXCEPT ![r] = Idle]
      BY <1>8 DEF UpdateWrite
    <3> QED BY <3>1, <3>2, FixedTypes, ReadingTypes
  <2>4. req' \in [Requests -> Reqs] /\ Busy'
    BY <2>3, ReqStep
  <2> QED BY <1>8, <2>1, <2>2, <2>4 DEF UpdateWrite
<1>9. ASSUME NEW r \in Requests, DeleteRoom(r)
      PROVE  IndTypeOK'
  <2>1. req' \in [Requests -> Reqs] /\ Busy'
    BY <1>9, FixedTypes, ReqStep DEF DeleteRoom
  <2>2. hooks' \subseteq Hooks
    BY <1>9 DEF DeleteRoom, Hooks
  <2>3. room' \in BOOLEAN
    BY <1>9 DEF DeleteRoom
  <2> QED BY <1>9, <2>1, <2>2, <2>3 DEF DeleteRoom
<1>10. CASE UNCHANGED vars
  BY <1>10 DEF vars, Busy
<1> QED
  BY <1>1, <1>2, <1>3, <1>4, <1>5, <1>6, <1>7, <1>8, <1>9, <1>10 DEF Next, Receives, Steps

\* The type invariant strengthened with what each step of a request carries.
THEOREM IndTypeCorrect == Spec => []IndTypeOK
BY IndTypeInit, IndTypeNext, PTL DEF Spec

\* Type correctness, for every value of the constants.
THEOREM TypeCorrect == Spec => []TypeOK
<1>1. IndTypeOK => TypeOK
  BY DEF IndTypeOK
<1> QED BY <1>1, IndTypeCorrect, PTL

----------------------------------------------------------------------------
(* Coherent: the stored record and every copy of it in flight make sense.  *)

Sensible(q) ==
  /\ RecordMakesSense(q.read) /\ RecordMakesSense(q.prev)
  /\ q.op \in {"start", "room_started"} => q.at # None
  /\ q.op # "join"

LEMMA SensibleStep ==
  ASSUME req \in [Requests -> Reqs], \A s \in Requests : Sensible(req[s]), NEW r \in Requests,
         NEW q \in Reqs, Sensible(q), req' = [req EXCEPT ![r] = q]
  PROVE  \A s \in Requests : Sensible(req'[s])
OBVIOUS

LEMMA SensibleRequests ==
  ASSUME NEW rec \in Records, RecordMakesSense(rec), NEW now \in Times
  PROVE  /\ Sensible(Idle) /\ Sensible(DeletingRoom)
         /\ Sensible(Clearing(rec)) /\ Sensible(Deciding(rec))
         /\ Sensible(Request("sweep", "list_rooms", None, now, rec, Blank))
         /\ \A op \in {"room_finished", "sweep"} : Sensible(Reread(op, None, None))
         /\ \A op \in {"start", "room_started"}, at \in Nat : Sensible(Reread(op, at, now))
         /\ \A op \in {"end", "archive", "edit"} :
              Sensible(Request(op, "write", None, None, Blank, rec))
BY DEF Sensible, RecordMakesSense, Idle, DeletingRoom, Clearing, Deciding, Reread, Request, Blank, None

\* A sensible request writes a sensible record.
LEMMA PatchedMakesSense ==
  ASSUME NEW q \in Reqs, q.op # "none", Sensible(q)
  PROVE  RecordMakesSense(Patched(q))
<1>1. q.prev \in Records /\ q.op \in OpNames /\ q.at \in Times
  BY DEF Reqs
<1>2. CASE q.op \in {"start", "room_started"}
  <2>1. Patched(q) \in {WentLive(q.prev, q.at), NotedStart(q.prev, q.at)} /\ q.at # None
    BY <1>2 DEF Patched, Sensible
  <2>2. RecordMakesSense(WentLive(q.prev, q.at))
    BY <1>1, <2>1 DEF RecordMakesSense, WentLive, Records
  <2>3. RecordMakesSense(NotedStart(q.prev, q.at))
    BY <1>1, <2>1 DEF RecordMakesSense, NotedStart, Sensible, Records
  <2> QED BY <2>1, <2>2, <2>3
<1>3. CASE q.op \in {"end", "room_finished", "sweep"}
  <2>1. Patched(q) \in {EndedAs(q.prev, "host"), EndedAs(q.prev, "room_empty")}
    BY <1>3 DEF Patched
  <2> QED BY <1>1, <2>1 DEF RecordMakesSense, EndedAs, Records
<1>4. CASE q.op = "archive"
  <2>1. Patched(q) = Archived(q.prev)
    BY <1>4 DEF Patched
  <2> QED BY <1>1, <2>1 DEF RecordMakesSense, Archived, Records
<1>5. CASE q.op \in {"edit", "clear"}
  <2>1. Patched(q) = q.prev
    BY <1>5 DEF Patched
  <2> QED BY <2>1 DEF Sensible
<1> QED
  BY <1>1, <1>2, <1>3, <1>4, <1>5 DEF OpNames, AllOps, Sensible

LEMMA CopiesAreSensible ==
  CopiesMakeSense <=> (~IsPermanent => RecordMakesSense(ev) /\ \A r \in Requests : Sensible(req[r]))
BY DEF CopiesMakeSense, Sensible

LEMMA CopiesInit == Init => CopiesMakeSense
<1> SUFFICES ASSUME Init PROVE CopiesMakeSense
  OBVIOUS
<1>1. RecordMakesSense(ev)
  BY DEF Init, RecordMakesSense, None
<1>2. Sensible(Idle)
  BY DEF Sensible, RecordMakesSense, Idle, Request, Blank
<1> QED BY <1>1, <1>2, CopiesAreSensible DEF Init

LEMMA CopiesNext == IndTypeOK /\ CopiesMakeSense /\ [Next]_vars => CopiesMakeSense'
<1> SUFFICES ASSUME IndTypeOK, CopiesMakeSense, [Next]_vars, ~IsPermanent
             PROVE  RecordMakesSense(ev') /\ \A r \in Requests : Sensible(req'[r])
  BY DEF CopiesMakeSense, Sensible
<1>0. RecordMakesSense(ev) /\ \A r \in Requests : Sensible(req[r])
  BY CopiesAreSensible
<1> USE DEF IndTypeOK, TypeOK
<1>1. CASE Tick \/ RoomOpens \/ RoomCloses \/ HookLost \/ UNCHANGED vars
  BY <1>0, <1>1 DEF Tick, RoomOpens, RoomCloses, HookLost, vars
<1>2. ASSUME NEW r \in Requests,
             BeginStart(r) \/ BeginEnd(r) \/ BeginArchive(r) \/ BeginEdit(r) \/ BeginJoin(r)
      PROVE  RecordMakesSense(ev') /\ \A s \in Requests : Sensible(req'[s])
  <2>1. ev' = ev /\ clock \in Nat /\ clock \in Times /\ None \in Times
    BY <1>2 DEF BeginStart, BeginEnd, CanEnd, BeginArchive, BeginEdit, BeginJoin, Asked, Times
  <2>2. ~BeginJoin(r)
    BY DEF BeginJoin, ReopensOnJoin, CanEnd
  <2>3. \E q \in Reqs : Sensible(q) /\ req' = [req EXCEPT ![r] = q]
    <3>1. CASE BeginStart(r)
      <4>1. Sensible(Reread("start", clock, None))
        BY <1>0, <2>1, SensibleRequests
      <4>2. Reread("start", clock, None) \in Reqs
        BY <2>1, RereadType DEF OpNames, AllOps
      <4> QED BY <3>1, <4>1, <4>2 DEF BeginStart, Take
    <3>2. CASE BeginEnd(r) \/ BeginArchive(r) \/ BeginEdit(r)
      <4>1. \E op \in {"end", "archive", "edit"} : req' = [req EXCEPT ![r] = Updating(op)]
        BY <3>2 DEF BeginEnd, CanEnd, BeginArchive, BeginEdit, Take
      <4>2. \A op \in {"end", "archive", "edit"} : Sensible(Updating(op))
        BY <1>0, <2>1, SensibleRequests DEF Updating
      <4>3. \A op \in {"end", "archive", "edit"} : Updating(op) \in Reqs
        BY UpdatingType DEF Updating, OpNames, AllOps
      <4> QED BY <4>1, <4>2, <4>3
    <3> QED BY <1>2, <2>2, <3>1, <3>2
  <2> QED BY <1>0, <2>1, <2>3, SensibleStep
<1>3. ASSUME NEW r \in Requests, ReceiveRoomStarted(r)
      PROVE  RecordMakesSense(ev') /\ \A s \in Requests : Sensible(req'[s])
  <2>1. PICK h \in hooks : ReceiveRoomStarted(r)!(h)
    BY <1>3 DEF ReceiveRoomStarted
  <2> DEFINE at == h.at
  <2>2. at \in Nat /\ at \in Times /\ clock \in Times
    BY DEF Hooks, Times
  <2>3. req' = req \/ req' = [req EXCEPT ![r] = Reread("room_started", at, clock)]
    BY <2>1
  <2> HIDE DEF at
  <2>4. Sensible(Reread("room_started", at, clock))
    BY <1>0, <2>2, SensibleRequests
  <2>5. Reread("room_started", at, clock) \in Reqs
    BY <2>2, RereadType DEF OpNames
  <2> QED BY <1>0, <2>1, <2>3, <2>4, <2>5, SensibleStep
<1>4. ASSUME NEW r \in Requests, ReceiveRoomFinished(r)
      PROVE  RecordMakesSense(ev') /\ \A s \in Requests : Sensible(req'[s])
  <2>1. PICK h \in hooks, c \in BOOLEAN : ReceiveRoomFinished(r)!(h, c)
    BY <1>4 DEF ReceiveRoomFinished
  <2>2. ev' = ev /\ None \in Times
    BY <2>1, BlankType
  <2>3. \E q \in Reqs : Sensible(q) /\ req' = [req EXCEPT ![r] = q]
    BY <1>0, <2>1, <2>2, SensibleRequests, ReadingTypes
  <2> QED BY <1>0, <2>2, <2>3, SensibleStep
<1>5. ASSUME NEW r \in Requests, BeginSweep(r) \/ DecideSweep(r) \/ DecideRoomFinished(r)
      PROVE  RecordMakesSense(ev') /\ \A s \in Requests : Sensible(req'[s])
  <2>1. ev' = ev /\ clock \in Times /\ None \in Times
    BY <1>5 DEF BeginSweep, DecideSweep, DecideRoomFinished, Times
  <2>2. /\ Reread("sweep", None, None) \in Reqs /\ Reread("room_finished", None, None) \in Reqs
        /\ Idle \in Reqs /\ Request("sweep", "list_rooms", None, clock, ev, Blank) \in Reqs
    BY <2>1, RereadType, FixedTypes, SweepingType DEF OpNames
  <2>3. /\ Sensible(Reread("sweep", None, None)) /\ Sensible(Reread("room_finished", None, None))
        /\ Sensible(Idle) /\ Sensible(Request("sweep", "list_rooms", None, clock, ev, Blank))
    BY <1>0, <2>1, SensibleRequests
  <2>4. \E q \in Reqs : Sensible(q) /\ req' = [req EXCEPT ![r] = q]
    BY <1>5, <2>2, <2>3 DEF BeginSweep, DecideSweep, DecideRoomFinished, Take
  <2> QED BY <1>0, <2>1, <2>4, SensibleStep
<1>6. ASSUME NEW r \in Requests, UpdateRead(r)
      PROVE  RecordMakesSense(ev') /\ \A s \in Requests : Sensible(req'[s])
  <2> DEFINE q == [req[r] EXCEPT !.pc = "write", !.prev = ev]
  <2>1. req' = [req EXCEPT ![r] = q] /\ ev' = ev
    BY <1>6 DEF UpdateRead
  <2>2. q \in Reqs /\ Sensible(q)
    BY <1>0 DEF Reqs, Pcs, Sensible
  <2> HIDE DEF q
  <2> QED BY <1>0, <2>1, <2>2, SensibleStep
<1>7. ASSUME NEW r \in Requests, UpdateWrite(r)
      PROVE  RecordMakesSense(ev') /\ \A s \in Requests : Sensible(req'[s])
  <2>1. req[r] \in Reqs /\ req[r].op # "none" /\ Sensible(req[r])
    BY <1>0, <1>7 DEF UpdateWrite, Busy
  <2>2. ev' = Patched(req[r])
    BY <1>7 DEF UpdateWrite
  <2>3. \/ req' = [req EXCEPT ![r] = DeletingRoom]
        \/ req' = [req EXCEPT ![r] = Deciding(req[r].read)]
        \/ req' = [req EXCEPT ![r] = Idle]
    BY <1>7 DEF UpdateWrite
  <2>4. req[r].read \in Records /\ RecordMakesSense(req[r].read)
    BY <2>1 DEF Reqs, Sensible
  <2>5. \E q \in Reqs : Sensible(q) /\ req' = [req EXCEPT ![r] = q]
    BY <2>3, <2>4, SensibleRequests, FixedTypes, ReadingTypes, BlankType
  <2> QED BY <1>0, <2>1, <2>2, <2>5, PatchedMakesSense, SensibleStep
<1>8. ASSUME NEW r \in Requests, DeleteRoom(r)
      PROVE  RecordMakesSense(ev') /\ \A s \in Requests : Sensible(req'[s])
  <2>1. Idle \in Reqs /\ Sensible(Idle)
    BY <1>0, SensibleRequests, FixedTypes, BlankType
  <2> QED BY <1>0, <1>8, <2>1, SensibleStep DEF DeleteRoom
<1> QED
  BY <1>1, <1>2, <1>3, <1>4, <1>5, <1>6, <1>7, <1>8 DEF Next, Receives, Steps

\* However many requests overlap and whatever stale copies they write back,
\* the stored record makes sense by itself.
THEOREM AlwaysCoherent == Spec => []Coherent
<1>1. CopiesMakeSense => Coherent
  BY DEF CopiesMakeSense, Coherent
<1> QED BY <1>1, CopiesInit, CopiesNext, IndTypeCorrect, PTL DEF Spec
----------------------------------------------------------------------------
(* LookingInIsHarmless: before the early window, with nobody having        *)
(* pressed anything, no request in flight would move the meeting.          *)

Calm(q) ==
  /\ q.read.state \in {"scheduled", "archived"}
  /\ q.prev.state \in {"scheduled", "archived"}
  /\ q.op = "room_started" => q.now <= clock
  /\ q.op = "room_finished" => q.pc = "decide"
  /\ q.op \notin {"sweep", "join"}

LEMMA CalmStep ==
  ASSUME req \in [Requests -> Reqs], \A s \in Requests : Calm(req[s]), NEW r \in Requests,
         NEW q \in Reqs, Calm(q), req' = [req EXCEPT ![r] = q], clock' = clock
  PROVE  \A s \in Requests : Calm(req[s])'
BY DEF Calm

LEMMA CalmRequests ==
  ASSUME NEW rec \in Records, rec.state \in {"scheduled", "archived"}
  PROVE  /\ Calm(Idle) /\ Calm(DeletingRoom) /\ Calm(Clearing(rec)) /\ Calm(Deciding(rec))
         /\ Calm(Reread("start", clock, None))
         /\ \A at : clock \in Nat => Calm(Reread("room_started", at, clock))
         /\ \A op \in {"end", "archive", "edit"} : Calm(Request(op, "write", None, None, Blank, rec))
BY DEF Calm, Idle, DeletingRoom, Clearing, Deciding, Reread, Request, Blank

\* What is still far ahead was farther ahead before.
LEMMA FartherBefore ==
  ASSUME NEW s \in Int, NEW e \in Int, NEW c \in Int, NEW d \in Int, c <= d, s - d > e
  PROVE  s - c > e
OBVIOUS

LEMMA NothingMovesInit == Init => NothingMovesItEarly
<1> SUFFICES ASSUME Init PROVE NothingMovesItEarly
  OBVIOUS
<1>1. \A r \in Requests : req[r] = Request("none", "idle", None, None, Blank, Blank)
  BY DEF Init, Idle
<1> QED BY <1>1 DEF Init, NothingMovesItEarly, OnlyLookedIn, Request, Blank

LEMMA NothingMovesNext == IndTypeOK /\ NothingMovesItEarly /\ [Next]_vars => NothingMovesItEarly'
<1> SUFFICES ASSUME IndTypeOK, NothingMovesItEarly, [Next]_vars, OnlyLookedIn'
             PROVE  /\ ev'.state \in {"scheduled", "archived"}
                    /\ \A s \in Requests : Calm(req[s])'
  BY DEF NothingMovesItEarly, Calm
<1> USE DEF IndTypeOK, TypeOK
<1>a. clock \in Nat /\ clock' \in Nat /\ clock <= clock' /\ pressed \subseteq pressed'
  <2>1. (clock' = clock \/ clock' = clock + 1) /\ pressed \subseteq pressed'
    BY DEF Next, Tick, RoomOpens, RoomCloses, HookLost, BeginStart, BeginEnd, CanEnd, BeginArchive,
       BeginEdit, BeginJoin, Asked, Receives, ReceiveRoomStarted, ReceiveRoomFinished, BeginSweep, Steps,
       DecideRoomFinished, DecideSweep, UpdateRead, UpdateWrite, DeleteRoom, vars
  <2> QED BY <2>1
<1>b. OnlyLookedIn
  <2>1. pressed \cap {"start", "end"} = {}
    BY <1>a DEF OnlyLookedIn
  <2>2. InitState = "scheduled" /\ ScheduledAt - clock' > EarlyStart
    BY DEF OnlyLookedIn
  <2>3. ScheduledAt - clock > EarlyStart
    <3>1. ScheduledAt \in Int /\ EarlyStart \in Int
      OBVIOUS
    <3>2. clock \in Int /\ clock' \in Int /\ clock <= clock'
      BY <1>a
    <3>3. ScheduledAt - clock' > EarlyStart
      BY <2>2
    <3> QED BY ONLY <3>1, <3>2, <3>3, FartherBefore
  <2> QED BY <2>1, <2>2, <2>3 DEF OnlyLookedIn
<1>c. ev.state \in {"scheduled", "archived"} /\ \A s \in Requests : Calm(req[s])
  BY <1>b DEF NothingMovesItEarly, Calm
<1>1. CASE Tick \/ RoomOpens \/ RoomCloses \/ HookLost \/ UNCHANGED vars
  <2>1. ev' = ev /\ req' = req
    BY <1>1 DEF Tick, RoomOpens, RoomCloses, HookLost, vars
  <2>2. \A s \in Requests : req[s].op = "room_started" => req[s].now <= clock /\ req[s].now \in Int
    BY <1>c DEF Calm, Reqs, Times, None
  <2> QED BY <1>a, <1>c, <2>1, <2>2 DEF Calm
<1>2. ASSUME NEW r \in Requests,
             BeginStart(r) \/ BeginEnd(r) \/ BeginArchive(r) \/ BeginEdit(r) \/ BeginJoin(r)
      PROVE  /\ ev'.state \in {"scheduled", "archived"}
             /\ \A s \in Requests : Calm(req[s])'
  <2>1. ev' = ev /\ clock' = clock /\ clock \in Times /\ None \in Times
    BY <1>2 DEF BeginStart, BeginEnd, CanEnd, BeginArchive, BeginEdit, BeginJoin, Asked, Times
  <2>2. ~BeginJoin(r)
    BY <1>c DEF BeginJoin, ReopensOnJoin, CanEnd
  <2>3. \E q \in Reqs : Calm(q) /\ req' = [req EXCEPT ![r] = q]
    <3>1. Reread("start", clock, None) \in Reqs /\ Calm(Reread("start", clock, None))
      BY <1>c, <2>1, RereadType, CalmRequests DEF OpNames, AllOps
    <3>2. \A op \in {"end", "archive", "edit"} : Updating(op) \in Reqs /\ Calm(Updating(op))
      BY <1>c, UpdatingType, CalmRequests DEF OpNames, AllOps, Updating
    <3>3. DeletingRoom \in Reqs /\ Calm(DeletingRoom)
      BY <1>c, FixedTypes, CalmRequests
    <3> QED
      BY <1>2, <2>2, <3>1, <3>2, <3>3 DEF BeginStart, BeginEnd, CanEnd, BeginArchive, BeginEdit, Take
  <2> QED BY <1>c, <2>1, <2>3, CalmStep
<1>3. ASSUME NEW r \in Requests, ReceiveRoomStarted(r)
      PROVE  /\ ev'.state \in {"scheduled", "archived"}
             /\ \A s \in Requests : Calm(req[s])'
  <2>1. PICK h \in hooks : ReceiveRoomStarted(r)!(h)
    BY <1>3 DEF ReceiveRoomStarted
  <2> DEFINE at == h.at
  <2>2. at \in Times /\ clock \in Times
    BY DEF Hooks, Times
  <2>3. req' = req \/ req' = [req EXCEPT ![r] = Reread("room_started", at, clock)]
    BY <2>1
  <2>4. ev' = ev /\ clock' = clock
    BY <2>1
  <2> HIDE DEF at
  <2>5. Reread("room_started", at, clock) \in Reqs /\ Calm(Reread("room_started", at, clock))
    BY <1>a, <1>c, <2>2, RereadType, CalmRequests DEF OpNames
  <2>6. CASE req' = req
    BY <1>c, <2>4, <2>6 DEF Calm
  <2> QED BY <1>c, <2>3, <2>4, <2>5, <2>6, CalmStep
<1>4. ASSUME NEW r \in Requests, ReceiveRoomFinished(r)
      PROVE  /\ ev'.state \in {"scheduled", "archived"}
             /\ \A s \in Requests : Calm(req[s])'
  <2>1. PICK h \in hooks, c \in BOOLEAN : ReceiveRoomFinished(r)!(h, c)
    BY <1>4 DEF ReceiveRoomFinished
  <2>2. ev' = ev /\ clock' = clock
    BY <2>1
  <2>3. \E q \in Reqs : Calm(q) /\ req' = [req EXCEPT ![r] = q]
    BY <1>c, <2>1, CalmRequests, ReadingTypes
  <2> QED BY <1>c, <2>2, <2>3, CalmStep
<1>5. ASSUME NEW r \in Requests, BeginSweep(r) \/ DecideSweep(r) \/ DecideRoomFinished(r)
      PROVE  /\ ev'.state \in {"scheduled", "archived"}
             /\ \A s \in Requests : Calm(req[s])'
  <2>1. ev' = ev /\ clock' = clock
    BY <1>5 DEF BeginSweep, DecideSweep, DecideRoomFinished
  <2>2. ~BeginSweep(r)
    BY <1>c DEF BeginSweep, IsInProgress
  <2>3. ~DecideSweep(r)
    BY <1>c DEF DecideSweep, Calm
  <2>4. ~EndsWhenRoomFinishes(req[r].read, clock)
    BY <1>a, <1>b, <1>c DEF EndsWhenRoomFinishes, CanEnd, IsInProgress, Calm, OnlyLookedIn
  <2>5. req' = [req EXCEPT ![r] = Idle]
    BY <1>5, <2>2, <2>3, <2>4 DEF DecideRoomFinished
  <2> QED BY <1>c, <2>1, <2>5, FixedTypes, CalmRequests, CalmStep
<1>6. ASSUME NEW r \in Requests, UpdateRead(r)
      PROVE  /\ ev'.state \in {"scheduled", "archived"}
             /\ \A s \in Requests : Calm(req[s])'
  <2> DEFINE q == [req[r] EXCEPT !.pc = "write", !.prev = ev]
  <2>1. req' = [req EXCEPT ![r] = q] /\ ev' = ev /\ clock' = clock /\ req[r].op # "room_finished"
    BY <1>6, <1>c DEF UpdateRead, Calm
  <2>2. q \in Reqs /\ Calm(q)
    BY <1>c, <2>1 DEF Reqs, Pcs, Calm
  <2> HIDE DEF q
  <2> QED BY <1>c, <2>1, <2>2, CalmStep
<1>7. ASSUME NEW r \in Requests, UpdateWrite(r)
      PROVE  /\ ev'.state \in {"scheduled", "archived"}
             /\ \A s \in Requests : Calm(req[s])'
  <2>1. req[r] \in Reqs /\ Calm(req[r]) /\ req[r].pc = "write"
    BY <1>c, <1>7 DEF UpdateWrite
  <2>2. ev' = Patched(req[r]) /\ clock' = clock /\ pressed' = pressed \cup ({req[r].op} \cap AllOps)
    BY <1>7 DEF UpdateWrite
  <2>3. req[r].op \in {"room_started", "archive", "edit", "clear"}
    <3>1. req[r].op \notin {"start", "end"}
      BY <2>2 DEF OnlyLookedIn, AllOps
    <3>2. req[r].op \in OpNames \ {"none"} /\ req[r].op \notin {"sweep", "join"}
      BY <2>1 DEF Reqs, Busy, Calm
    <3>3. req[r].op # "room_finished"
      BY <2>1 DEF Calm
    <3> QED BY <3>1, <3>2, <3>3 DEF OpNames, AllOps
  <2>4. req[r].prev \in Records /\ req[r].read \in Records /\ req[r].now \in Int
    BY <2>1 DEF Reqs, Times, None
  <2>5. ~(req[r].op = "room_started" /\ GoesLiveWhenRoomStarts(req[r].prev, req[r].now))
    BY <1>a, <1>b, <2>1, <2>4 DEF GoesLiveWhenRoomStarts, EndedByEmptyRoom, Calm, OnlyLookedIn
  <2>6. Patched(req[r]) \in {NotedStart(req[r].prev, req[r].at), Archived(req[r].prev), req[r].prev}
    BY <2>3, <2>5 DEF Patched
  <2>7. ev'.state \in {"scheduled", "archived"}
    BY <2>1, <2>2, <2>4, <2>6 DEF NotedStart, Archived, Calm, Records
  <2>8. \/ req' = [req EXCEPT ![r] = DeletingRoom]
        \/ req' = [req EXCEPT ![r] = Deciding(req[r].read)]
        \/ req' = [req EXCEPT ![r] = Idle]
    BY <1>7 DEF UpdateWrite
  <2>9. \E q \in Reqs : Calm(q) /\ req' = [req EXCEPT ![r] = q]
    BY <2>1, <2>4, <2>8, CalmRequests, FixedTypes, ReadingTypes DEF Calm
  <2> QED BY <1>c, <2>2, <2>7, <2>9, CalmStep
<1>8. ASSUME NEW r \in Requests, DeleteRoom(r)
      PROVE  /\ ev'.state \in {"scheduled", "archived"}
             /\ \A s \in Requests : Calm(req[s])'
  BY <1>8, <1>c, FixedTypes, CalmRequests, CalmStep DEF DeleteRoom
<1> QED
  BY <1>1, <1>2, <1>3, <1>4, <1>5, <1>6, <1>7, <1>8 DEF Next, Receives, Steps

\* Opening and emptying the room ahead of time never moves the meeting.
THEOREM LookingInNeverHurts == Spec => []LookingInIsHarmless
<1>1. NothingMovesItEarly => LookingInIsHarmless
  BY DEF NothingMovesItEarly, LookingInIsHarmless
<1> QED BY <1>1, NothingMovesInit, NothingMovesNext, IndTypeCorrect, PTL DEF Spec
----------------------------------------------------------------------------
(* AlwaysOpenStaysOpen: no request in flight would end an always-open      *)
(* room, and no copy says that it has ended, unless it was found so.       *)

Opening(q) ==
  /\ q.read.state # "ended" /\ q.prev.state # "ended"
  /\ q.op # "join"
  /\ q.pc \in {"reread", "write"} => q.op \notin {"end", "sweep", "room_finished"}

NothingEndsIt ==
  IsPermanent /\ InitState # "ended"
    => ev.state # "ended" /\ \A r \in Requests : Opening(req[r])

LEMMA OpeningStep ==
  ASSUME req \in [Requests -> Reqs], \A s \in Requests : Opening(req[s]), NEW r \in Requests,
         NEW q \in Reqs, Opening(q), req' = [req EXCEPT ![r] = q]
  PROVE  \A s \in Requests : Opening(req'[s])
OBVIOUS

LEMMA OpeningRequests ==
  ASSUME NEW rec \in Records, rec.state # "ended", NEW now \in Times
  PROVE  /\ Opening(Idle) /\ Opening(DeletingRoom) /\ Opening(Clearing(rec)) /\ Opening(Deciding(rec))
         /\ Opening(Request("sweep", "list_rooms", None, now, rec, Blank))
         /\ \A op \in {"start", "room_started"}, at \in Times : Opening(Reread(op, at, now))
         /\ \A op \in {"archive", "edit"} : Opening(Request(op, "write", None, None, Blank, rec))
BY DEF Opening, Idle, DeletingRoom, Clearing, Deciding, Reread, Request, Blank

LEMMA NothingEndsInit == Init => NothingEndsIt
<1> SUFFICES ASSUME Init PROVE NothingEndsIt
  OBVIOUS
<1>1. Opening(Idle)
  BY DEF Opening, Idle, Request, Blank
<1> QED BY <1>1 DEF Init, NothingEndsIt

LEMMA NothingEndsNext == IndTypeOK /\ NothingEndsIt /\ [Next]_vars => NothingEndsIt'
<1> SUFFICES ASSUME IndTypeOK, NothingEndsIt, [Next]_vars, IsPermanent, InitState # "ended"
             PROVE  ev'.state # "ended" /\ \A r \in Requests : Opening(req'[r])
  BY DEF NothingEndsIt, Opening
<1> USE DEF IndTypeOK, TypeOK
<1>0. ev.state # "ended" /\ \A r \in Requests : Opening(req[r])
  BY DEF NothingEndsIt
<1>a. IsPermanent /\ clock \in Times /\ None \in Times
  BY DEF CanEnd, Times
<1>1. CASE Tick \/ RoomOpens \/ RoomCloses \/ HookLost \/ UNCHANGED vars
  BY <1>0, <1>1 DEF Tick, RoomOpens, RoomCloses, HookLost, vars
<1>2. ASSUME NEW r \in Requests,
             BeginStart(r) \/ BeginEnd(r) \/ BeginArchive(r) \/ BeginEdit(r) \/ BeginJoin(r)
      PROVE  ev'.state # "ended" /\ \A s \in Requests : Opening(req'[s])
  <2>1. ev' = ev
    BY <1>2 DEF BeginStart, BeginEnd, CanEnd, BeginArchive, BeginEdit, BeginJoin, Asked
  <2>2. ~BeginJoin(r)
    BY <1>0 DEF BeginJoin, ReopensOnJoin, CanEnd
  <2>3. \E q \in Reqs : Opening(q) /\ req' = [req EXCEPT ![r] = q]
    <3>1. Reread("start", clock, None) \in Reqs /\ Opening(Reread("start", clock, None))
      BY <1>0, <1>a, RereadType, OpeningRequests DEF OpNames, AllOps
    <3>2. \A op \in {"archive", "edit"} : Updating(op) \in Reqs /\ Opening(Updating(op))
      BY <1>0, <1>a, UpdatingType, OpeningRequests DEF OpNames, AllOps, Updating
    <3>3. DeletingRoom \in Reqs /\ Opening(DeletingRoom)
      BY <1>0, <1>a, FixedTypes, OpeningRequests
    <3> QED
      BY <1>2, <1>a, <2>2, <3>1, <3>2, <3>3 DEF BeginStart, BeginEnd, CanEnd, BeginArchive, BeginEdit, Take
  <2> QED BY <1>0, <2>1, <2>3, OpeningStep
<1>3. ASSUME NEW r \in Requests, ReceiveRoomStarted(r)
      PROVE  ev'.state # "ended" /\ \A s \in Requests : Opening(req'[s])
  <2>1. PICK h \in hooks : ReceiveRoomStarted(r)!(h)
    BY <1>3 DEF ReceiveRoomStarted
  <2> DEFINE at == h.at
  <2>2. at \in Times
    BY DEF Hooks, Times
  <2>3. req' = req \/ req' = [req EXCEPT ![r] = Reread("room_started", at, clock)]
    BY <2>1
  <2> HIDE DEF at
  <2>4. Reread("room_started", at, clock) \in Reqs /\ Opening(Reread("room_started", at, clock))
    BY <1>0, <1>a, <2>2, RereadType, OpeningRequests DEF OpNames
  <2> QED BY <1>0, <2>1, <2>3, <2>4, OpeningStep
<1>4. ASSUME NEW r \in Requests, ReceiveRoomFinished(r)
      PROVE  ev'.state # "ended" /\ \A s \in Requests : Opening(req'[s])
  <2>1. PICK h \in hooks, c \in BOOLEAN : ReceiveRoomFinished(r)!(h, c)
    BY <1>4 DEF ReceiveRoomFinished
  <2>2. \E q \in Reqs : Opening(q) /\ req' = [req EXCEPT ![r] = q]
    BY <1>0, <1>a, <2>1, OpeningRequests, ReadingTypes
  <2> QED BY <1>0, <2>1, <2>2, OpeningStep
<1>5. ASSUME NEW r \in Requests, BeginSweep(r) \/ DecideSweep(r) \/ DecideRoomFinished(r)
      PROVE  ev'.state # "ended" /\ \A s \in Requests : Opening(req'[s])
  <2>1. ev' = ev
    BY <1>5 DEF BeginSweep, DecideSweep, DecideRoomFinished
  <2>2. ~SweepEnds(req[r].read, room, req[r].now) /\ ~EndsWhenRoomFinishes(req[r].read, clock)
    BY <1>a DEF SweepEnds, CanEnd, EndsWhenRoomFinishes
  <2>3. \/ req' = [req EXCEPT ![r] = Idle]
        \/ req' = [req EXCEPT ![r] = Request("sweep", "list_rooms", None, clock, ev, Blank)]
    BY <1>5, <2>2 DEF BeginSweep, DecideSweep, DecideRoomFinished, Take
  <2>4. \E q \in Reqs : Opening(q) /\ req' = [req EXCEPT ![r] = q]
    BY <1>0, <1>a, <2>3, FixedTypes, SweepingType, OpeningRequests
  <2> QED BY <1>0, <2>1, <2>4, OpeningStep
<1>6. ASSUME NEW r \in Requests, UpdateRead(r)
      PROVE  ev'.state # "ended" /\ \A s \in Requests : Opening(req'[s])
  <2> DEFINE q == [req[r] EXCEPT !.pc = "write", !.prev = ev]
  <2>1. req' = [req EXCEPT ![r] = q] /\ ev' = ev
    BY <1>6 DEF UpdateRead
  <2>2. q \in Reqs /\ Opening(q)
    BY <1>0, <1>6 DEF UpdateRead, Reqs, Pcs, Opening
  <2> HIDE DEF q
  <2> QED BY <1>0, <2>1, <2>2, OpeningStep
<1>7. ASSUME NEW r \in Requests, UpdateWrite(r)
      PROVE  ev'.state # "ended" /\ \A s \in Requests : Opening(req'[s])
  <2>1. req[r] \in Reqs /\ Opening(req[r]) /\ req[r].pc = "write"
    BY <1>0, <1>7 DEF UpdateWrite
  <2>2. req[r].op \in {"start", "room_started", "archive", "edit", "clear"}
    BY <2>1 DEF Reqs, Busy, Opening, OpNames, AllOps
  <2>3. req[r].prev \in Records /\ req[r].read \in Records /\ req[r].prev.state # "ended"
    BY <2>1 DEF Reqs, Opening
  <2>4. Patched(req[r]) \in {WentLive(req[r].prev, req[r].at), NotedStart(req[r].prev, req[r].at),
                             Archived(req[r].prev), req[r].prev}
    BY <2>2 DEF Patched
  <2>5. ev'.state # "ended"
    <3>1. ev' = Patched(req[r])
      BY <1>7 DEF UpdateWrite
    <3> QED BY <2>3, <2>4, <3>1 DEF WentLive, NotedStart, Archived, Records
  <2>6. \/ req' = [req EXCEPT ![r] = DeletingRoom]
        \/ req' = [req EXCEPT ![r] = Deciding(req[r].read)]
        \/ req' = [req EXCEPT ![r] = Idle]
    BY <1>7 DEF UpdateWrite
  <2>7. req[r].read.state # "ended"
    BY <2>1 DEF Opening
  <2>8. \E q \in Reqs : Opening(q) /\ req' = [req EXCEPT ![r] = q]
    BY <1>a, <2>3, <2>6, <2>7, OpeningRequests, FixedTypes, ReadingTypes
  <2> QED BY <1>0, <2>5, <2>8, OpeningStep
<1>8. ASSUME NEW r \in Requests, DeleteRoom(r)
      PROVE  ev'.state # "ended" /\ \A s \in Requests : Opening(req'[s])
  <2>1. Idle \in Reqs /\ Opening(Idle)
    BY <1>0, <1>a, FixedTypes, OpeningRequests
  <2> QED BY <1>0, <1>8, <2>1, OpeningStep DEF DeleteRoom
<1> QED
  BY <1>1, <1>2, <1>3, <1>4, <1>5, <1>6, <1>7, <1>8 DEF Next, Receives, Steps

\* A permanent room that was not found ended never becomes an ended meeting,
\* however many webhooks, sweeps, Ends and edits overlap.
THEOREM AlwaysOpenNeverEnds == InitState # "ended" => (Spec => AlwaysOpenStaysOpen)
<1> SUFFICES ASSUME InitState # "ended" PROVE Spec => AlwaysOpenStaysOpen
  OBVIOUS
<1>1. NothingEndsIt' => (IsPermanent /\ ev.state # "ended" => ev'.state # "ended")
  BY DEF NothingEndsIt
<1> QED BY <1>1, NothingEndsInit, NothingEndsNext, IndTypeCorrect, PTL DEF Spec, AlwaysOpenStaysOpen
----------------------------------------------------------------------------
(* EndedOnPurposeStays, for requests handled one at a time: what a request *)
(* has read is the record still, so it is the record that it judged.       *)

OneRequest == \A r, s \in Requests : r = s

\* A request while the record is e.
Current(q, e) ==
  /\ q.pc = "write" => q.prev = e
  /\ q.pc \in {"decide", "list_rooms"} \/ q.op = "clear" => q.read = e
  /\ q.op \in {"room_finished", "sweep"} /\ q.pc \in {"reread", "write"} => e.state # "ended"
  /\ q.op = "end" /\ q.pc \in {"reread", "write"} => ~IsPermanent
  /\ q.op = "join" => IsPermanent

\* A room that is always open was never ended by its host.
AllCurrent ==
  /\ \A r \in Requests : Current(req[r], ev)
  /\ IsPermanent => ev.endedBy # "host"

LEMMA CurrentRequests ==
  ASSUME NEW e \in Records
  PROVE  /\ Current(Idle, e) /\ Current(DeletingRoom, e)
         /\ Current(Clearing(e), e) /\ Current(Deciding(e), e)
         /\ \A now : Current(Request("sweep", "list_rooms", None, now, e, Blank), e)
         /\ \A at, now : /\ Current(Reread("start", at, now), e)
                         /\ Current(Reread("room_started", at, now), e)
                         /\ IsPermanent => Current(Reread("join", at, now), e)
                         /\ e.state # "ended" => /\ Current(Reread("room_finished", at, now), e)
                                                 /\ Current(Reread("sweep", at, now), e)
         /\ \A op \in {"archive", "edit"} : Current(Request(op, "write", None, None, Blank, e), e)
         /\ ~IsPermanent => Current(Request("end", "write", None, None, Blank, e), e)
BY DEF Current, Idle, DeletingRoom, Clearing, Deciding, Reread, Request

LEMMA CurrentStep ==
  ASSUME IndTypeOK, OneRequest, NEW r \in Requests, NEW q, req' = [req EXCEPT ![r] = q],
         Current(q, ev'), IsPermanent => ev'.endedBy # "host"
  PROVE  AllCurrent'
BY DEF IndTypeOK, TypeOK, OneRequest, AllCurrent, Current

LEMMA CurrentInit == Init => AllCurrent
<1> SUFFICES ASSUME Init PROVE AllCurrent
  OBVIOUS
<1>1. ev \in Records /\ ev.endedBy # "host" /\ \A r \in Requests : req[r] = Idle
  BY DEF Init, Records, States, EndedBy, Times, None
<1> QED BY <1>1, CurrentRequests DEF AllCurrent

\* What a write makes of the record, when the copy it patches is the record.
LEMMA WriteOfCurrent ==
  ASSUME IndTypeOK, AllCurrent, NEW r \in Requests, UpdateWrite(r)
  PROVE  /\ IsPermanent => ev'.endedBy # "host"
         /\ req[r].op = "clear" => ev' = ev
         /\ EndedOnPurpose /\ req[r].op \notin {"start", "archive"} => EndedOnPurpose'
<1> DEFINE q == req[r]
<1>1. q \in Reqs /\ q.prev = ev /\ q.op \in OpNames \ {"none"} /\ ev' = Patched(q) /\ ev \in Records
  BY DEF UpdateWrite, IndTypeOK, TypeOK, Busy, AllCurrent, Current, Reqs
<1>2. Current(q, ev) /\ q.pc = "write" /\ (IsPermanent => ev.endedBy # "host")
  BY DEF UpdateWrite, AllCurrent
<1> HIDE DEF q
<1>3. CASE q.op = "start"
  <2>1. ev'.endedBy = "nobody"
    BY <1>1, <1>3 DEF Patched, WentLive
  <2> QED BY <1>3, <2>1 DEF q
<1>4. CASE q.op = "room_started"
  <2>1. CASE GoesLiveWhenRoomStarts(q.prev, q.now)
    <3>1. ev'.endedBy = "nobody" /\ ~EndedOnPurpose
      BY <1>1, <1>4, <2>1 DEF Patched, WentLive, GoesLiveWhenRoomStarts, EndedByEmptyRoom, EndedOnPurpose
    <3> QED BY <1>4, <3>1 DEF q
  <2>2. CASE ~GoesLiveWhenRoomStarts(q.prev, q.now)
    <3>1. ev' = NotedStart(ev, q.at)
      BY <1>1, <1>4, <2>2 DEF Patched
    <3>2. ev'.endedBy = ev.endedBy /\ ev'.state = ev.state
      BY <1>1, <3>1 DEF NotedStart, Records
    <3> QED BY <1>2, <1>4, <3>2 DEF EndedOnPurpose, q
  <2> QED BY <2>1, <2>2
<1>5. CASE q.op = "end"
  <2>1. ev'.endedBy = "host" /\ ev'.state = "ended" /\ ~IsPermanent
    BY <1>1, <1>2, <1>5 DEF Patched, EndedAs, Records, Current
  <2> QED BY <1>5, <2>1 DEF EndedOnPurpose, q
<1>6. CASE q.op \in {"room_finished", "sweep"}
  <2>1. ev'.endedBy = "room_empty" /\ ~EndedOnPurpose
    BY <1>1, <1>2, <1>6 DEF Patched, EndedAs, Records, Current, EndedOnPurpose
  <2> QED BY <1>6, <2>1 DEF q
<1>7. CASE q.op \in {"archive", "join"}
  <2>1. ev'.endedBy = ev.endedBy
    BY <1>1, <1>7 DEF Patched, Archived, Reopened, Records
  <2>2. q.op = "join" => ~EndedOnPurpose
    BY <1>2 DEF Current, EndedOnPurpose
  <2> QED BY <1>2, <1>7, <2>1, <2>2 DEF q
<1>8. CASE q.op \in {"edit", "clear"}
  <2>1. ev' = ev
    BY <1>1, <1>8 DEF Patched
  <2> QED BY <1>2, <2>1 DEF EndedOnPurpose
<1> QED
  BY <1>1, <1>3, <1>4, <1>5, <1>6, <1>7, <1>8 DEF OpNames, AllOps

LEMMA CurrentNext == OneRequest /\ IndTypeOK /\ AllCurrent /\ [Next]_vars => AllCurrent'
<1> SUFFICES ASSUME OneRequest, IndTypeOK, AllCurrent, [Next]_vars PROVE AllCurrent'
  OBVIOUS
<1>1. ev \in Records /\ (IsPermanent => ev.endedBy # "host")
  BY DEF IndTypeOK, TypeOK, AllCurrent
<1>2. ASSUME UNCHANGED <<ev, req>> PROVE AllCurrent'
  BY <1>2 DEF AllCurrent, Current
<1>3. ASSUME NEW r \in Requests, NEW q, ev' = ev, req' = [req EXCEPT ![r] = q], Current(q, ev)
      PROVE  AllCurrent'
  <2>1. Current(q, ev')
    BY <1>3
  <2> QED BY <1>1, <1>3, <2>1, CurrentStep
<1>4. CASE Tick \/ RoomOpens \/ RoomCloses \/ HookLost \/ UNCHANGED vars
  BY <1>2, <1>4 DEF Tick, RoomOpens, RoomCloses, HookLost, vars
<1>5. ASSUME NEW r \in Requests,
             BeginStart(r) \/ BeginEnd(r) \/ BeginArchive(r) \/ BeginEdit(r) \/ BeginJoin(r)
      PROVE  AllCurrent'
  <2>1. ev' = ev
    BY <1>5 DEF BeginStart, BeginEnd, CanEnd, BeginArchive, BeginEdit, BeginJoin, Asked
  <2> QED
    BY <1>1, <1>3, <1>5, <2>1, CurrentRequests
    DEF BeginStart, BeginEnd, CanEnd, BeginArchive, BeginEdit, BeginJoin, Take, Updating, ReopensOnJoin
<1>6. ASSUME NEW r \in Requests, Receives(r) PROVE AllCurrent'
  <2>1. CASE ReceiveRoomStarted(r)
    BY <1>1, <1>2, <1>3, <2>1, CurrentRequests DEF ReceiveRoomStarted
  <2>2. CASE ReceiveRoomFinished(r)
    BY <1>1, <1>3, <2>2, CurrentRequests DEF ReceiveRoomFinished
  <2> QED BY <1>6, <2>1, <2>2 DEF Receives
<1>7. ASSUME NEW r \in Requests, BeginSweep(r) PROVE AllCurrent'
  BY <1>1, <1>3, <1>7, CurrentRequests DEF BeginSweep, Take
<1>8. ASSUME NEW r \in Requests, DecideRoomFinished(r) \/ DecideSweep(r) PROVE AllCurrent'
  <2>1. Current(req[r], ev)
    BY DEF AllCurrent
  <2>2. EndsWhenRoomFinishes(ev, clock) => ev.state # "ended"
    BY DEF EndsWhenRoomFinishes, CanEnd, IsInProgress
  <2>3. SweepEnds(ev, room, req[r].now) => ev.state # "ended"
    BY DEF SweepEnds, CanEnd, IsInProgress
  <2>4. req[r].read = ev /\ ev' = ev
    BY <1>8, <2>1 DEF Current, DecideRoomFinished, DecideSweep
  <2> QED
    BY <1>1, <1>3, <1>8, <2>2, <2>3, <2>4, CurrentRequests DEF DecideRoomFinished, DecideSweep
<1>9. ASSUME NEW r \in Requests, UpdateRead(r) PROVE AllCurrent'
  <2> DEFINE q == [req[r] EXCEPT !.pc = "write", !.prev = ev]
  <2>1. req[r] \in Reqs /\ Current(req[r], ev) /\ req[r].pc = "reread"
    BY <1>9 DEF IndTypeOK, TypeOK, AllCurrent, UpdateRead
  <2>2. q.pc = "write" /\ q.prev = ev /\ q.op = req[r].op /\ q.read = req[r].read
    BY <2>1 DEF Reqs
  <2>3. ev' = ev /\ req' = [req EXCEPT ![r] = q]
    BY <1>9 DEF UpdateRead
  <2> HIDE DEF q
  <2>4. Current(q, ev)
    BY <2>1, <2>2 DEF Current
  <2> QED BY <1>3, <2>3, <2>4
<1>10. ASSUME NEW r \in Requests, UpdateWrite(r) PROVE AllCurrent'
  <2>1. ev' \in Records /\ (IsPermanent => ev'.endedBy # "host") /\ (req[r].op = "clear" => ev' = ev)
    BY <1>10, IndTypeNext, WriteOfCurrent DEF IndTypeOK, TypeOK
  <2>2. req[r].op = "clear" => req[r].read = ev
    BY DEF AllCurrent, Current
  <2>3. \/ req' = [req EXCEPT ![r] = DeletingRoom]
        \/ req' = [req EXCEPT ![r] = Deciding(req[r].read)] /\ req[r].op = "clear"
        \/ req' = [req EXCEPT ![r] = Idle]
    BY <1>10 DEF UpdateWrite
  <2> QED BY <2>1, <2>2, <2>3, CurrentRequests, CurrentStep
<1>11. ASSUME NEW r \in Requests, DeleteRoom(r) PROVE AllCurrent'
  BY <1>1, <1>3, <1>11, CurrentRequests DEF DeleteRoom
<1> QED
  BY <1>4, <1>5, <1>6, <1>7, <1>8, <1>9, <1>10, <1>11 DEF Next, Steps

\* With requests one at a time, a meeting that its host ended stays ended by
\* its host until somebody starts or archives it, whatever LiveKit reports
\* late, out of order or not at all, and however often it is swept, edited
\* or joined.
THEOREM HostsEndStays == OneRequest => (Spec => EndedOnPurposeStays)
<1> SUFFICES ASSUME OneRequest PROVE Spec => EndedOnPurposeStays
  OBVIOUS
<1>1. IndTypeOK /\ AllCurrent /\ [Next]_vars => AllCurrent'
  BY CurrentNext
<1>2. IndTypeOK /\ AllCurrent /\ [Next]_vars => KeepsEnd
  <2> SUFFICES ASSUME IndTypeOK, AllCurrent, [Next]_vars, EndedOnPurpose,
                      ~Wrote("start"), ~Wrote("archive")
               PROVE  EndedOnPurpose'
    BY DEF KeepsEnd
  <2>1. CASE ev' = ev
    BY <2>1 DEF EndedOnPurpose
  <2>2. ASSUME NEW r \in Requests, UpdateWrite(r) PROVE EndedOnPurpose'
    <3>1. req'[r].pc # "write"
      BY <2>2 DEF UpdateWrite, IndTypeOK, TypeOK, DeletingRoom, Deciding, Idle, Request
    <3>2. req[r].op \notin {"start", "archive"}
      BY <2>2, <3>1 DEF Wrote, UpdateWrite
    <3> QED BY <2>2, <3>2, WriteOfCurrent
  <2> QED
    BY <2>1, <2>2 DEF Next, Steps, Receives, Tick, RoomOpens, RoomCloses, HookLost, BeginStart, BeginEnd, CanEnd,
       BeginArchive, BeginEdit, BeginJoin, Asked, ReceiveRoomStarted, ReceiveRoomFinished, BeginSweep,
       DecideRoomFinished, DecideSweep, UpdateRead, DeleteRoom, vars
<1> QED BY <1>1, <1>2, CurrentInit, IndTypeCorrect, PTL DEF Spec, EndedOnPurposeStays
=============================================================================
