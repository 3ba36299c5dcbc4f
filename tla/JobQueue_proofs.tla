-------------------------- MODULE JobQueue_proofs --------------------------
(***************************************************************************)
(* The job queue, for any jobs, callers and ticks: its types and, as long  *)
(* as no caller writes a job while a tick claims, that overlapping ticks   *)
(* never run a job twice and that a queued job is whole.                   *)
(***************************************************************************)
EXTENDS JobQueue, TLAPS

TickRecords == [pc : TickPcs, now : Nat, until : Nat, ids : SUBSET Jobs, job : Jobs,
                read : Blobs, got : SUBSET Blobs]
CallerRecords == [pc : CallerPcs, ids : SUBSET Jobs, todo : SUBSET Plans, job : Jobs, at : Int]

\* Type correctness as an inductive invariant: a blob's number was given
\* out, and only a real blob is ever claimed.
Numbered(b) == b \in Blobs /\ b.no <= scheduled /\ (b.no = 0 => b = NoBlob)
IndTypeOK ==
  /\ clock \in Nat /\ clock <= MaxTime
  /\ due \in [Jobs -> Int]
  /\ blob \in [Jobs -> Blobs] /\ \A j \in Jobs : Numbered(blob[j])
  /\ index \subseteq Jobs /\ indexUntil \in Nat \cup {Forever}
  /\ lock \in Nat
  /\ caller \in [Callers -> CallerRecords]
  /\ tick \in [Ticks -> TickRecords]
  /\ \A t \in Ticks : Numbered(tick[t].read)
  /\ \A t \in Ticks : \A b \in tick[t].got : Numbered(b) /\ b.no # 0
  /\ \A t \in Ticks : tick[t].pc = "srem" => tick[t].read # NoBlob
  /\ scheduled \in Nat /\ scheduled <= MaxSchedules
  /\ cancels \in Nat /\ cancels <= MaxCancels
  /\ stopped \in Nat /\ stopped <= MaxStops
  /\ runs \in [1..MaxSchedules -> Nat] /\ loose \subseteq Jobs

LEMMA NobodysJobType == NobodysJob \in Jobs
BY QueueAssumption DEF NobodysJob

LEMMA NoBlobType == NoBlob \in Blobs /\ NoBlob.no = 0
BY DEF NoBlob, Blobs

LEMMA IdleTypes == IdleTick \in TickRecords /\ IdleCaller \in CallerRecords
BY NobodysJobType, NoBlobType DEF IdleTick, IdleCaller, TickRecords, CallerRecords, TickPcs, CallerPcs, Plans

LEMMA IndTypeInit == Init => IndTypeOK
<1> SUFFICES ASSUME Init PROVE IndTypeOK OBVIOUS
<1>1. \A t \in Ticks : tick[t] = IdleTick /\ IdleTick.read = NoBlob /\ IdleTick.got = {} /\ IdleTick.pc = "idle"
  BY DEF Init, IdleTick
<1>2. Numbered(NoBlob)
  BY NoBlobType DEF Init, Numbered
<1> QED
  BY <1>1, <1>2, IdleTypes, NoBlobType, QueueAssumption DEF Init, IndTypeOK, None, CallerRecords, TickRecords

----------------------------------------------------------------------------
(* What a step may do to one tick and to one caller.                       *)

LEMMA TickStep ==
  ASSUME IndTypeOK, NEW t \in Ticks, NEW q \in TickRecords,
         TickGoes(t, q), Numbered(q.read), \A b \in q.got : Numbered(b) /\ b.no # 0,
         q.pc = "srem" => q.read # NoBlob
  PROVE  /\ tick' \in [Ticks -> TickRecords]
         /\ \A u \in Ticks : Numbered(tick'[u].read)
         /\ \A u \in Ticks : \A b \in tick'[u].got : Numbered(b) /\ b.no # 0
         /\ \A u \in Ticks : tick'[u].pc = "srem" => tick'[u].read # NoBlob
         /\ tick'[t] = q
         /\ \A u \in Ticks \ {t} : tick'[u] = tick[u]
<1>1. tick' = [tick EXCEPT ![t] = q]
  BY DEF TickGoes
<1>2. tick \in [Ticks -> TickRecords]
  BY DEF IndTypeOK
<1>3. tick' \in [Ticks -> TickRecords] /\ tick'[t] = q /\ \A u \in Ticks \ {t} : tick'[u] = tick[u]
  BY <1>1, <1>2
<1> QED
  BY <1>3 DEF IndTypeOK

LEMMA CallerStep ==
  ASSUME IndTypeOK, NEW c \in Callers, NEW q \in CallerRecords, CallerGoes(c, q)
  PROVE  caller' \in [Callers -> CallerRecords]
BY DEF CallerGoes, IndTypeOK

\* Everything of IndTypeOK is kept when tick is, and blobs are only dropped.
LEMMA CalmType ==
  ASSUME IndTypeOK, UNCHANGED <<tick, scheduled, runs>>,
         clock' \in Nat, clock' <= MaxTime, due' \in [Jobs -> Int],
         index' \subseteq Jobs, indexUntil' \in Nat \cup {Forever},
         lock' \in Nat, caller' \in [Callers -> CallerRecords],
         cancels' \in Nat, cancels' <= MaxCancels,
         stopped' \in Nat, stopped' <= MaxStops, loose' \subseteq Jobs,
         blob' = [j \in Jobs |-> IF blob'[j] = NoBlob THEN NoBlob ELSE blob[j]]
  PROVE  IndTypeOK'
<1>1. \A j \in Jobs : blob'[j] = NoBlob \/ blob'[j] = blob[j]
  OBVIOUS
<1>2. blob' \in [Jobs -> Blobs]
  BY <1>1, NoBlobType DEF IndTypeOK
<1>3. \A j \in Jobs : blob'[j] \in Blobs /\ blob'[j].no <= scheduled /\ (blob'[j].no = 0 => blob'[j] = NoBlob)
  BY <1>1, NoBlobType DEF IndTypeOK, Numbered
<1>4. (\A j \in Jobs : Numbered(blob[j]))'
  BY <1>3 DEF Numbered
<1>5. (\A t \in Ticks : Numbered(tick[t].read))' /\ (\A t \in Ticks : \A b \in tick[t].got : Numbered(b) /\ b.no # 0)'
  BY DEF Numbered, IndTypeOK
<1> QED
  BY <1>2, <1>4, <1>5 DEF IndTypeOK
LEMMA TickType ==
  ASSUME IndTypeOK, NEW t \in Ticks, NEW q \in TickRecords,
         TickGoes(t, q), Numbered(q.read), \A b \in q.got : Numbered(b) /\ b.no # 0,
         q.pc = "srem" => q.read # NoBlob,
         UNCHANGED <<clock, indexUntil, caller, scheduled, cancels, stopped, loose>>,
         due' \in [Jobs -> Int], index' \subseteq Jobs, lock' \in Nat,
         runs' \in [1..MaxSchedules -> Nat],
         blob' = [j \in Jobs |-> IF blob'[j] = NoBlob THEN NoBlob ELSE blob[j]]
  PROVE  IndTypeOK'
<1>1. \A j \in Jobs : blob'[j] = NoBlob \/ blob'[j] = blob[j]
  OBVIOUS
<1>2. blob' \in [Jobs -> Blobs]
  BY <1>1, NoBlobType DEF IndTypeOK
<1>3. \A j \in Jobs : blob'[j].no <= scheduled /\ (blob'[j].no = 0 => blob'[j] = NoBlob)
  BY <1>1, NoBlobType DEF IndTypeOK, Numbered
<1>4. (\A j \in Jobs : Numbered(blob[j]))'
  BY <1>2, <1>3 DEF Numbered
<1>5. (\A u \in Ticks : Numbered(tick[u].read))' /\ (\A u \in Ticks : \A b \in tick[u].got : Numbered(b) /\ b.no # 0)'
  BY TickStep DEF Numbered
<1>6. tick' \in [Ticks -> TickRecords] /\ \A u \in Ticks : tick'[u].pc = "srem" => tick'[u].read # NoBlob
  BY TickStep
<1> QED
  BY <1>2, <1>4, <1>5, <1>6 DEF IndTypeOK

LEMMA MembersType == ASSUME IndTypeOK PROVE Members \subseteq Jobs
BY DEF IndTypeOK, Members

LEMMA WithNextType == ASSUME IndTypeOK, NEW c \in Callers PROVE WithNext(c) \in CallerRecords
BY IdleTypes DEF IndTypeOK, WithNext, CallerRecords, CallerPcs

\* What a caller's step does to the shared state, when it writes no blob.
LEMMA CallerType ==
  ASSUME IndTypeOK, NEW c \in Callers, CallerSteps(c), ~ScheduleSet(c)
  PROVE  IndTypeOK'
<1> DEFINE q == caller[c]
<1>1. q \in CallerRecords
  BY DEF IndTypeOK
<1>2. CASE CancelSmembers(c)
  <2>1. [q EXCEPT !.ids = Members, !.pc = IF Members = {} THEN "del_index" ELSE "zrem"] \in CallerRecords
    BY <1>1, MembersType DEF CallerRecords, CallerPcs
  <2> QED
    BY <1>2, <2>1, CallerStep, CalmType DEF CancelSmembers, IndTypeOK
<1>3. CASE CancelZrem(c)
  <2>1. [q EXCEPT !.pc = "del"] \in CallerRecords
    BY <1>1 DEF CallerRecords, CallerPcs
  <2>2. due' \in [Jobs -> Int]
    BY <1>3 DEF CancelZrem, IndTypeOK, None
  <2> QED
    BY <1>3, <2>1, <2>2, CallerStep, CalmType DEF CancelZrem, IndTypeOK
<1>4. CASE CancelDel(c)
  <2>1. [q EXCEPT !.pc = "del_index"] \in CallerRecords
    BY <1>1 DEF CallerRecords, CallerPcs
  <2>2. blob' = [j \in Jobs |-> IF blob'[j] = NoBlob THEN NoBlob ELSE blob[j]]
    BY <1>4 DEF CancelDel
  <2> QED
    BY <1>4, <2>1, <2>2, CallerStep, CalmType DEF CancelDel, IndTypeOK
<1>5. WithNext(c) \in CallerRecords
  BY WithNextType
<1>6. CASE CancelDelIndex(c)
  BY <1>6, <1>5, CallerStep, CalmType DEF CancelDelIndex, IndTypeOK
<1>7. CASE ScheduleZadd(c)
  <2>1. [q EXCEPT !.pc = "sadd"] \in CallerRecords
    BY <1>1 DEF CallerRecords, CallerPcs
  <2>2. due' \in [Jobs -> Int]
    BY <1>7, <1>1 DEF ScheduleZadd, IndTypeOK, Score, CallerRecords
  <2> QED
    BY <1>7, <2>1, <2>2, CallerStep, CalmType DEF ScheduleZadd, IndTypeOK
<1>8. CASE ScheduleSadd(c)
  <2>1. index' \subseteq Jobs
    BY <1>8, <1>1, MembersType DEF ScheduleSadd, Indexed, CallerRecords
  <2>2. [q EXCEPT !.pc = "expire"] \in CallerRecords
    BY <1>1 DEF CallerRecords, CallerPcs
  <2> QED
    BY <1>8, <2>1, <2>2, CallerStep, CalmType DEF ScheduleSadd, IndTypeOK
<1>9. CASE ScheduleExpire(c)
  <2>1. indexUntil' \in Nat \cup {Forever} /\ loose' \subseteq Jobs
    BY <1>9, <1>1, QueueAssumption DEF ScheduleExpire, IndTypeOK, CallerRecords
  <2> QED
    BY <1>9, <1>5, <2>1, CallerStep, CalmType DEF ScheduleExpire, IndTypeOK
<1> QED
  BY <1>2, <1>3, <1>4, <1>6, <1>7, <1>8, <1>9 DEF CallerSteps

LEMMA CallerStopsType ==
  ASSUME IndTypeOK, NEW c \in Callers, CallerStops(c)
  PROVE  IndTypeOK'
<1>1. stopped' \in Nat /\ stopped' <= MaxStops /\ loose' \subseteq Jobs
  BY QueueAssumption DEF CallerStops, IndTypeOK, CallerRecords
<1> QED
  BY <1>1, IdleTypes, CallerStep, CalmType DEF CallerStops, IndTypeOK

LEMMA BeginCallType ==
  ASSUME IndTypeOK, NEW c \in Callers, NEW q \in CallerRecords, BeginCall(c, q),
         cancels' \in Nat, cancels' <= MaxCancels
  PROVE  IndTypeOK'
BY CallerStep, CalmType DEF BeginCall, IndTypeOK
LEMMA BeginsType ==
  ASSUME IndTypeOK, NEW c \in Callers, BeginSchedule(c) \/ BeginCancel(c) \/ BeginReplan(c)
  PROVE  IndTypeOK'
<1>1. CASE BeginSchedule(c)
  <2>1. PICK j \in Jobs, at \in clock .. clock + MaxAhead :
          /\ BeginCall(c, [IdleCaller EXCEPT !.pc = "next", !.todo = {[job |-> j, at |-> at]}])
          /\ UNCHANGED cancels
    BY <1>1 DEF BeginSchedule
  <2>2. [job |-> j, at |-> at] \in Plans
    BY QueueAssumption DEF Plans, IndTypeOK
  <2>3. [IdleCaller EXCEPT !.pc = "next", !.todo = {[job |-> j, at |-> at]}] \in CallerRecords
    BY <2>2, IdleTypes DEF CallerRecords, CallerPcs
  <2> QED
    BY <2>1, <2>3, BeginCallType DEF IndTypeOK
<1>2. CASE BeginCancel(c)
  <2>1. [IdleCaller EXCEPT !.pc = "smembers"] \in CallerRecords
    BY IdleTypes DEF CallerRecords, CallerPcs
  <2>2. cancels < MaxCancels /\ cancels' = cancels + 1
        /\ BeginCall(c, [IdleCaller EXCEPT !.pc = "smembers"])
    BY <1>2 DEF BeginCancel
  <2>3. cancels' \in Nat /\ cancels' <= MaxCancels
    BY <2>2, QueueAssumption DEF IndTypeOK
  <2> QED
    BY <2>1, <2>2, <2>3, BeginCallType
<1>3. CASE BeginReplan(c)
  <2> DEFINE plan(start) == {[job |-> j, at |-> start - Lead[j]] : j \in Jobs}
             q(start) == [IdleCaller EXCEPT !.pc = "smembers", !.todo = {p \in plan(start) : p.at >= clock}]
  <2>1. PICK start \in clock .. clock + MaxAhead : BeginCall(c, q(start))
    BY <1>3 DEF BeginReplan
  <2>2. \A j \in Jobs : [job |-> j, at |-> start - Lead[j]] \in Plans
    BY QueueAssumption DEF Plans, IndTypeOK
  <2>3. {p \in plan(start) : p.at >= clock} \subseteq Plans
    BY <2>2
  <2>4. q(start) \in CallerRecords
    BY <2>3, IdleTypes DEF CallerRecords, CallerPcs
  <2>5. cancels < MaxCancels /\ cancels' = cancels + 1
    BY <1>3 DEF BeginReplan
  <2>6. cancels' \in Nat /\ cancels' <= MaxCancels
    BY <2>5, QueueAssumption DEF IndTypeOK
  <2> QED
    BY <2>1, <2>4, <2>6, BeginCallType
<1> QED
  BY <1>1, <1>2, <1>3

LEMMA ScheduleSetType ==
  ASSUME IndTypeOK, NEW c \in Callers, ScheduleSet(c)
  PROVE  IndTypeOK'
<1> DEFINE new(p) == [no |-> scheduled + 1, fireAt |-> p.at, until |-> clock + BlobTTL]
<1>1. PICK p \in caller[c].todo :
        /\ scheduled < MaxSchedules /\ scheduled' = scheduled + 1
        /\ blob' = [blob EXCEPT ![p.job] = new(p)]
        /\ CallerGoes(c, [caller[c] EXCEPT !.pc = "zadd", !.todo = @ \ {p}, !.job = p.job, !.at = p.at])
        /\ UNCHANGED <<clock, due, index, indexUntil, lock, tick, cancels, stopped, runs, loose>>
  BY DEF ScheduleSet
<1>2. p \in Plans /\ caller[c] \in CallerRecords
  BY DEF IndTypeOK, CallerRecords
<1>3. [caller[c] EXCEPT !.pc = "zadd", !.todo = @ \ {p}, !.job = p.job, !.at = p.at] \in CallerRecords
  BY <1>2 DEF CallerRecords, CallerPcs, Plans
<1>4. new(p) \in Blobs /\ new(p).no = scheduled + 1
  BY <1>2, QueueAssumption DEF IndTypeOK, Blobs, Plans
<1>5. blob' \in [Jobs -> Blobs] /\ \A j \in Jobs : blob'[j] = blob[j] \/ blob'[j] = new(p)
  BY <1>1, <1>4 DEF IndTypeOK
<1>6. (\A j \in Jobs : Numbered(blob[j]))'
  BY <1>1, <1>4, <1>5 DEF Numbered, IndTypeOK, Blobs
<1>7. \A t \in Ticks : tick[t].read.no \in Nat /\ \A b \in tick[t].got : b.no \in Nat
  BY DEF IndTypeOK, TickRecords, Blobs
<1>8. (\A t \in Ticks : Numbered(tick[t].read))' /\ (\A t \in Ticks : \A b \in tick[t].got : Numbered(b) /\ b.no # 0)'
  BY <1>1, <1>7 DEF Numbered, IndTypeOK
<1>9. scheduled' \in Nat /\ scheduled' <= MaxSchedules
  BY <1>1, QueueAssumption DEF IndTypeOK
<1>10. caller' \in [Callers -> CallerRecords]
  BY <1>1, <1>3, CallerStep
<1> QED
  BY <1>1, <1>5, <1>6, <1>8, <1>9, <1>10 DEF IndTypeOK

LEMMA TicksType ==
  ASSUME IndTypeOK, NEW t \in Ticks, BeginTick(t) \/ TickSteps(t) \/ TickDies(t)
  PROVE  IndTypeOK'
<1> DEFINE q == tick[t]
<1>1. q \in TickRecords /\ Numbered(q.read) /\ (\A b \in q.got : Numbered(b) /\ b.no # 0)
     /\ (q.pc = "srem" => q.read # NoBlob) /\ q.pc \in TickPcs
  BY DEF IndTypeOK, TickRecords
<1>2. Numbered(NoBlob) /\ IdleTick \in TickRecords /\ IdleTick.read = NoBlob /\ IdleTick.got = {} /\ IdleTick.pc = "idle"
  BY IdleTypes, NoBlobType DEF Numbered, IdleTick, IndTypeOK
<1>3. CASE BeginTick(t)
  <2> DEFINE n == [IdleTick EXCEPT !.pc = "list", !.now = clock, !.until = clock + LockTime]
  <2>3. clock \in Nat /\ clock + LockTime \in Nat
    BY QueueAssumption DEF IndTypeOK
  <2>1. n \in TickRecords /\ n.read = NoBlob /\ n.got = {} /\ n.pc = "list"
    BY <1>2, <2>3 DEF TickRecords, TickPcs
  <2>2. lock' \in Nat
    BY <1>3, QueueAssumption DEF BeginTick, LockUntil, IndTypeOK
  <2> QED
    BY <1>2, <1>3, <2>1, <2>2, TickType DEF BeginTick, IndTypeOK
<1>4. CASE ListDue(t)
  <2> DEFINE n == [q EXCEPT !.ids = DueIds(q.now), !.pc = "claim"]
  <2>1. n \in TickRecords /\ n.read = q.read /\ n.got = q.got /\ (n.pc = "srem" => n.read # NoBlob)
    BY <1>1 DEF TickRecords, TickPcs, DueIds
  <2> QED
    BY <1>1, <1>4, <2>1, TickType DEF ListDue, IndTypeOK
<1>5. CASE ClaimZrem(t)
  <2>1. PICK j \in q.ids :
          /\ due' = [due EXCEPT ![j] = None]
          /\ TickGoes(t, IF Takes(j) THEN [q EXCEPT !.ids = @ \ {j}, !.job = j, !.pc = "get"]
                         ELSE [q EXCEPT !.ids = @ \ {j}])
          /\ UNCHANGED <<clock, blob, index, indexUntil, lock, caller, scheduled, cancels, stopped,
                         runs, loose>>
    BY <1>5 DEF ClaimZrem
  <2> DEFINE n == IF Takes(j) THEN [q EXCEPT !.ids = @ \ {j}, !.job = j, !.pc = "get"]
                  ELSE [q EXCEPT !.ids = @ \ {j}]
  <2>2. n \in TickRecords /\ n.read = q.read /\ n.got = q.got /\ (n.pc = "srem" => n.read # NoBlob)
    BY <1>1 DEF TickRecords, TickPcs
  <2>3. due' \in [Jobs -> Int]
    <3>1. None \in Int
      BY DEF None
    <3> QED
      BY ONLY <2>1, <3>1, IndTypeOK DEF IndTypeOK
  <2> QED
    BY <1>1, <2>1, <2>2, <2>3, TickType DEF IndTypeOK
<1>6. CASE ClaimGet(t)
  <2> DEFINE n == [q EXCEPT !.read = Read(q.job), !.pc = "del"]
  <2>1. Numbered(Read(q.job))
    BY <1>1, <1>2 DEF TickRecords, Read, IndTypeOK
  <2>2. n \in TickRecords /\ n.read = Read(q.job) /\ n.got = q.got /\ (n.pc = "srem" => n.read # NoBlob)
    BY <1>1, <2>1 DEF TickRecords, TickPcs, Numbered
  <2> QED
    BY <1>1, <1>6, <2>1, <2>2, TickType DEF ClaimGet, IndTypeOK
<1>7. CASE ClaimDel(t)
  <2> DEFINE n == [q EXCEPT !.pc = IF q.read = NoBlob THEN "claim" ELSE "srem"]
  <2>1. n \in TickRecords /\ n.read = q.read /\ n.got = q.got /\ (n.pc = "srem" => n.read # NoBlob)
    BY <1>1 DEF TickRecords, TickPcs
  <2>2. blob' = [j \in Jobs |-> IF blob'[j] = NoBlob THEN NoBlob ELSE blob[j]]
    BY <1>7 DEF ClaimDel, IndTypeOK
  <2> QED
    BY <1>1, <1>7, <2>1, <2>2, TickType DEF ClaimDel, IndTypeOK
<1>8. CASE EndClaim(t)
  <2> DEFINE n == [q EXCEPT !.pc = "run"]
  <2>1. n \in TickRecords /\ n.read = q.read /\ n.got = q.got /\ (n.pc = "srem" => n.read # NoBlob)
    BY <1>1 DEF TickRecords, TickPcs
  <2> QED
    BY <1>1, <1>8, <2>1, TickType DEF EndClaim, IndTypeOK
<1>9. CASE EndTick(t)
  BY <1>2, <1>9, TickType DEF EndTick, IndTypeOK
<1>10. CASE TickDies(t)
  BY <1>2, <1>10, TickType DEF TickDies, IndTypeOK
<1>11. CASE RunJob(t)
  <2>1. PICK b \in q.got :
          /\ runs' = [runs EXCEPT ![b.no] = @ + 1]
          /\ TickGoes(t, [q EXCEPT !.got = @ \ {b}])
          /\ UNCHANGED <<clock, due, blob, index, indexUntil, lock, caller, scheduled, cancels,
                         stopped, loose>>
    BY <1>11 DEF RunJob
  <2> DEFINE n == [q EXCEPT !.got = @ \ {b}]
  <2>2. n \in TickRecords /\ n.read = q.read /\ n.got = q.got \ {b} /\ n.pc = q.pc
    BY <1>1 DEF TickRecords
  <2>3. runs' \in [1..MaxSchedules -> Nat]
    <3>1. runs[b.no] + 1 \in Nat
      <4>1. b.no \in 1..MaxSchedules
        BY <1>1, QueueAssumption DEF Numbered, Blobs, IndTypeOK
      <4> QED
        BY <4>1 DEF IndTypeOK
    <3> QED
      BY ONLY <2>1, <3>1, IndTypeOK DEF IndTypeOK
  <2> QED
    BY <1>1, <2>1, <2>2, <2>3, TickType DEF IndTypeOK
<1>12. CASE ClaimSrem(t)
  <2> DEFINE n == [q EXCEPT !.got = @ \cup {q.read}, !.read = NoBlob, !.pc = "claim", !.job = NobodysJob]
  <2>1. n \in TickRecords /\ n.read = NoBlob /\ n.got = q.got \cup {q.read} /\ n.pc = "claim"
    BY <1>1, NobodysJobType, NoBlobType DEF TickRecords, TickPcs
  <2>2. q.read # NoBlob /\ q.read.no # 0
    BY <1>1, <1>12 DEF ClaimSrem, Numbered
  <2>3. index' \subseteq Jobs
    BY <1>12, MembersType DEF ClaimSrem
  <2> QED
    BY <1>1, <1>2, <1>12, <2>1, <2>2, <2>3, TickType DEF ClaimSrem, IndTypeOK
<1> QED
  BY <1>3, <1>4, <1>5, <1>6, <1>7, <1>8, <1>9, <1>10, <1>11, <1>12 DEF TickSteps
LEMMA IndTypeNext == IndTypeOK /\ [Next]_vars => IndTypeOK'
<1> SUFFICES ASSUME IndTypeOK, [Next]_vars PROVE IndTypeOK' OBVIOUS
<1>1. CASE Tick
  <2>1. blob' = [j \in Jobs |-> IF blob'[j] = NoBlob THEN NoBlob ELSE blob[j]]
    BY <1>1 DEF Tick, IndTypeOK
  <2>2. clock' \in Nat /\ clock' <= MaxTime
    BY <1>1, QueueAssumption DEF Tick, IndTypeOK
  <2> QED
    BY <1>1, <2>1, <2>2, CalmType DEF Tick, IndTypeOK
<1>2. ASSUME NEW c \in Callers,
             BeginSchedule(c) \/ BeginCancel(c) \/ BeginReplan(c) \/ CallerSteps(c)
      PROVE  IndTypeOK'
  BY <1>2, BeginsType, CallerType, ScheduleSetType
<1>5. ASSUME NEW c \in Callers, CallerStops(c) PROVE IndTypeOK'
  BY <1>5, CallerStopsType
<1>3. ASSUME NEW t \in Ticks, BeginTick(t) \/ TickSteps(t) \/ TickDies(t) PROVE IndTypeOK'
  BY <1>3, TicksType
<1>4. CASE UNCHANGED vars
  BY <1>4 DEF vars, IndTypeOK, Numbered
<1> QED
  BY <1>1, <1>2, <1>3, <1>4, <1>5 DEF Next

\* The inductive invariant of types holds in every reachable state.
THEOREM IndTypeCorrect == Spec => []IndTypeOK
BY IndTypeInit, IndTypeNext, PTL DEF Spec

\* Every variable keeps its type, for any jobs, callers, ticks and bounds.
THEOREM TypeCorrect == Spec => []TypeOK
<1>1. IndTypeOK => TypeOK
  BY DEF IndTypeOK, TypeOK, CallerRecords, TickRecords
<1> QED
  BY <1>1, IndTypeCorrect, PTL

----------------------------------------------------------------------------
(* Apart: while a tick claims, nobody schedules, and callers do not        *)
(* overlap each other.                                                     *)

Separate ==
  /\ \A t \in Ticks, c \in Callers : ~(Claiming(t) /\ Scheduling(c))
  /\ \A c, d \in Callers : Scheduling(c) /\ Scheduling(d) => c = d

LEMMA SeparateNext ==
  ASSUME Apart, IndTypeOK, Separate, [Next]_vars
  PROVE  Separate'
<1>1. \A c \in Callers : \A q : CallerGoes(c, q) => caller'[c] = q /\ \A d \in Callers \ {c} : caller'[d] = caller[d]
  BY DEF CallerGoes, IndTypeOK
<1>2. \A t \in Ticks : \A q : TickGoes(t, q) => tick'[t] = q /\ \A u \in Ticks \ {t} : tick'[u] = tick[u]
  BY DEF TickGoes, IndTypeOK
<1>3. ASSUME NEW c \in Callers, NEW q, BeginCall(c, q) PROVE Separate'
  BY <1>1, <1>3 DEF BeginCall, Separate, Scheduling, Claiming, NobodyClaims, NobodySchedules
<1>4. ASSUME NEW c \in Callers, BeginSchedule(c) \/ BeginCancel(c) \/ BeginReplan(c) PROVE Separate'
  BY <1>3, <1>4 DEF BeginSchedule, BeginCancel, BeginReplan
<1>5. ASSUME NEW c \in Callers, NEW q, CallerGoes(c, q), Scheduling(c), UNCHANGED tick PROVE Separate'
  BY <1>1, <1>5 DEF Separate, Scheduling, Claiming
<1>6. ASSUME NEW c \in Callers, CallerSteps(c) \/ CallerStops(c) PROVE Separate'
  BY <1>5, <1>6 DEF CallerSteps, CancelSmembers, CancelZrem, CancelDel, CancelDelIndex, ScheduleSet,
                    ScheduleZadd, ScheduleSadd, ScheduleExpire, CallerStops, Scheduling
<1>7. ASSUME NEW t \in Ticks, BeginTick(t) PROVE Separate'
  BY <1>2, <1>7 DEF BeginTick, Separate, Scheduling, Claiming, NobodySchedules
<1>8. ASSUME NEW t \in Ticks, NEW q, TickGoes(t, q), UNCHANGED caller,
             Claiming(t) \/ q.pc \notin {"list", "claim", "get", "del", "srem"}
      PROVE  Separate'
  BY <1>2, <1>8 DEF Separate, Scheduling, Claiming
<1>9. ASSUME NEW t \in Ticks, ListDue(t) \/ ClaimZrem(t) \/ ClaimGet(t) \/ ClaimDel(t) \/ ClaimSrem(t) \/ EndClaim(t)
      PROVE  Separate'
  BY <1>8, <1>9 DEF ListDue, ClaimZrem, ClaimGet, ClaimDel, ClaimSrem, EndClaim, Claiming
<1>10. ASSUME NEW t \in Ticks, EndTick(t) \/ TickDies(t) PROVE Separate'
  <2>1. IdleTick.pc = "idle"
    BY DEF IdleTick
  <2> QED
    BY <1>8, <1>10, <2>1 DEF EndTick, TickDies
<1>11. ASSUME NEW t \in Ticks, RunJob(t) PROVE Separate'
  <2>1. PICK b \in tick[t].got : TickGoes(t, [tick[t] EXCEPT !.got = @ \ {b}]) /\ UNCHANGED caller /\ tick[t].pc = "run"
    BY <1>11 DEF RunJob
  <2>2. [tick[t] EXCEPT !.got = @ \ {b}].pc = "run"
    BY <2>1 DEF IndTypeOK, TickRecords
  <2> QED
    BY <1>8, <2>1, <2>2
<1>12. CASE Tick \/ UNCHANGED vars
  BY <1>12 DEF Tick, vars, Separate, Scheduling, Claiming
<1> QED
  BY <1>4, <1>6, <1>7, <1>9, <1>10, <1>11, <1>12 DEF Next, TickSteps
----------------------------------------------------------------------------
(* Between its ZREM and its SREM a tick owns the job: it is not queued, so *)
(* no other tick can take it.                                              *)

Owns(t) == tick[t].pc \in {"get", "del", "srem"}

Exclusive ==
  /\ \A t \in Ticks : Owns(t) => due[tick[t].job] = None
  /\ \A t, u \in Ticks : Owns(t) /\ Owns(u) /\ tick[t].job = tick[u].job => t = u

LEMMA OtherTicks ==
  ASSUME IndTypeOK, NEW t \in Ticks, NEW q, TickGoes(t, q)
  PROVE  tick'[t] = q /\ \A u \in Ticks \ {t} : tick'[u] = tick[u]
BY DEF TickGoes, IndTypeOK

LEMMA ExclusiveNext ==
  ASSUME IndTypeOK, Separate, Exclusive, [Next]_vars
  PROVE  Exclusive'
<1>1. ASSUME UNCHANGED tick, \A j \in Jobs : due'[j] = None \/ due'[j] = due[j] PROVE Exclusive'
  BY <1>1 DEF Exclusive, Owns, IndTypeOK, TickRecords
<1>2. CASE Tick \/ UNCHANGED vars
  BY <1>1, <1>2 DEF Tick, vars
<1>3. ASSUME NEW c \in Callers, BeginSchedule(c) \/ BeginCancel(c) \/ BeginReplan(c) PROVE Exclusive'
  BY <1>1, <1>3 DEF BeginSchedule, BeginCancel, BeginReplan, BeginCall
<1>4. ASSUME NEW c \in Callers, ScheduleZadd(c) PROVE Exclusive'
  BY <1>4 DEF ScheduleZadd, Separate, Scheduling, Claiming, Exclusive, Owns
<1>5. ASSUME NEW c \in Callers, CancelZrem(c) PROVE Exclusive'
  BY <1>1, <1>5 DEF CancelZrem
<1>6. ASSUME NEW c \in Callers, CallerSteps(c) \/ CallerStops(c), ~ScheduleZadd(c), ~CancelZrem(c)
      PROVE  Exclusive'
  BY <1>1, <1>6 DEF CallerSteps, CancelSmembers, CancelDel, CancelDelIndex, ScheduleSet, ScheduleSadd,
                    ScheduleExpire, CallerStops
\* A tick that keeps or gives up its job, or has none.
<1>7. ASSUME NEW t \in Ticks, UNCHANGED due, \A u \in Ticks \ {t} : tick'[u] = tick[u],
             tick'[t].pc \in {"get", "del", "srem"} => Owns(t) /\ tick'[t].job = tick[t].job
      PROVE  Exclusive'
  BY <1>7 DEF Exclusive, Owns
<1>8. ASSUME NEW t \in Ticks, BeginTick(t) \/ EndTick(t) \/ TickDies(t) PROVE Exclusive'
  <2> DEFINE n == [IdleTick EXCEPT !.pc = "list", !.now = clock, !.until = clock + LockTime]
  <2>1. IdleTick.pc = "idle" /\ n.pc = "list"
    BY DEF IdleTick
  <2> QED
    BY <1>7, <1>8, <2>1, OtherTicks DEF BeginTick, EndTick, TickDies
<1>9. \A t \in Ticks : tick[t] \in TickRecords
  BY DEF IndTypeOK
<1>10. ASSUME NEW t \in Ticks, ListDue(t) \/ EndClaim(t) PROVE Exclusive'
  <2> DEFINE l == [tick[t] EXCEPT !.ids = DueIds(tick[t].now), !.pc = "claim"]
             e == [tick[t] EXCEPT !.pc = "run"]
  <2>1. l.pc = "claim" /\ e.pc = "run"
    BY <1>9 DEF TickRecords
  <2>2. UNCHANGED due /\ (TickGoes(t, l) \/ TickGoes(t, e))
    BY <1>10 DEF ListDue, EndClaim
  <2> HIDE DEF l, e
  <2>3. tick'[t].pc \in {"claim", "run"} /\ \A u \in Ticks \ {t} : tick'[u] = tick[u]
    BY <2>1, <2>2, OtherTicks
  <2> QED
    BY <1>7, <2>2, <2>3
<1>11. ASSUME NEW t \in Ticks, ClaimGet(t) PROVE Exclusive'
  <2> DEFINE n == [tick[t] EXCEPT !.read = Read(tick[t].job), !.pc = "del"]
  <2>1. n.job = tick[t].job
    BY <1>9 DEF TickRecords
  <2> QED
    BY <1>7, <1>11, <2>1, OtherTicks DEF ClaimGet, Owns
<1>12. ASSUME NEW t \in Ticks, ClaimDel(t) PROVE Exclusive'
  <2> DEFINE n == [tick[t] EXCEPT !.pc = IF tick[t].read = NoBlob THEN "claim" ELSE "srem"]
  <2>1. n.job = tick[t].job
    BY <1>9 DEF TickRecords
  <2> QED
    BY <1>7, <1>12, <2>1, OtherTicks DEF ClaimDel, Owns
<1>13. ASSUME NEW t \in Ticks, ClaimSrem(t) PROVE Exclusive'
  <2> DEFINE n == [tick[t] EXCEPT !.got = @ \cup {tick[t].read}, !.read = NoBlob, !.pc = "claim", !.job = NobodysJob]
  <2>1. n.pc = "claim"
    BY <1>9 DEF TickRecords
  <2> QED
    BY <1>7, <1>13, <2>1, OtherTicks DEF ClaimSrem
<1>14. ASSUME NEW t \in Ticks, RunJob(t) PROVE Exclusive'
  <2>1. PICK b \in tick[t].got : TickGoes(t, [tick[t] EXCEPT !.got = @ \ {b}]) /\ UNCHANGED due /\ tick[t].pc = "run"
    BY <1>14 DEF RunJob
  <2>2. [tick[t] EXCEPT !.got = @ \ {b}].pc = "run"
    BY <1>9, <2>1 DEF TickRecords
  <2> QED
    BY <1>7, <2>1, <2>2, OtherTicks
<1>15. ASSUME NEW t \in Ticks, ClaimZrem(t) PROVE Exclusive'
  <2>1. PICK j \in tick[t].ids :
          /\ tick[t].pc = "claim"
          /\ due' = [due EXCEPT ![j] = None]
          /\ TickGoes(t, IF Takes(j) THEN [tick[t] EXCEPT !.ids = @ \ {j}, !.job = j, !.pc = "get"]
                         ELSE [tick[t] EXCEPT !.ids = @ \ {j}])
    BY <1>15 DEF ClaimZrem
  <2>2. j \in Jobs /\ due'[j] = None /\ \A k \in Jobs \ {j} : due'[k] = due[k]
    BY <2>1, <1>9 DEF IndTypeOK, TickRecords
  <2>3. \A u \in Ticks : tick[u].job \in Jobs
    BY <1>9 DEF TickRecords
  <2>4. CASE Takes(j)
    <3> DEFINE n == [tick[t] EXCEPT !.ids = @ \ {j}, !.job = j, !.pc = "get"]
    <3>1. n.job = j /\ n.pc = "get"
      BY <1>9 DEF TickRecords
    <3>2. tick'[t].job = j /\ tick'[t].pc = "get" /\ \A u \in Ticks \ {t} : tick'[u] = tick[u]
      BY <2>1, <2>4, <3>1, OtherTicks
    <3>3. \A u \in Ticks : Owns(u) => tick[u].job # j
      BY <2>4 DEF Takes, Exclusive
    <3>4. (\A u \in Ticks : Owns(u) => due[tick[u].job] = None)'
      BY <2>2, <2>3, <3>2 DEF Exclusive, Owns
    <3>5. (\A u, v \in Ticks : Owns(u) /\ Owns(v) /\ tick[u].job = tick[v].job => u = v)'
      BY <3>2, <3>3 DEF Exclusive, Owns
    <3> QED
      BY ONLY <3>4, <3>5 DEF Exclusive
  <2>5. CASE ~Takes(j)
    <3> DEFINE n == [tick[t] EXCEPT !.ids = @ \ {j}]
    <3>1. n.pc = "claim"
      BY <1>9, <2>1 DEF TickRecords
    <3>2. tick'[t].pc = "claim" /\ \A u \in Ticks \ {t} : tick'[u] = tick[u]
      BY <2>1, <2>5, <3>1, OtherTicks
    <3>3. (\A u \in Ticks : Owns(u) => due[tick[u].job] = None)'
      BY <2>2, <2>3, <3>2 DEF Exclusive, Owns
    <3>4. (\A u, v \in Ticks : Owns(u) /\ Owns(v) /\ tick[u].job = tick[v].job => u = v)'
      BY <3>2 DEF Exclusive, Owns
    <3> QED
      BY ONLY <3>3, <3>4 DEF Exclusive
  <2> QED
    BY <2>4, <2>5
<1> QED
  BY <1>2, <1>3, <1>4, <1>5, <1>6, <1>8, <1>10, <1>11, <1>12, <1>13, <1>14, <1>15 DEF Next, TickSteps

----------------------------------------------------------------------------
(* Who may still run a blob's job: nobody but the queue while it is        *)
(* queued, then the one tick that has read it.                             *)

ReadOnce ==
  /\ \A i, j \in Jobs : blob[i].no # 0 /\ blob[i].no = blob[j].no => i = j
  /\ \A j \in Jobs, t \in Ticks : blob[j].no # 0 /\ blob[j].no = tick[t].read.no
       => tick[t].pc = "del" /\ tick[t].job = j
  /\ \A t, u \in Ticks : tick[t].read.no # 0 /\ tick[t].read.no = tick[u].read.no => t = u

GotOnce ==
  /\ \A t \in Ticks : \A b \in tick[t].got :
       (\A j \in Jobs : b.no # blob[j].no) /\ (\A u \in Ticks : b.no # tick[u].read.no)
  /\ \A t, u \in Ticks : \A b \in tick[t].got, d \in tick[u].got : b.no = d.no => t = u /\ b = d

Unrun ==
  /\ \A n \in 1..MaxSchedules : n > scheduled => runs[n] = 0
  /\ \A j \in Jobs : blob[j].no # 0 => runs[blob[j].no] = 0
  /\ \A t \in Ticks : tick[t].read.no # 0 => runs[tick[t].read.no] = 0
  /\ \A t \in Ticks : \A b \in tick[t].got : runs[b.no] = 0

OnlyOnce == ReadOnce /\ GotOnce /\ Unrun /\ RunOnce

LEMMA OnceNumbers ==
  ASSUME IndTypeOK
  PROVE  /\ \A j \in Jobs : blob[j].no \in Nat /\ blob[j].no <= scheduled
         /\ \A t \in Ticks : tick[t] \in TickRecords /\ tick[t].read.no \in Nat /\ tick[t].read.no <= scheduled
         /\ \A t \in Ticks : \A b \in tick[t].got : b.no \in 1..scheduled
         /\ scheduled \in Nat /\ scheduled <= MaxSchedules /\ MaxSchedules \in Nat
         /\ NoBlob.no = 0
BY QueueAssumption, NoBlobType DEF IndTypeOK, Numbered, Blobs

LEMMA OnceInit == Init => OnlyOnce
<1>1. NoBlob.no = 0 /\ IdleTick.read = NoBlob /\ IdleTick.got = {}
  BY NoBlobType DEF IdleTick
<1> QED
  BY <1>1 DEF Init, OnlyOnce, ReadOnce, GotOnce, Unrun, RunOnce

\* Blobs are dropped; a tick may put what it holds down.
LEMMA OnceDrops ==
  ASSUME IndTypeOK, OnlyOnce, UNCHANGED <<scheduled, runs>>,
         \A j \in Jobs : blob'[j] = NoBlob \/ blob'[j] = blob[j],
         \A t \in Ticks : /\ tick'[t].got \subseteq tick[t].got
                          /\ \/ tick'[t].read = NoBlob
                             \/ tick'[t] = tick[t]
                             \/ tick'[t].read = tick[t].read /\ tick[t].pc # "del"
                             \/ tick'[t].read = tick[t].read /\ blob'[tick[t].job] = NoBlob
  PROVE  OnlyOnce'
<1>1. ReadOnce'
  BY OnceNumbers DEF OnlyOnce, ReadOnce
<1>2. GotOnce'
  <2>1. (\A t \in Ticks : \A b \in tick[t].got :
           (\A j \in Jobs : b.no # blob[j].no) /\ (\A u \in Ticks : b.no # tick[u].read.no))'
    BY OnceNumbers DEF OnlyOnce, GotOnce
  <2>2. (\A t, u \in Ticks : \A b \in tick[t].got, d \in tick[u].got : b.no = d.no => t = u /\ b = d)'
    BY DEF OnlyOnce, GotOnce
  <2> QED
    BY ONLY <2>1, <2>2 DEF GotOnce
<1>3. Unrun'
  BY OnceNumbers DEF OnlyOnce, Unrun
<1>4. RunOnce'
  BY DEF OnlyOnce, RunOnce
<1> QED
  BY ONLY <1>1, <1>2, <1>3, <1>4 DEF OnlyOnce

LEMMA OnceSet ==
  ASSUME IndTypeOK, OnlyOnce, NEW c \in Callers, ScheduleSet(c)
  PROVE  OnlyOnce'
<1> DEFINE new(p) == [no |-> scheduled + 1, fireAt |-> p.at, until |-> clock + BlobTTL]
<1>1. PICK p \in caller[c].todo :
        /\ scheduled < MaxSchedules /\ scheduled' = scheduled + 1
        /\ blob' = [blob EXCEPT ![p.job] = new(p)]
        /\ UNCHANGED <<tick, runs>>
  BY DEF ScheduleSet
<1>2. p.job \in Jobs
  BY DEF IndTypeOK, CallerRecords, Plans
<1>3. blob'[p.job].no = scheduled + 1 /\ \A j \in Jobs \ {p.job} : blob'[j] = blob[j]
  BY <1>1, <1>2 DEF IndTypeOK
<1>4. ReadOnce'
  BY <1>1, <1>2, <1>3, OnceNumbers DEF OnlyOnce, ReadOnce
<1>5. GotOnce'
  BY <1>1, <1>2, <1>3, OnceNumbers DEF OnlyOnce, GotOnce
<1>6. Unrun'
  BY <1>1, <1>2, <1>3, OnceNumbers DEF OnlyOnce, Unrun
<1>7. RunOnce'
  BY <1>1 DEF OnlyOnce, RunOnce
<1> QED
  BY ONLY <1>4, <1>5, <1>6, <1>7 DEF OnlyOnce

LEMMA OnceGet ==
  ASSUME IndTypeOK, Exclusive, OnlyOnce, NEW t \in Ticks, ClaimGet(t)
  PROVE  OnlyOnce'
<1> DEFINE j == tick[t].job
           n == [tick[t] EXCEPT !.read = Read(j), !.pc = "del"]
<1>0. Read(j) = blob[j] \/ Read(j).no = 0
  BY NoBlobType DEF Read
<1>1. n.read = Read(j) /\ n.pc = "del" /\ n.job = j /\ n.got = tick[t].got /\ j \in Jobs
  BY OnceNumbers DEF TickRecords
<1>2. tick'[t] = n /\ (\A u \in Ticks \ {t} : tick'[u] = tick[u]) /\ UNCHANGED <<blob, scheduled, runs>>
  BY OtherTicks DEF ClaimGet
<1>3. \A u \in Ticks \ {t} : tick[u].pc = "del" => tick[u].job # j
  BY DEF ClaimGet, Exclusive, Owns
<1> HIDE DEF n
<1>4. ReadOnce'
  BY <1>0, <1>1, <1>2, <1>3, OnceNumbers DEF OnlyOnce, ReadOnce
<1>5. GotOnce'
  BY <1>0, <1>1, <1>2, OnceNumbers DEF OnlyOnce, GotOnce
<1>6. Unrun'
  BY <1>0, <1>1, <1>2 DEF OnlyOnce, Unrun
<1>7. RunOnce'
  BY <1>2 DEF OnlyOnce, RunOnce
<1> QED
  BY ONLY <1>4, <1>5, <1>6, <1>7 DEF OnlyOnce

LEMMA OnceSrem ==
  ASSUME IndTypeOK, OnlyOnce, NEW t \in Ticks, ClaimSrem(t)
  PROVE  OnlyOnce'
<1> DEFINE r == tick[t].read
           n == [tick[t] EXCEPT !.got = @ \cup {r}, !.read = NoBlob, !.pc = "claim", !.job = NobodysJob]
<1>1. n.read = NoBlob /\ n.got = tick[t].got \cup {r}
  BY OnceNumbers DEF TickRecords
<1>2. tick'[t] = n /\ (\A u \in Ticks \ {t} : tick'[u] = tick[u]) /\ UNCHANGED <<blob, scheduled, runs>>
  BY OtherTicks DEF ClaimSrem
<1>3. r.no # 0 /\ tick[t].pc = "srem"
  BY DEF ClaimSrem, IndTypeOK, Numbered
<1> HIDE DEF n
<1>4. ReadOnce'
  BY <1>1, <1>2, OnceNumbers DEF OnlyOnce, ReadOnce
<1>5. \A u \in Ticks : \A b \in tick'[u].got : b \in tick[u].got \/ (u = t /\ b = r)
  BY <1>1, <1>2
<1>6. GotOnce'
  <2>1. (\A j \in Jobs : r.no # blob[j].no) /\ \A u \in Ticks \ {t} : r.no # tick[u].read.no
    BY <1>3 DEF OnlyOnce, ReadOnce
  <2>2. (\A j \in Jobs : r.no # blob'[j].no) /\ \A u \in Ticks : r.no # tick'[u].read.no
    BY <1>1, <1>2, <1>3, <2>1, OnceNumbers
  <2>3. \A u \in Ticks : \A b \in tick[u].got :
          b.no # r.no /\ (\A j \in Jobs : b.no # blob'[j].no) /\ (\A v \in Ticks : b.no # tick'[v].read.no)
    BY <1>1, <1>2, OnceNumbers DEF OnlyOnce, GotOnce
  <2>4. (\A u \in Ticks : \A b \in tick[u].got :
           (\A j \in Jobs : b.no # blob[j].no) /\ (\A v \in Ticks : b.no # tick[v].read.no))'
    BY <1>5, <2>2, <2>3
  <2>5. (\A u, v \in Ticks : \A b \in tick[u].got, d \in tick[v].got : b.no = d.no => u = v /\ b = d)'
    BY <1>5, <2>3 DEF OnlyOnce, GotOnce
  <2> QED
    BY ONLY <2>4, <2>5 DEF GotOnce
<1>7. Unrun'
  BY <1>1, <1>2, <1>3, <1>5, OnceNumbers DEF OnlyOnce, Unrun
<1>8. RunOnce'
  BY <1>2 DEF OnlyOnce, RunOnce
<1> QED
  BY ONLY <1>4, <1>6, <1>7, <1>8 DEF OnlyOnce

LEMMA OnceRun ==
  ASSUME IndTypeOK, OnlyOnce, NEW t \in Ticks, RunJob(t)
  PROVE  OnlyOnce'
<1>1. PICK b \in tick[t].got :
        /\ runs' = [runs EXCEPT ![b.no] = @ + 1]
        /\ TickGoes(t, [tick[t] EXCEPT !.got = @ \ {b}])
        /\ UNCHANGED <<blob, scheduled>>
  BY DEF RunJob
<1> DEFINE n == [tick[t] EXCEPT !.got = @ \ {b}]
<1>2. n.read = tick[t].read /\ n.got = tick[t].got \ {b} /\ n.pc = tick[t].pc /\ n.job = tick[t].job
  BY OnceNumbers DEF TickRecords
<1>3. tick'[t] = n /\ (\A u \in Ticks \ {t} : tick'[u] = tick[u])
  BY <1>1, OtherTicks
<1>4. b.no \in 1..MaxSchedules /\ b.no <= scheduled
  BY OnceNumbers
<1>5. runs'[b.no] = runs[b.no] + 1 /\ \A m \in (1..MaxSchedules) \ {b.no} : runs'[m] = runs[m]
  BY <1>1, <1>4 DEF IndTypeOK
<1>6. runs' \in [1..MaxSchedules -> Nat] /\ runs[b.no] = 0
  BY <1>1, <1>4 DEF IndTypeOK, OnlyOnce, Unrun
<1> HIDE DEF n
<1>7. ReadOnce'
  BY <1>1, <1>2, <1>3 DEF OnlyOnce, ReadOnce
<1>8. \A u \in Ticks : tick'[u].got \subseteq tick[u].got /\ tick'[u].read = tick[u].read
  BY <1>2, <1>3
<1>9. GotOnce'
  BY <1>1, <1>8 DEF OnlyOnce, GotOnce
<1>10. Unrun'
  <2>1. \A u \in Ticks : \A d \in tick'[u].got : d.no # b.no
    BY <1>2, <1>3, <1>8 DEF OnlyOnce, GotOnce
  <2>2. (\A u \in Ticks : \A d \in tick[u].got : runs[d.no] = 0)'
    BY <1>5, <1>8, <2>1, OnceNumbers DEF OnlyOnce, Unrun
  <2>3. (\A j \in Jobs : blob[j].no # 0 => runs[blob[j].no] = 0)'
    BY <1>1, <1>5, OnceNumbers DEF OnlyOnce, Unrun, GotOnce
  <2>4. (\A u \in Ticks : tick[u].read.no # 0 => runs[tick[u].read.no] = 0)'
    BY <1>5, <1>8, OnceNumbers DEF OnlyOnce, Unrun, GotOnce
  <2>5. (\A m \in 1..MaxSchedules : m > scheduled => runs[m] = 0)'
    BY <1>1, <1>4, <1>5, OnceNumbers DEF OnlyOnce, Unrun
  <2> QED
    BY ONLY <2>2, <2>3, <2>4, <2>5 DEF Unrun
<1>11. RunOnce'
  BY <1>5, <1>6 DEF OnlyOnce, RunOnce, IndTypeOK
<1> QED
  BY ONLY <1>7, <1>9, <1>10, <1>11 DEF OnlyOnce

LEMMA OnceTick ==
  ASSUME IndTypeOK, Exclusive, OnlyOnce, NEW t \in Ticks, BeginTick(t) \/ TickSteps(t) \/ TickDies(t)
  PROVE  OnlyOnce'
<1> DEFINE q == tick[t]
<1>1. q \in TickRecords
  BY OnceNumbers
<1>2. IdleTick.read = NoBlob /\ IdleTick.got = {}
  BY DEF IdleTick
<1>3. ASSUME NEW n, TickGoes(t, n), UNCHANGED <<scheduled, runs>>, n.got = q.got \/ n.got = {},
             \A j \in Jobs : blob'[j] = NoBlob \/ blob'[j] = blob[j],
             n.read = NoBlob \/ (n.read = q.read /\ (q.pc # "del" \/ blob'[q.job] = NoBlob))
      PROVE  OnlyOnce'
  <2>1. tick'[t] = n /\ \A u \in Ticks \ {t} : tick'[u] = tick[u]
    BY <1>3, OtherTicks
  <2> QED
    BY <1>3, <2>1, OnceDrops
<1>4. CASE BeginTick(t)
  <2> DEFINE n == [IdleTick EXCEPT !.pc = "list", !.now = clock, !.until = clock + LockTime]
  <2>1. n.read = NoBlob /\ n.got = {}
    BY DEF IdleTick
  <2> QED
    BY <1>3, <1>4, <2>1 DEF BeginTick
<1>5. CASE EndTick(t) \/ TickDies(t)
  <2>1. TickGoes(t, IdleTick) /\ UNCHANGED <<blob, scheduled, runs>>
    BY <1>5 DEF EndTick, TickDies
  <2>2. \A u \in Ticks : tick'[u] = IdleTick \/ tick'[u] = tick[u]
    BY <2>1, OtherTicks
  <2>3. \A u \in Ticks : /\ tick'[u].got \subseteq tick[u].got
                         /\ tick'[u].read = NoBlob \/ tick'[u] = tick[u]
    BY <1>2, <2>2
  <2> QED
    BY <2>1, <2>3, OnceDrops
<1>6. CASE ListDue(t)
  <2> DEFINE n == [q EXCEPT !.ids = DueIds(q.now), !.pc = "claim"]
  <2>1. n.read = q.read /\ n.got = q.got
    BY <1>1 DEF TickRecords
  <2> QED
    BY <1>3, <1>6, <2>1 DEF ListDue
<1>7. CASE EndClaim(t)
  <2> DEFINE n == [q EXCEPT !.pc = "run"]
  <2>1. n.read = q.read /\ n.got = q.got
    BY <1>1 DEF TickRecords
  <2> QED
    BY <1>3, <1>7, <2>1 DEF EndClaim
<1>8. CASE ClaimZrem(t)
  <2>1. PICK j \in q.ids :
          /\ q.pc = "claim"
          /\ TickGoes(t, IF Takes(j) THEN [q EXCEPT !.ids = @ \ {j}, !.job = j, !.pc = "get"]
                         ELSE [q EXCEPT !.ids = @ \ {j}])
          /\ UNCHANGED <<blob, scheduled, runs>>
    BY <1>8 DEF ClaimZrem
  <2> DEFINE n == IF Takes(j) THEN [q EXCEPT !.ids = @ \ {j}, !.job = j, !.pc = "get"]
                  ELSE [q EXCEPT !.ids = @ \ {j}]
  <2>2. n.read = q.read /\ n.got = q.got
    BY <1>1 DEF TickRecords
  <2> QED
    BY <1>3, <2>1, <2>2
<1>9. CASE ClaimDel(t)
  <2> DEFINE n == [q EXCEPT !.pc = IF q.read = NoBlob THEN "claim" ELSE "srem"]
  <2>1. n.read = q.read /\ n.got = q.got /\ q.job \in Jobs
    BY <1>1 DEF TickRecords
  <2>2. blob'[q.job] = NoBlob /\ \A j \in Jobs : blob'[j] = NoBlob \/ blob'[j] = blob[j]
    BY <1>9, <2>1 DEF ClaimDel, IndTypeOK
  <2> QED
    BY <1>3, <1>9, <2>1, <2>2 DEF ClaimDel
<1> QED
  BY <1>4, <1>5, <1>6, <1>7, <1>8, <1>9, OnceGet, OnceSrem, OnceRun DEF TickSteps

LEMMA OnceNext ==
  ASSUME IndTypeOK, Exclusive, OnlyOnce, [Next]_vars
  PROVE  OnlyOnce'
<1>1. ASSUME UNCHANGED <<tick, scheduled, runs>>, \A j \in Jobs : blob'[j] = NoBlob \/ blob'[j] = blob[j]
      PROVE  OnlyOnce'
  BY <1>1, OnceDrops
<1>2. CASE Tick \/ UNCHANGED vars
  BY <1>1, <1>2 DEF Tick, vars
<1>3. ASSUME NEW c \in Callers, BeginSchedule(c) \/ BeginCancel(c) \/ BeginReplan(c) PROVE OnlyOnce'
  BY <1>1, <1>3 DEF BeginSchedule, BeginCancel, BeginReplan, BeginCall
<1>4. ASSUME NEW c \in Callers, CallerSteps(c) \/ CallerStops(c), ~ScheduleSet(c), ~CancelDel(c)
      PROVE  OnlyOnce'
  BY <1>1, <1>4 DEF CallerSteps, CancelSmembers, CancelZrem, CancelDelIndex, ScheduleZadd, ScheduleSadd,
                    ScheduleExpire, CallerStops
<1>5. ASSUME NEW c \in Callers, CancelDel(c) PROVE OnlyOnce'
  BY <1>1, <1>5 DEF CancelDel
<1> QED
  BY <1>2, <1>3, <1>4, <1>5, OnceSet, OnceTick DEF Next

\* Overlapping ticks never run a job twice, whatever happens to their lock,
\* if no caller writes a job while a tick claims (Apart).  Without that it is
\* false, as TLC finds.
THEOREM RunsOnce == Apart => (Spec => []RunOnce)
<1> DEFINE Inv == IndTypeOK /\ Separate /\ Exclusive /\ OnlyOnce
<1> SUFFICES ASSUME Apart PROVE Spec => []RunOnce
  OBVIOUS
<1>1. Init => Inv
  <2>1. Init => Separate /\ Exclusive
    BY DEF Init, Separate, Exclusive, Scheduling, Claiming, Owns, IdleTick, IdleCaller
  <2> QED
    BY <2>1, IndTypeInit, OnceInit
<1>2. Inv /\ [Next]_vars => Inv'
  BY IndTypeNext, SeparateNext, ExclusiveNext, OnceNext
<1>3. Inv => RunOnce
  BY DEF OnlyOnce
<1> QED
  BY <1>1, <1>2, <1>3, PTL DEF Spec

----------------------------------------------------------------------------
(* What is queued is whole.  A job stops being so only in the hands of the *)
(* one caller that is writing it, when that caller is cut short, and when  *)
(* its blob's TTL has passed.                                              *)

\* The index names the job, and lives as long as its blob.
Named(j) == j \in index /\ (indexUntil = Forever \/ blob[j].until <= indexUntil)
Handled(j) == \E c \in Callers : InHands(c) /\ caller[c].job = j

HasBlob == \A j \in Jobs : due[j] # None => blob[j] # NoBlob
Settled(j) == due[j] # None /\ j \notin loose /\ ~Handled(j) /\ ~Expired(j)
AllNamed == \A j \in Jobs : Settled(j) => blob[j].fireAt = due[j] /\ Named(j)
\* The blob says the time, expired or not.
AllTimed == \A j \in Jobs : due[j] # None /\ j \notin loose /\ ~Handled(j) => blob[j].fireAt = due[j]
Bounded == \A j \in Jobs : blob[j].until <= clock + BlobTTL

\* What is queued beside these has been cut short, or its blob has expired.
Beside(ids, d, b, l, now) == \A j \in Jobs \ ids : d[j] # None => j \in l \/ b[j].until <= now
\* What a caller that is under way has to go by.
InHand(me, d, b, i, l, now) ==
  /\ me.pc \in {"zrem", "del"} => Beside(me.ids, d, b, l, now)
  /\ me.pc = "del" => \A j \in me.ids : d[j] = None
  /\ me.pc = "del_index" => Beside({}, d, b, l, now)
  /\ me.pc \in {"zadd", "sadd", "expire"} => b[me.job] # NoBlob /\ b[me.job].fireAt = me.at
  /\ me.pc \in {"sadd", "expire"} => d[me.job] = me.at
  /\ me.pc = "expire" => me.job \in i

Kept == HasBlob /\ AllTimed /\ AllNamed /\ Bounded /\ \A c \in Callers : InHand(caller[c], due, blob, index, loose, clock)

\* What a name is good for: the index has not expired before the blob.
LEMMA NamedIsMember ==
  ASSUME IndTypeOK, NEW j \in Jobs, Named(j), ~Expired(j)
  PROVE  j \in Members
<1>1. blob[j].until \in Nat /\ clock \in Nat /\ indexUntil \in Nat \cup {Forever}
  BY DEF IndTypeOK, Blobs
<1> QED
  BY <1>1 DEF Named, Expired, Members

\* A step of the one caller under way: who is in the middle of what.
LEMMA HandStep ==
  ASSUME IndTypeOK, Separate, NEW c \in Callers, NEW q, CallerGoes(c, q), Scheduling(c)
  PROVE  /\ caller'[c] = q
         /\ \A d \in Callers \ {c} : caller'[d] = caller[d] /\ caller[d].pc = "idle"
         /\ \A j \in Jobs : Handled(j) <=> InHands(c) /\ caller[c].job = j
         /\ \A j \in Jobs : Handled(j)' <=> q.pc \in {"zadd", "sadd", "expire"} /\ q.job = j
<1>1. caller'[c] = q /\ \A d \in Callers \ {c} : caller'[d] = caller[d] /\ caller[d].pc = "idle"
  BY DEF CallerGoes, IndTypeOK, Separate, Scheduling
<1> QED
  BY <1>1 DEF Handled, InHands

\* The other callers go by nothing.
LEMMA OneHand ==
  ASSUME IndTypeOK, Separate, NEW c \in Callers, NEW q, CallerGoes(c, q), Scheduling(c),
         InHand(q, due', blob', index', loose', clock')
  PROVE  (\A d \in Callers : InHand(caller'[d], due', blob', index', loose', clock'))
<1>1. caller'[c] = q /\ \A d \in Callers \ {c} : caller'[d].pc = "idle"
  BY HandStep
<1>2. \A d \in Callers \ {c} : InHand(caller'[d], due', blob', index', loose', clock')
  BY <1>1 DEF InHand
<1>3. InHand(caller'[c], due', blob', index', loose', clock')
  BY <1>1
<1> QED
  BY <1>2, <1>3

LEMMA WithNextHand ==
  ASSUME NEW c \in Callers
  PROVE  WithNext(c).pc \in {"idle", "next"} /\ InHand(WithNext(c), due', blob', index', loose', clock')
<1>1. WithNext(c).pc \in {"idle", "next"}
  BY DEF WithNext, IdleCaller
<1> QED
  BY <1>1 DEF InHand

LEMMA CancelsKeep ==
  ASSUME IndTypeOK, Separate, Kept, NEW c \in Callers,
         CancelSmembers(c) \/ CancelZrem(c) \/ CancelDel(c) \/ CancelDelIndex(c)
  PROVE  Kept'
<1> DEFINE q == caller[c]
<1>1. /\ q \in CallerRecords /\ due \in [Jobs -> Int] /\ blob \in [Jobs -> Blobs] /\ InHand(q, due, blob, index, loose, clock)
      /\ clock \in Nat /\ BlobTTL \in Nat
  BY QueueAssumption DEF IndTypeOK, Kept
<1>2. Scheduling(c) /\ ~InHands(c) /\ UNCHANGED <<clock, loose>>
  BY DEF CancelSmembers, CancelZrem, CancelDel, CancelDelIndex, Scheduling, InHands
<1>3. ASSUME NEW n, CallerGoes(c, n), n.pc \notin {"zadd", "sadd", "expire"}
      PROVE  \A j \in Jobs : ~Handled(j) /\ ~Handled(j)'
  BY <1>2, <1>3, HandStep
<1>4. CASE CancelSmembers(c)
  <2> DEFINE n == [q EXCEPT !.ids = Members, !.pc = IF Members = {} THEN "del_index" ELSE "zrem"]
  <2>1. n.ids = Members /\ n.pc = IF Members = {} THEN "del_index" ELSE "zrem"
    BY <1>1 DEF CallerRecords
  <2>2. CallerGoes(c, n) /\ UNCHANGED <<due, blob, index, indexUntil, clock, loose>>
    BY <1>4 DEF CancelSmembers
  <2> HIDE DEF n
  <2>3. \A j \in Jobs : ~Handled(j) /\ ~Handled(j)'
    BY <1>3, <2>1, <2>2
  <2>4. Beside(Members, due, blob, loose, clock)
    BY <2>3, NamedIsMember DEF Beside, Kept, AllNamed, Settled, Expired
  <2>5. InHand(n, due', blob', index', loose', clock')
    BY <2>1, <2>2, <2>4 DEF InHand, Beside, Expired
  <2>6. HasBlob' /\ AllTimed' /\ AllNamed' /\ Bounded'
    BY <2>2, <2>3 DEF Kept, HasBlob, AllTimed, AllNamed, Bounded, Settled, Named, Expired
  <2> QED
    BY <1>2, <2>2, <2>5, <2>6, OneHand DEF Kept
<1>5. CASE CancelZrem(c)
  <2> DEFINE n == [q EXCEPT !.pc = "del"]
  <2>1. n.pc = "del" /\ n.ids = q.ids /\ q.ids \subseteq Jobs
    BY <1>1 DEF CallerRecords
  <2>2. CallerGoes(c, n) /\ UNCHANGED <<blob, index, indexUntil, clock, loose>> /\ q.pc = "zrem"
        /\ due' = [j \in Jobs |-> IF j \in q.ids THEN None ELSE due[j]]
    BY <1>5 DEF CancelZrem
  <2> HIDE DEF n
  <2>3. \A j \in Jobs : ~Handled(j) /\ ~Handled(j)'
    BY <1>3, <2>1, <2>2
  <2>4. \A j \in Jobs : due'[j] = None \/ due'[j] = due[j]
    BY <2>2
  <2>5. \A j \in q.ids : due'[j] = None
    BY <2>1, <2>2
  <2>6. InHand(n, due', blob', index', loose', clock')
    BY <1>1, <2>1, <2>2, <2>4, <2>5 DEF InHand, Beside, Expired
  <2>7. HasBlob' /\ AllTimed' /\ AllNamed' /\ Bounded'
    BY <2>2, <2>3, <2>4 DEF Kept, HasBlob, AllTimed, AllNamed, Bounded, Settled, Named, Expired
  <2> QED
    BY <1>2, <2>2, <2>6, <2>7, OneHand DEF Kept
<1>6. CASE CancelDel(c)
  <2> DEFINE n == [q EXCEPT !.pc = "del_index"]
  <2>1. n.pc = "del_index"
    BY <1>1 DEF CallerRecords
  <2>2. CallerGoes(c, n) /\ UNCHANGED <<due, index, indexUntil, clock, loose>> /\ q.pc = "del"
        /\ blob' = [j \in Jobs |-> IF j \in q.ids THEN NoBlob ELSE blob[j]]
    BY <1>6 DEF CancelDel
  <2> HIDE DEF n
  <2>3. \A j \in Jobs : ~Handled(j) /\ ~Handled(j)'
    BY <1>3, <2>1, <2>2
  <2>4. \A j \in Jobs : due[j] # None => j \notin q.ids /\ blob'[j] = blob[j]
    BY <1>1, <2>2 DEF InHand
  <2>5. Beside({}, due', blob', loose', clock')
    BY <1>1, <2>2, <2>4 DEF InHand, Beside, Expired
  <2>6. InHand(n, due', blob', index', loose', clock')
    BY <2>1, <2>5 DEF InHand
  <2>7. HasBlob' /\ AllTimed' /\ AllNamed'
    BY <2>2, <2>3, <2>4 DEF Kept, HasBlob, AllTimed, AllNamed, Settled, Named, Expired
  <2>8. Bounded'
    BY <1>1, <2>2 DEF Kept, Bounded, NoBlob
  <2> QED
    BY <1>2, <2>2, <2>6, <2>7, <2>8, OneHand DEF Kept
<1>7. CASE CancelDelIndex(c)
  <2>1. CallerGoes(c, WithNext(c)) /\ UNCHANGED <<due, blob, clock, loose>> /\ q.pc = "del_index"
    BY <1>7 DEF CancelDelIndex
  <2>2. \A j \in Jobs : ~Handled(j) /\ ~Handled(j)'
    BY <1>3, <2>1, WithNextHand
  <2>3. \A j \in Jobs : ~Settled(j)'
    BY <1>1, <2>1 DEF InHand, Beside, Settled, Expired
  <2>4. HasBlob' /\ AllTimed' /\ AllNamed' /\ Bounded'
    BY <2>1, <2>2, <2>3 DEF Kept, HasBlob, AllTimed, AllNamed, Bounded
  <2> QED
    BY <1>2, <2>1, <2>4, WithNextHand, OneHand DEF Kept
<1> QED
  BY <1>4, <1>5, <1>6, <1>7

LEMMA SchedulesKeep ==
  ASSUME IndTypeOK, Separate, Kept, NEW c \in Callers,
         ScheduleSet(c) \/ ScheduleZadd(c) \/ ScheduleSadd(c) \/ ScheduleExpire(c)
  PROVE  Kept'
<1> DEFINE q == caller[c]
<1>1. /\ q \in CallerRecords /\ due \in [Jobs -> Int] /\ blob \in [Jobs -> Blobs] /\ q.job \in Jobs
      /\ InHand(q, due, blob, index, loose, clock) /\ clock \in Nat /\ BlobTTL \in Nat /\ indexUntil \in Nat \cup {Forever}
  BY QueueAssumption DEF IndTypeOK, Kept, CallerRecords
<1>2. Scheduling(c) /\ UNCHANGED clock
  BY DEF ScheduleSet, ScheduleZadd, ScheduleSadd, ScheduleExpire, Scheduling
<1>3. CASE ScheduleSet(c)
  <2>1. PICK p \in q.todo :
          /\ q.pc = "next"
          /\ blob' = [blob EXCEPT ![p.job] = [no |-> scheduled + 1, fireAt |-> p.at, until |-> clock + BlobTTL]]
          /\ CallerGoes(c, [q EXCEPT !.pc = "zadd", !.todo = @ \ {p}, !.job = p.job, !.at = p.at])
          /\ UNCHANGED <<due, index, indexUntil, loose>>
    BY <1>3 DEF ScheduleSet
  <2> DEFINE new == [no |-> scheduled + 1, fireAt |-> p.at, until |-> clock + BlobTTL]
             n == [q EXCEPT !.pc = "zadd", !.todo = @ \ {p}, !.job = p.job, !.at = p.at]
  <2>2. p.job \in Jobs
    BY <1>1 DEF CallerRecords, Plans
  <2>3. n.pc = "zadd" /\ n.job = p.job /\ n.at = p.at
    BY <1>1 DEF CallerRecords
  <2>4. scheduled \in Nat
    BY DEF IndTypeOK
  <2>5. new # NoBlob /\ new.fireAt = p.at /\ new.until = clock + BlobTTL
    BY <2>4 DEF NoBlob
  <2>6. CallerGoes(c, n)
    BY <2>1
  <2> HIDE DEF new, n
  <2>7. blob'[p.job] = new /\ \A j \in Jobs \ {p.job} : blob'[j] = blob[j]
    BY <1>1, <2>1, <2>2 DEF new
  <2>8. \A j \in Jobs : ~Handled(j) /\ (Handled(j)' <=> j = p.job)
    BY <1>2, <2>1, <2>3, <2>6, HandStep DEF InHands
  <2>9. InHand(n, due', blob', index', loose', clock')
    BY <2>3, <2>5, <2>7 DEF InHand
  <2>10. HasBlob'
    BY <2>1, <2>5, <2>7 DEF Kept, HasBlob
  <2>11. AllTimed' /\ AllNamed'
    BY <1>2, <2>1, <2>7, <2>8 DEF Kept, AllTimed, AllNamed, Settled, Named, Expired
  <2>12. Bounded'
    BY <1>1, <1>2, <2>5, <2>7 DEF Kept, Bounded
  <2> QED
    BY <1>2, <2>6, <2>9, <2>10, <2>11, <2>12, OneHand DEF Kept
<1>4. CASE ScheduleZadd(c)
  <2> DEFINE n == [q EXCEPT !.pc = "sadd"]
  <2>1. n.pc = "sadd" /\ n.job = q.job /\ n.at = q.at
    BY <1>1 DEF CallerRecords
  <2>2. CallerGoes(c, n) /\ UNCHANGED <<blob, index, indexUntil, loose>> /\ due' = [due EXCEPT ![q.job] = q.at]
        /\ q.pc = "zadd"
    BY <1>4 DEF ScheduleZadd, Score
  <2> HIDE DEF n
  <2>3. due'[q.job] = q.at /\ \A j \in Jobs \ {q.job} : due'[j] = due[j]
    BY <1>1, <2>2
  <2>4. \A j \in Jobs : (Handled(j) <=> j = q.job) /\ (Handled(j)' <=> j = q.job)
    BY <1>2, <2>1, <2>2, HandStep DEF InHands
  <2>5. InHand(n, due', blob', index', loose', clock')
    BY <1>1, <2>1, <2>2, <2>3 DEF InHand
  <2>6. HasBlob'
    BY <1>1, <2>2, <2>3 DEF Kept, HasBlob, InHand
  <2>7. AllTimed' /\ AllNamed'
    BY <1>2, <2>2, <2>3, <2>4 DEF Kept, AllTimed, AllNamed, Settled, Named, Expired
  <2>8. Bounded'
    BY <1>2, <2>2 DEF Kept, Bounded
  <2> QED
    BY <1>2, <2>2, <2>5, <2>6, <2>7, <2>8, OneHand DEF Kept
<1>5. CASE ScheduleSadd(c)
  <2> DEFINE n == [q EXCEPT !.pc = "expire"]
  <2>1. n.pc = "expire" /\ n.job = q.job /\ n.at = q.at
    BY <1>1 DEF CallerRecords
  <2>2. /\ CallerGoes(c, n) /\ UNCHANGED <<due, blob, loose>> /\ index' = Members \cup {q.job} /\ q.pc = "sadd"
        /\ indexUntil' = IF Members = {} THEN Forever ELSE indexUntil
    BY <1>5 DEF ScheduleSadd, Indexed
  <2> HIDE DEF n
  <2>3. \A j \in Jobs : (Handled(j) <=> j = q.job) /\ (Handled(j)' <=> j = q.job)
    BY <1>2, <2>1, <2>2, HandStep DEF InHands
  <2>4. InHand(n, due', blob', index', loose', clock')
    BY <1>1, <2>1, <2>2 DEF InHand
  <2>5. HasBlob' /\ AllTimed' /\ Bounded'
    BY <1>2, <2>2, <2>3 DEF Kept, HasBlob, AllTimed, Bounded
  <2>6. ASSUME NEW j \in Jobs, Settled(j)' PROVE blob'[j].fireAt = due'[j] /\ Named(j)'
    <3>1. Settled(j)
      BY <1>2, <2>2, <2>3, <2>6 DEF Settled, Expired
    <3>2. blob[j].fireAt = due[j] /\ Named(j) /\ j \in Members
      BY <3>1, NamedIsMember DEF Kept, AllNamed, Settled
    <3> QED
      BY <2>2, <3>2 DEF Named
  <2> QED
    BY <1>2, <2>2, <2>4, <2>5, <2>6, OneHand DEF Kept, AllNamed
<1>6. CASE ScheduleExpire(c)
  <2>1. CallerGoes(c, WithNext(c)) /\ UNCHANGED <<due, blob, index>> /\ q.pc = "expire"
    BY <1>6 DEF ScheduleExpire
  <2>2. \A j \in Jobs : (Handled(j) <=> j = q.job) /\ ~Handled(j)'
    BY <1>2, <2>1, WithNextHand, HandStep DEF InHands
  <2>3. HasBlob' /\ Bounded'
    BY <1>2, <2>1 DEF Kept, HasBlob, Bounded
  <2>4. q.job \notin loose' => Members # {} /\ indexUntil' = clock + BlobTTL
    BY <1>6 DEF ScheduleExpire
  <2>5. \A j \in Jobs \ {q.job} : j \in loose' <=> j \in loose
    BY <1>6 DEF ScheduleExpire
  <2>6. AllTimed'
    BY <1>1, <2>1, <2>2, <2>5 DEF Kept, AllTimed, InHand
  <2>7. ASSUME NEW j \in Jobs, Settled(j)' PROVE Named(j)'
    <3>1. CASE j = q.job
      <4>1. indexUntil' = clock + BlobTTL /\ j \in index'
        BY <1>1, <2>1, <2>4, <2>7, <3>1 DEF Settled, InHand
      <4> QED
        BY <2>1, <4>1 DEF Named, Kept, Bounded
    <3>2. CASE j # q.job
      <4>1. Settled(j)
        BY <1>2, <2>1, <2>2, <2>5, <2>7, <3>2 DEF Settled, Expired
      <4>2. Named(j) /\ j \in Members
        BY <4>1, NamedIsMember DEF Kept, AllNamed, Settled
      <4>3. indexUntil' = clock + BlobTTL
        BY <1>6, <4>2 DEF ScheduleExpire
      <4> QED
        BY <2>1, <4>2, <4>3 DEF Named, Kept, Bounded
    <3> QED
      BY <3>1, <3>2
  <2>8. AllNamed'
    BY <2>6, <2>7 DEF AllNamed, AllTimed, Settled
  <2> QED
    BY <1>2, <2>1, <2>3, <2>6, <2>8, WithNextHand, OneHand DEF Kept
<1> QED
  BY <1>3, <1>4, <1>5, <1>6

\* A caller that is stopped leaves the job it was writing loose.
LEMMA StopKeeps ==
  ASSUME IndTypeOK, Separate, Kept, NEW c \in Callers, CallerStops(c)
  PROVE  Kept'
<1>1. CallerGoes(c, IdleCaller) /\ Scheduling(c) /\ UNCHANGED <<due, blob, index, indexUntil, clock>>
  BY DEF CallerStops
<1>2. IdleCaller.pc = "idle"
  BY DEF IdleCaller
<1>3. \A j \in Jobs : (Handled(j) <=> InHands(c) /\ caller[c].job = j) /\ ~Handled(j)'
  BY <1>1, <1>2, HandStep
<1>4. \A j \in Jobs : j \notin loose' => j \notin loose /\ ~Handled(j)
  BY <1>3 DEF CallerStops
<1>5. HasBlob' /\ Bounded'
  BY <1>1 DEF Kept, HasBlob, Bounded
<1>6. AllTimed' /\ AllNamed'
  BY <1>1, <1>4 DEF Kept, AllTimed, AllNamed, Settled, Named, Expired
<1>7. InHand(IdleCaller, due', blob', index', loose', clock')
  BY <1>2 DEF InHand
<1> QED
  BY <1>1, <1>5, <1>6, <1>7, OneHand DEF Kept

\* A route begins with nothing in hand.
LEMMA BeginsKeep ==
  ASSUME IndTypeOK, Kept, NEW c \in Callers, BeginSchedule(c) \/ BeginCancel(c) \/ BeginReplan(c)
  PROVE  Kept'
<1>1. PICK q : BeginCall(c, q) /\ q.pc \in {"smembers", "next"}
  <2>1. CASE BeginSchedule(c)
    <3>1. PICK j \in Jobs, at \in clock .. clock + MaxAhead :
            BeginCall(c, [IdleCaller EXCEPT !.pc = "next", !.todo = {[job |-> j, at |-> at]}])
      BY <2>1 DEF BeginSchedule
    <3>2. [IdleCaller EXCEPT !.pc = "next", !.todo = {[job |-> j, at |-> at]}].pc = "next"
      BY DEF IdleCaller
    <3> QED
      BY <3>1, <3>2
  <2>2. CASE BeginCancel(c)
    <3>1. [IdleCaller EXCEPT !.pc = "smembers"].pc = "smembers"
      BY DEF IdleCaller
    <3> QED
      BY <2>2, <3>1 DEF BeginCancel
  <2>3. CASE BeginReplan(c)
    <3> DEFINE todo(start) == {p \in {[job |-> j, at |-> start - Lead[j]] : j \in Jobs} : p.at >= clock}
    <3>1. PICK start \in clock .. clock + MaxAhead :
            BeginCall(c, [IdleCaller EXCEPT !.pc = "smembers", !.todo = todo(start)])
      BY <2>3 DEF BeginReplan
    <3> HIDE DEF todo
    <3>2. [IdleCaller EXCEPT !.pc = "smembers", !.todo = todo(start)].pc = "smembers"
      BY DEF IdleCaller
    <3> QED
      BY <3>1, <3>2
  <2> QED
    BY <2>1, <2>2, <2>3
<1>2. /\ UNCHANGED <<due, blob, index, indexUntil, clock, loose>> /\ caller[c].pc = "idle"
      /\ caller'[c] = q /\ \A d \in Callers \ {c} : caller'[d] = caller[d]
  BY <1>1 DEF BeginCall, CallerGoes, IndTypeOK
<1>3. \A j \in Jobs : Handled(j)' <=> Handled(j)
  BY <1>1, <1>2 DEF Handled, InHands
<1>4. (\A d \in Callers : InHand(caller'[d], due', blob', index', loose', clock'))
  BY <1>1, <1>2 DEF Kept, InHand, Beside, Expired
<1>5. HasBlob' /\ AllTimed' /\ AllNamed' /\ Bounded'
  BY <1>2, <1>3 DEF Kept, HasBlob, AllTimed, AllNamed, Bounded, Settled, Named, Expired
<1> QED
  BY <1>4, <1>5 DEF Kept

\* A claim takes the job out of the set first, and removes the rest after.
LEMMA TicksKeep ==
  ASSUME IndTypeOK, Separate, Exclusive, Kept, NEW t \in Ticks, BeginTick(t) \/ TickSteps(t) \/ TickDies(t)
  PROVE  Kept'
<1>1. ASSUME UNCHANGED <<due, blob, index, indexUntil, clock, loose, caller>> PROVE Kept'
  BY <1>1 DEF Kept, HasBlob, AllTimed, AllNamed, Bounded, Settled, Named, Expired, Handled, InHands,
              InHand, Beside
<1>2. ASSUME Claiming(t), UNCHANGED <<caller, clock, loose, indexUntil>>,
             \A j \in Jobs : due'[j] = None
                             \/ (due'[j] = due[j] /\ blob'[j] = blob[j] /\ (j \in Members => j \in index')),
             \A j \in Jobs : blob'[j] = NoBlob \/ blob'[j] = blob[j]
      PROVE  Kept'
  <2>1. \A c \in Callers : caller[c].pc = "idle" /\ caller'[c].pc = "idle"
    BY <1>2 DEF Separate, Scheduling
  <2>2. (\A c \in Callers : InHand(caller'[c], due', blob', index', loose', clock')) /\ \A j \in Jobs : ~Handled(j) /\ ~Handled(j)'
    BY <2>1 DEF InHand, Handled, InHands
  <2>3. HasBlob' /\ AllTimed'
    BY <1>2, <2>2 DEF Kept, HasBlob, AllTimed
  <2>4. Bounded'
    <3>1. clock \in Nat /\ BlobTTL \in Nat
      BY QueueAssumption DEF IndTypeOK
    <3> QED
      BY <1>2, <3>1 DEF Kept, Bounded, NoBlob
  <2>5. ASSUME NEW j \in Jobs, Settled(j)' PROVE Named(j)'
    <3>1. Settled(j) /\ blob'[j] = blob[j] /\ (j \in Members => j \in index')
      BY <1>2, <2>2, <2>5 DEF Settled, Expired
    <3>2. Named(j) /\ j \in Members
      BY <3>1, NamedIsMember DEF Kept, AllNamed, Settled
    <3> QED
      BY <1>2, <3>1, <3>2 DEF Named
  <2> QED
    BY <2>2, <2>3, <2>4, <2>5 DEF Kept, AllNamed, AllTimed, Settled
<1>3. \A j \in Members : j \in index
  BY DEF Members
<1>4. due \in [Jobs -> Int] /\ blob \in [Jobs -> Blobs] /\ tick[t].job \in Jobs /\ tick[t].ids \subseteq Jobs
  BY DEF IndTypeOK, TickRecords
<1>5. CASE ClaimZrem(t)
  <2>1. PICK j \in tick[t].ids : due' = [due EXCEPT ![j] = None]
    BY <1>5 DEF ClaimZrem
  <2>2. Claiming(t) /\ UNCHANGED <<blob, index, indexUntil, clock, loose, caller>>
    BY <1>5 DEF ClaimZrem, Claiming
  <2> QED
    BY <1>2, <1>3, <1>4, <2>1, <2>2
<1>6. CASE ClaimDel(t)
  <2>1. /\ Claiming(t) /\ UNCHANGED <<due, index, indexUntil, clock, loose, caller>>
        /\ blob' = [blob EXCEPT ![tick[t].job] = NoBlob] /\ due[tick[t].job] = None
    BY <1>6 DEF ClaimDel, Claiming, Exclusive, Owns
  <2>2. /\ \A j \in Jobs : due'[j] = None
                           \/ (due'[j] = due[j] /\ blob'[j] = blob[j] /\ (j \in Members => j \in index'))
        /\ \A j \in Jobs : blob'[j] = NoBlob \/ blob'[j] = blob[j]
    BY <1>3, <1>4, <2>1
  <2> QED
    BY <1>2, <2>1, <2>2
<1>7. CASE ClaimSrem(t)
  <2>1. /\ Claiming(t) /\ UNCHANGED <<due, blob, indexUntil, clock, loose, caller>>
        /\ index' = Members \ {tick[t].job} /\ due[tick[t].job] = None
    BY <1>7 DEF ClaimSrem, Claiming, Exclusive, Owns
  <2>2. \A j \in Jobs : due'[j] = None
                        \/ (due'[j] = due[j] /\ blob'[j] = blob[j] /\ (j \in Members => j \in index'))
    BY <1>4, <2>1
  <2> QED
    BY <1>2, <2>1, <2>2
<1> QED
  BY <1>1, <1>5, <1>6, <1>7
     DEF BeginTick, TickDies, TickSteps, ListDue, ClaimGet, EndClaim, RunJob, EndTick

LEMMA KeptNext ==
  ASSUME Apart, IndTypeOK, Separate, Exclusive, Kept, [Next]_vars
  PROVE  Kept'
<1>1. CASE Tick
  <2>1. UNCHANGED <<due, blob, index, indexUntil, loose, caller>> /\ clock' = clock + 1
    BY <1>1 DEF Tick
  <2>2. clock \in Nat /\ BlobTTL \in Nat /\ \A j \in Jobs : blob[j].until \in Nat
    BY QueueAssumption DEF IndTypeOK, Blobs
  <2>3. \A j \in Jobs : Expired(j) => Expired(j)'
    BY <2>1, <2>2 DEF Expired
  <2>4. Bounded'
    BY <2>1, <2>2 DEF Kept, Bounded
  <2>5. (\A c \in Callers : InHand(caller'[c], due', blob', index', loose', clock'))
    BY <2>1, <2>3 DEF Kept, InHand, Beside, Expired
  <2>6. \A j \in Jobs : Handled(j)' <=> Handled(j)
    BY <2>1 DEF Handled, InHands
  <2>7. HasBlob' /\ AllTimed' /\ AllNamed'
    BY <2>1, <2>3, <2>6 DEF Kept, HasBlob, AllTimed, AllNamed, Settled, Named
  <2> QED
    BY <2>4, <2>5, <2>7 DEF Kept
<1>2. CASE UNCHANGED vars
  BY <1>2 DEF vars, Kept, HasBlob, AllTimed, AllNamed, Bounded, Settled, Named, Expired, Handled,
              InHands, InHand, Beside
<1> QED
  BY <1>1, <1>2, CancelsKeep, SchedulesKeep, StopKeeps, BeginsKeep, TicksKeep DEF Next, CallerSteps

\* What is queued can be run and cancelled, except a job whose schedule was
\* cut short: for any jobs, callers and ticks, wherever they are stopped,
\* whatever expires meanwhile and however far ahead jobs are scheduled, as
\* long as routes and claims keep apart.
THEOREM QueuedAreWhole == Apart => (Spec => []QueuedIsWhole)
<1> DEFINE Inv == IndTypeOK /\ Separate /\ Exclusive /\ Kept
<1> SUFFICES ASSUME Apart PROVE Spec => []QueuedIsWhole
  OBVIOUS
<1>1. Init => Inv
  <2>1. Init => Separate /\ Exclusive
    BY DEF Init, Separate, Exclusive, Scheduling, Claiming, Owns, IdleTick, IdleCaller
  <2>2. Init => Kept
    BY QueueAssumption DEF Init, Kept, HasBlob, AllTimed, AllNamed, Bounded, Settled, InHand, IdleCaller, NoBlob
  <2> QED
    BY <2>1, <2>2, IndTypeInit
<1>2. Inv /\ [Next]_vars => Inv'
  BY IndTypeNext, SeparateNext, ExclusiveNext, KeptNext
<1>3. Inv => QueuedIsWhole
  <2> SUFFICES ASSUME Inv, NEW j \in Jobs, due[j] # None,
                      j \notin loose, \A c \in Callers : InHands(c) => caller[c].job # j
               PROVE  blob[j].fireAt = due[j] /\ (j \in Members \/ Expired(j))
    BY DEF QueuedIsWhole, Kept, HasBlob
  <2>1. ~Handled(j)
    BY DEF Handled
  <2> QED
    BY <2>1, NamedIsMember DEF Kept, AllTimed, AllNamed, Settled
<1> QED
  BY <1>1, <1>2, <1>3, PTL DEF Spec
=============================================================================
