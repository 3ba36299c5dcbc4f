------------------------------ MODULE JobQueue ------------------------------
(***************************************************************************)
(* lib/scheduler.ts: the jobs of one meeting in KV, the routes that        *)
(* schedule and cancel them, and the ticks (runDispatch) that claim what   *)
(* is due and run it.                                                      *)
(*                                                                         *)
(* A job is a member of a sorted set (`due`, scored by when), a blob, and  *)
(* an entry in the meeting's index; each is written and removed by a call  *)
(* of its own, so a schedule is four calls, a cancel four, and a claim     *)
(* four for every job, and whoever makes them can be stopped in between.   *)
(* Blobs and the index expire.  Ticks are kept apart by a lock that expires*)
(* and that any tick's end deletes.                                        *)
(***************************************************************************)
EXTENDS Integers, FiniteSets

CONSTANTS
  Jobs,         \* the meeting's job ids: a reminder, its ring
  Lead,         \* how long before the start each is due
  Callers,      \* routes that schedule and cancel
  Ticks,        \* ticks that may be running at once
  LockTime,     \* LOCK_SECONDS
  BlobTTL,      \* JOB_TTL_SECONDS
  MaxTime,      \* bound: the clock stops here
  MaxAhead,     \* bound: how far ahead a job is scheduled
  MaxSchedules, \* bound: how many jobs are scheduled
  MaxCancels,   \* bound: how often jobs are cancelled or replanned
  MaxStops,     \* bound: how often a route is stopped in the middle
  Apart         \* whether a caller's calls and a claim never overlap

ASSUME QueueAssumption ==
  /\ Jobs # {} /\ Lead \in [Jobs -> Nat]
  /\ LockTime \in Nat \ {0} /\ BlobTTL \in Nat \ {0}
  /\ MaxTime \in Nat /\ MaxAhead \in Nat
  /\ MaxSchedules \in Nat /\ MaxCancels \in Nat /\ MaxStops \in Nat
  /\ Apart \in BOOLEAN

VARIABLES
  clock,
  due,        \* the sorted set: when each queued job is due
  blob,       \* the job blobs
  index,      \* the meeting's index of its jobs,
  indexUntil, \* and when it expires
  lock,       \* until when the tick lock is held
  caller,     \* each caller: where it is and what it holds
  tick,       \* each tick, likewise
  scheduled,  \* how many blobs have been written; numbers them
  cancels,    \* the bound's counter
  stopped,    \* the bound's counter
  runs,       \* history: how often each blob's job has been run
  loose       \* history: the jobs whose last schedule was cut short

vars == <<clock, due, blob, index, indexUntil, lock, caller, tick, scheduled, cancels, stopped,
          runs, loose>>

None == -1
Forever == -1   \* indexUntil of an index no EXPIRE was called on
Times == Nat \cup {None}
Blobs == [no : Nat, fireAt : Int, until : Nat]
NoBlob == [no |-> 0, fireAt |-> 0, until |-> 0]
Plans == [job : Jobs, at : Int]

CallerPcs == {"idle", "smembers", "zrem", "del", "del_index", "next", "zadd", "sadd", "expire"}
TickPcs == {"idle", "list", "claim", "get", "del", "srem", "run"}

\* What each call of the claim loop and of scheduleJob is about: `job`.
NobodysJob == CHOOSE j \in Jobs : TRUE
IdleCaller == [pc |-> "idle", ids |-> {}, todo |-> {}, job |-> NobodysJob, at |-> 0]
IdleTick == [pc |-> "idle", now |-> 0, until |-> 0, ids |-> {}, job |-> NobodysJob,
             read |-> NoBlob, got |-> {}]

Claiming(t) == tick[t].pc \in {"list", "claim", "get", "del", "srem"}
Scheduling(c) == caller[c].pc # "idle"
NobodyClaims == \A t \in Ticks : ~Claiming(t)
NobodySchedules == \A c \in Callers : ~Scheduling(c)

Init ==
  /\ clock = 0
  /\ due = [j \in Jobs |-> None]
  /\ blob = [j \in Jobs |-> NoBlob]
  /\ index = {} /\ indexUntil = Forever
  /\ lock = 0
  /\ caller = [c \in Callers |-> IdleCaller]
  /\ tick = [t \in Ticks |-> IdleTick]
  /\ scheduled = 0
  /\ cancels = 0 /\ stopped = 0
  /\ runs = [n \in 1..MaxSchedules |-> 0]
  /\ loose = {}

\* What KV still has of a blob and of the index: neither outlives its TTL.
Expired(j) == blob[j].until <= clock
Read(j) == IF Expired(j) THEN NoBlob ELSE blob[j]
Members == IF indexUntil # Forever /\ indexUntil <= clock THEN {} ELSE index

Tick ==
  /\ clock < MaxTime
  /\ clock' = clock + 1
  /\ UNCHANGED <<due, blob, index, indexUntil, lock, caller, tick, scheduled, cancels, stopped,
                 runs, loose>>

----------------------------------------------------------------------------
(* Callers.                                                                *)

CallerGoes(c, next) == caller' = [caller EXCEPT ![c] = next]

BeginCall(c, next) ==
  /\ caller[c].pc = "idle" /\ scheduled + Cardinality(next.todo) <= MaxSchedules
  /\ Apart => NobodyClaims /\ NobodySchedules
  /\ CallerGoes(c, next)
  /\ UNCHANGED <<clock, due, blob, index, indexUntil, lock, tick, scheduled, stopped, runs, loose>>

\* scheduleJob alone: a round of rings queues the next one.
BeginSchedule(c) ==
  \E j \in Jobs, at \in clock .. clock + MaxAhead :
    /\ BeginCall(c, [IdleCaller EXCEPT !.pc = "next", !.todo = {[job |-> j, at |-> at]}])
    /\ UNCHANGED cancels

\* cancelMeetingJobs, and scheduleMeetingJobs, which cancels and then
\* schedules what the new start leaves in the future.
BeginCancel(c) ==
  /\ cancels < MaxCancels /\ cancels' = cancels + 1
  /\ BeginCall(c, [IdleCaller EXCEPT !.pc = "smembers"])

BeginReplan(c) ==
  /\ cancels < MaxCancels /\ cancels' = cancels + 1
  /\ \E start \in clock .. clock + MaxAhead :
       LET plan == {[job |-> j, at |-> start - Lead[j]] : j \in Jobs}
       IN BeginCall(c, [IdleCaller EXCEPT !.pc = "smembers",
                                          !.todo = {p \in plan : p.at >= clock}])

\* On to the plan's next job, or done.
WithNext(c) ==
  IF caller[c].todo = {} THEN IdleCaller
  ELSE [IdleCaller EXCEPT !.pc = "next", !.todo = caller[c].todo]

CancelSmembers(c) ==
  /\ caller[c].pc = "smembers"
  /\ CallerGoes(c, [caller[c] EXCEPT !.ids = Members,
                                     !.pc = IF Members = {} THEN "del_index" ELSE "zrem"])
  /\ UNCHANGED <<clock, due, blob, index, indexUntil, lock, tick, scheduled, cancels, stopped,
                 runs, loose>>

\* Mutant: leaves the sorted set alone.
CancelZremNothing(c) ==
  /\ caller[c].pc = "zrem"
  /\ CallerGoes(c, [caller[c] EXCEPT !.pc = "del"])
  /\ UNCHANGED <<clock, due, blob, index, indexUntil, lock, tick, scheduled, cancels, stopped,
                 runs, loose>>

CancelZrem(c) ==
  /\ caller[c].pc = "zrem"
  /\ due' = [j \in Jobs |-> IF j \in caller[c].ids THEN None ELSE due[j]]
  /\ CallerGoes(c, [caller[c] EXCEPT !.pc = "del"])
  /\ UNCHANGED <<clock, blob, index, indexUntil, lock, tick, scheduled, cancels, stopped, runs,
                 loose>>

CancelDel(c) ==
  /\ caller[c].pc = "del"
  /\ blob' = [j \in Jobs |-> IF j \in caller[c].ids THEN NoBlob ELSE blob[j]]
  /\ CallerGoes(c, [caller[c] EXCEPT !.pc = "del_index"])
  /\ UNCHANGED <<clock, due, index, indexUntil, lock, tick, scheduled, cancels, stopped, runs,
                 loose>>

CancelDelIndex(c) ==
  /\ caller[c].pc = "del_index"
  /\ index' = {} /\ indexUntil' = Forever
  /\ CallerGoes(c, WithNext(c))
  /\ UNCHANGED <<clock, due, blob, lock, tick, scheduled, cancels, stopped, runs, loose>>

\* scheduleJob: SET the blob, ZADD, SADD, EXPIRE.  In which order a plan's
\* jobs are scheduled is left open.
ScheduleSet(c) ==
  \E p \in caller[c].todo :
    /\ caller[c].pc = "next" /\ scheduled < MaxSchedules
    /\ scheduled' = scheduled + 1
    /\ blob' = [blob EXCEPT ![p.job] =
                  [no |-> scheduled + 1, fireAt |-> p.at, until |-> clock + BlobTTL]]
    /\ CallerGoes(c, [caller[c] EXCEPT !.pc = "zadd", !.todo = @ \ {p}, !.job = p.job, !.at = p.at])
    /\ UNCHANGED <<clock, due, index, indexUntil, lock, tick, cancels, stopped, runs, loose>>

Score(c) == caller[c].at

ScheduleZadd(c) ==
  /\ caller[c].pc = "zadd"
  /\ due' = [due EXCEPT ![caller[c].job] = Score(c)]
  /\ CallerGoes(c, [caller[c] EXCEPT !.pc = "sadd"])
  /\ UNCHANGED <<clock, blob, index, indexUntil, lock, tick, scheduled, cancels, stopped, runs,
                 loose>>

\* Mutant: the index is told the meeting's id.
IndexedMeeting(j) == Members \cup {"meeting"}

Indexed(j) == Members \cup {j}

\* SADD makes the index anew, without a TTL, when there is none.
ScheduleSadd(c) ==
  /\ caller[c].pc = "sadd"
  /\ index' = Indexed(caller[c].job)
  /\ indexUntil' = IF Members = {} THEN Forever ELSE indexUntil
  /\ CallerGoes(c, [caller[c] EXCEPT !.pc = "expire"])
  /\ UNCHANGED <<clock, due, blob, lock, tick, scheduled, cancels, stopped, runs, loose>>

\* EXPIRE does nothing when an older TTL has taken the index since the SADD.
ScheduleExpire(c) ==
  /\ caller[c].pc = "expire"
  /\ IF Members = {} THEN /\ loose' = loose \cup {caller[c].job}
                         /\ UNCHANGED indexUntil
     ELSE /\ loose' = loose \ {caller[c].job}
          /\ indexUntil' = clock + BlobTTL
  /\ CallerGoes(c, WithNext(c))
  /\ UNCHANGED <<clock, due, blob, index, lock, tick, scheduled, cancels, stopped, runs>>

\* The calls of scheduleJob that a job is in the middle of.
InHands(c) == caller[c].pc \in {"zadd", "sadd", "expire"}

\* The function is stopped, or a call to KV fails, wherever the route is:
\* what it wrote stays.
CallerStops(c) ==
  /\ Scheduling(c) /\ stopped < MaxStops
  /\ stopped' = stopped + 1
  /\ loose' = IF InHands(c) THEN loose \cup {caller[c].job} ELSE loose
  /\ CallerGoes(c, IdleCaller)
  /\ UNCHANGED <<clock, due, blob, index, indexUntil, lock, tick, scheduled, cancels, runs>>

CallerSteps(c) ==
  \/ CancelSmembers(c) \/ CancelZrem(c) \/ CancelDel(c) \/ CancelDelIndex(c)
  \/ ScheduleSet(c) \/ ScheduleZadd(c) \/ ScheduleSadd(c) \/ ScheduleExpire(c)

----------------------------------------------------------------------------
(* Ticks.                                                                  *)

TickGoes(t, next) == tick' = [tick EXCEPT ![t] = next]

\* Mutant: SET NX without EX.
LockForever(now) == now + LockTime + MaxTime

LockUntil(now) == now + LockTime

\* acquireTickLock: SET NX EX.  A tick that does not get it does nothing.
BeginTick(t) ==
  /\ tick[t].pc = "idle" /\ lock <= clock
  /\ Apart => NobodySchedules
  /\ lock' = LockUntil(clock)
  /\ TickGoes(t, [IdleTick EXCEPT !.pc = "list", !.now = clock, !.until = clock + LockTime])
  /\ UNCHANGED <<clock, due, blob, index, indexUntil, caller, scheduled, cancels, stopped, runs,
                 loose>>

DueIds(now) == {j \in Jobs : due[j] # None /\ due[j] <= now}

\* claimDue: the ids that are due; then for each, in an order left open,
\* ZREM, GET, DEL, SREM.
ListDue(t) ==
  /\ tick[t].pc = "list"
  /\ TickGoes(t, [tick[t] EXCEPT !.ids = DueIds(tick[t].now), !.pc = "claim"])
  /\ UNCHANGED <<clock, due, blob, index, indexUntil, lock, caller, scheduled, cancels, stopped,
                 runs, loose>>

\* Mutant: does not look at what ZREM answered.
TakesAnyway(j) == TRUE

\* Whether ZREM removed it, which makes it this tick's.
Takes(j) == due[j] # None

ClaimZrem(t) ==
  \E j \in tick[t].ids :
    /\ tick[t].pc = "claim"
    /\ due' = [due EXCEPT ![j] = None]
    /\ TickGoes(t, IF Takes(j) THEN [tick[t] EXCEPT !.ids = @ \ {j}, !.job = j, !.pc = "get"]
                   ELSE [tick[t] EXCEPT !.ids = @ \ {j}])
    /\ UNCHANGED <<clock, blob, index, indexUntil, lock, caller, scheduled, cancels, stopped,
                   runs, loose>>

ClaimGet(t) ==
  /\ tick[t].pc = "get"
  /\ TickGoes(t, [tick[t] EXCEPT !.read = Read(tick[t].job), !.pc = "del"])
  /\ UNCHANGED <<clock, due, blob, index, indexUntil, lock, caller, scheduled, cancels, stopped,
                 runs, loose>>

\* A job whose blob is gone is dropped, its index entry left behind.
ClaimDel(t) ==
  /\ tick[t].pc = "del"
  /\ blob' = [blob EXCEPT ![tick[t].job] = NoBlob]
  /\ TickGoes(t, [tick[t] EXCEPT !.pc = IF tick[t].read = NoBlob THEN "claim" ELSE "srem"])
  /\ UNCHANGED <<clock, due, index, indexUntil, lock, caller, scheduled, cancels, stopped, runs,
                 loose>>

ClaimSrem(t) ==
  /\ tick[t].pc = "srem"
  /\ index' = Members \ {tick[t].job}
  /\ TickGoes(t, [tick[t] EXCEPT !.got = @ \cup {tick[t].read}, !.read = NoBlob, !.pc = "claim",
                                 !.job = NobodysJob])
  /\ UNCHANGED <<clock, due, blob, indexUntil, lock, caller, scheduled, cancels, stopped, runs,
                 loose>>

EndClaim(t) ==
  /\ tick[t].pc = "claim" /\ tick[t].ids = {}
  /\ TickGoes(t, [tick[t] EXCEPT !.pc = "run"])
  /\ UNCHANGED <<clock, due, blob, index, indexUntil, lock, caller, scheduled, cancels, stopped,
                 runs, loose>>

\* runJob, one after another; a job that throws is only counted.
RunJob(t) ==
  \E b \in tick[t].got :
    /\ tick[t].pc = "run"
    /\ runs' = [runs EXCEPT ![b.no] = @ + 1]
    /\ TickGoes(t, [tick[t] EXCEPT !.got = @ \ {b}])
    /\ UNCHANGED <<clock, due, blob, index, indexUntil, lock, caller, scheduled, cancels, stopped,
                   loose>>

\* releaseTickLock: DEL, whoever holds the lock by now.
EndTick(t) ==
  /\ tick[t].pc = "run" /\ tick[t].got = {}
  /\ lock' = 0
  /\ TickGoes(t, IdleTick)
  /\ UNCHANGED <<clock, due, blob, index, indexUntil, caller, scheduled, cancels, stopped, runs,
                 loose>>

\* The function is stopped (its platform's time limit, a deploy): what it
\* has claimed is gone, the lock stays until it expires.  Bound: only while
\* there is time for that.
TickDies(t) ==
  /\ tick[t].pc # "idle" /\ tick[t].until < MaxTime
  /\ TickGoes(t, IdleTick)
  /\ UNCHANGED <<clock, due, blob, index, indexUntil, lock, caller, scheduled, cancels, stopped,
                 runs, loose>>

TickSteps(t) ==
  \/ ListDue(t) \/ ClaimZrem(t) \/ ClaimGet(t) \/ ClaimDel(t) \/ ClaimSrem(t)
  \/ EndClaim(t) \/ RunJob(t) \/ EndTick(t)

Next ==
  \/ Tick
  \/ \E c \in Callers : BeginSchedule(c) \/ BeginCancel(c) \/ BeginReplan(c) \/ CallerSteps(c)
                         \/ CallerStops(c)
  \/ \E t \in Ticks : BeginTick(t) \/ TickSteps(t) \/ TickDies(t)

Spec == Init /\ [][Next]_vars

\* The worker keeps ticking; a tick and a route that have begun run on,
\* unless they are stopped.
Fairness ==
  /\ WF_vars(Tick)
  /\ WF_vars(\E t \in Ticks : BeginTick(t))
  /\ \A t \in Ticks : WF_vars(TickSteps(t))
  /\ \A c \in Callers : WF_vars(CallerSteps(c))

FairSpec == Spec /\ Fairness

----------------------------------------------------------------------------
(* Properties.                                                             *)

\* Every variable has its type.
TypeOK ==
  /\ clock \in 0..MaxTime
  /\ due \in [Jobs -> Int] /\ blob \in [Jobs -> Blobs]
  /\ index \subseteq Jobs /\ indexUntil \in Nat \cup {Forever}
  /\ lock \in Nat
  /\ caller \in [Callers -> [pc : CallerPcs, ids : SUBSET Jobs, todo : SUBSET Plans,
                              job : Jobs, at : Int]]
  /\ tick \in [Ticks -> [pc : TickPcs, now : Nat, until : Nat, ids : SUBSET Jobs, job : Jobs,
                          read : Blobs, got : SUBSET Blobs]]
  /\ scheduled \in 0..MaxSchedules /\ cancels \in 0..MaxCancels /\ stopped \in 0..MaxStops
  /\ runs \in [1..MaxSchedules -> Nat] /\ loose \subseteq Jobs

\* Overlapping ticks never run a job twice (scheduler.ts): not even when the
\* lock has expired under a slow tick or another's end deleted it.
RunOnce == \A n \in DOMAIN runs : runs[n] <= 1

\* What is queued can be run and cancelled: nothing but its TTL takes a
\* queued job's blob, and unless the schedule that wrote it was cut short, or
\* is under way, the blob says the time the job is queued for and the
\* meeting's index names it for as long as the blob lives.  (A claim and a
\* cancel take the job out of the queue before they take the rest.)
QueuedIsWhole ==
  \A j \in Jobs : due[j] # None =>
    /\ blob[j] # NoBlob
    /\ j \notin loose /\ (\A c \in Callers : InHands(c) => caller[c].job # j)
         => blob[j].fireAt = due[j] /\ (j \in Members \/ Expired(j))

\* A job that is due is taken, replaced or cancelled in the end, even when
\* ticks die holding the lock.
IsDue(j) == due[j] # None /\ due[j] <= clock
DueIsTaken == \A j \in Jobs : []<>(~IsDue(j))

\* What scheduler.ts says of cancelMeetingJobs: when it has run through, no
\* job of the meeting is pending.  Not kept when a schedule before it was cut
\* short (README).
CancelDropsAll ==
  [][\A c \in Callers : CancelDelIndex(c) => \A j \in Jobs : due[j] = None]_vars

\* What scheduler.ts says scheduleMeetingJobs does, a meeting's reminders and
\* its first ring: a job that was scheduled to the end can be run when its
\* time comes.  Not kept of what is further ahead than BlobTTL (README).
ThereWhenDue ==
  \A j \in Jobs : due[j] = clock /\ j \notin loose /\ (\A c \in Callers : InHands(c) => caller[c].job # j)
    => ~Expired(j)
=============================================================================
