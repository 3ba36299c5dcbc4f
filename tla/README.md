# NeoConference: TLA+ specifications and proofs

This directory models the server side of NeoConference: the Next.js route
handlers and libraries under `src/app/api` and `src/lib` of the repository, and
the small worker that ticks them. Paths below are relative to the repository's
root (`src/` there is the web application).

## The system

NeoConference is a conferencing product. LiveKit carries the media; Clerk holds
accounts; everything else is kept in a Redis-like key-value store ("KV") that is
reached over HTTP. There is no database and there are no transactions: every KV
call is one `await` of its own, and almost every change is *read, patch, write
back whole*. Handlers run as serverless functions, so any number of requests run
at once, and each KV call is a point where others can come in between. That is
where the hard behaviour is, and it is what these models keep: **a handler is cut
at its KV calls** (and at its calls to LiveKit, Clerk, Stripe and the message
providers), and what it has read so far is held in a record of its own until it
writes. A model of a handler is a record with a `pc` for where it is.

### Components

| component | state | operations | how it meets the others | modelled |
|---|---|---|---|---|
| Meeting record and lifecycle (`lib/eventStore`, `lib/meetingLifecycle`, `lib/meetingSweep`, start/end/delete/token/webhook routes) | one JSON record per meeting, the slug index, the owner sets, the trash | start, end, archive, rejoin, room opened, room emptied, sweep, every edit; create, adopt, rename, delete, restore | LiveKit's webhook; all other routes save the same record | `MeetingRecord`, `SlugIndex` |
| Waiting room (`lib/waitingRoom`, `api/waiting-room`, `api/events/[id]/waiting`, the token route's gate) | the queue inside the meeting record; an expiring key per knock | knock, admit, deny, switch on/off, enqueue, clear at room end | lives in the meeting record, so every save of it is also a save of the queue | `WaitingRoom` |
| Job queue (`lib/scheduler`, `scheduler-worker`) | sorted set of job ids, one blob per job, one index per meeting, a tick lock | schedule, cancel, reschedule, claim what is due, lock, unlock | the worker calls `POST /api/internal/dispatch` every 30 s; group meetings and ring rounds schedule | `JobQueue` |
| Ring engine (`lib/ringEngine`) | one call record per person and meeting | ring round, ring again, late round, answer, decline, join | run by the job queue and directly by routes; reads the meeting record, presence, group settings | `RingEngine` |
| Bulk sends (`lib/comms/sends`) | a send, its chunks of recipients, statuses and claims per chunk, a lease, a seen-set, the active set | confirm, pause, resume, cancel, list recipients, deliver a chunk, save progress | ticked by the dispatch and cron routes and the admin's page; in-app, push and e-mail providers | `BulkSend` |
| Automation and operations jobs (`lib/automation`, `lib/ops`) | a rule, its run state, a job lock, a claim per person and period, an alert; a key that replaces a cron job | tick, run now, status, reschedule; pause and resume | cron routes, the dispatcher | `Automation`, `Takeover` |
| Join codes and join lock (`lib/participantCodes`, `lib/joinLock`, `api/video/join`) | a claim and a sign-out mark per code, the lock | claim, take over, leave, sign out, release, lock, the page's check | LiveKit's answer whether a slot is live | `JoinCodes` |
| Device sessions (`lib/deviceSessions`) | a record per session, a policy per account | first request, sign-outs, policy | Clerk's sessions | `DeviceSessions` |
| Refunds and the ledger (`lib/finance`) | the stored sale with its refunds, a minute's lock | refund, mirror `charge.refunded` | Stripe and its webhook | `Refunds` |
| Partner attendance (`lib/partners/attendance`) | a zone's pointer, sessions, connections | opened, connected, heartbeat, left, finished, look | LiveKit's webhook, visitors' pages | `PrayerSessions` |
| Group meetings (`lib/groupMeetings`), groups (`lib/groupStore`) | meeting records of a group, series, members | create, materialise, edit, cancel, invite | writes meeting records, schedules and cancels jobs, rings | not yet; planned |
| Plans and billing, recording and transcripts, roles, support, admin, data governance, push, web and mobile clients | records of their own | mostly reads and single writes | see `PROJECT.json` | no |

`PROJECT.json` lists every component with its status, and the hazards (what can go
wrong that a test would hardly reach) each at its line, with the properties about it.

## Modules

### `Lifecycle.tla`

The judgements of `lib/meetingLifecycle.ts` (does the room opening make this
meeting live, does its emptying end it, does the sweep end it) and the patches the
writers apply, as operators on `[state, endedBy, startedAt]`. No state. Mutated
forms of some of them stand beside them: each is a plausible slip, used to show that
a property can tell it from the code. The other modules have such mutants too, each
commented as one; nothing else uses them.

### `MeetingRecord.tla`

One stored meeting, `ev`, and up to `Requests` requests in flight. A handler is cut
at its KV calls: `Begin...`/`Receive...` is its first read with the early returns that
follow it, `UpdateRead` and `UpdateWrite` are the two calls of `eventStore.update`,
with `Patched` the handler's patch. room_finished additionally clears the waiting room
with an update of its own before it decides (`clear`, then `DecideRoomFinished`), the
sweep lists the rooms between listing the meetings and updating (`DecideSweep`), and
End deletes the LiveKit room afterwards (`DeleteRoom`). LiveKit is external: `room` is
whether it has the room open, `hooks` what it has said that no handler has received
yet. Calls can be received in any order and, when `LossyHooks`, lost.

A request that fails half way (KV unreachable) leaves what it has done so far; one
that fails before its write changes nothing, which is the same as not having begun.

Time is counted in units of the early window and of the grace period
(`EarlyStart = Grace = 1`, `ScheduledAt = 2`, `MaxTime = 3`: too early, early window,
due, past grace); two requests are enough for every lost update (a reader and a
writer in between). Nothing is begun when less than `Grace` of time is left, so that a
meeting can always grow stale before the clock stops.

Fairness: time passes; a request that began runs on; a call from LiveKit that is not
lost is received; and a sweep eventually begins while the meeting is live, which is
what the meetings list does on every load (`api/events/mine/route.ts`). Nobody has to
press anything.

### `SlugIndex.tla`

Which meeting an address opens: records with a slug and former slugs, the slug index,
the trash. `BeginCreate`/`StoreCreated`/`IndexCreated` is `create`,
`BeginAdopt`/`ClaimSlug`/`StoreAdopted` is `createIfSlugFree` (set if absent, then the
record), `BeginRename` to `KeepOldSlug` is `rename` with its caller's check,
`BeginDelete` to `Deleted` is `delete`, which looks at each slug before it releases it,
and `BeginRestore` to `Restored` is the trash's restore. `Dies` stops a handler between
any two of its calls. `Leftover` is a meeting whose slug the index gives to another, as
older releases left some. `Apart` keeps what the code does not keep apart out of the
run (see below).

### `WaitingRoom.tla`

The waiting room's part of a meeting's record: the switch and one queue entry per
person. It has the same three-step requests as `MeetingRecord` (`Begin...`,
`UpdateRead`, `UpdateWrite` with the handler's patch in `Patched`), since the queue is
in the meeting's record and every handler that saves the meeting saves the queue with
it (`BeginEdit`).

| code | actions |
|---|---|
| `POST api/waiting-room`, knock | `BeginKnock` (`KnockInvited`, `KnockNew`, `KnockAgain` are its three outcomes), `ReadLastKnock`, the update, `NoteKnock` or `NoteKnockFails` |
| admit, deny (there, and in `api/events/[id]/waiting`) | `BeginDecide`, the update |
| the switch | `BeginSet`, the update |
| `PUT api/events/[id]/waiting` | `BeginEnqueue`, the update |
| the webhook's reset at room_finished | `ReceiveRoomFinished`, the update with `Cleared` |
| the token route, when it asks the gate | `GetToken`, with `PassesGate` |
| the token route, when it does not: the client names no meeting (`token/route.ts:45, 67`), or asking fails (`:145-148`) | `GetTokenUnasked` |
| LiveKit | `Connect`, `Leave`, `RoomCloses` |
| passing time | `KnockExpires`, `RefusalSpent` |

A person knocks from one client and so has one knock in flight; other requests are
bounded by `Requests`. Times are two-valued: a refusal holds or is spent, a knock's key
is there or has expired. `letIn` and `vouched` are history: who has ever been let in by
someone entitled to, and who since the room last closed.

Since the route issues a token when it does not get to ask, a person can be in the room
whom nobody admitted; no property says otherwise. What the properties say is whom the queue
calls admitted, which is all that the gate goes by when it is asked.

Fairness: a client knocks for as long as its person waits (its page polls), requests
run on, and a refusal's minute passes. Nobody has to admit anyone.

### `JobQueue.tla`

One meeting's jobs (`lib/scheduler.ts`): `due` is the sorted set, `blob` the job blobs
with their expiry, `index` the meeting's set of job ids and `indexUntil` its expiry,
`lock` until when the tick lock is held. What has expired is there no more for whoever reads
it (`Read`, `Members`). A blob carries a number, `no`, so that "run twice" can be said of a blob
and not of an id, which may be scheduled again; `runs` counts them. `loose` are the jobs whose last schedule
was cut short.

| code | actions |
|---|---|
| `scheduleJob` (queueNextRound in the ring engine) | `BeginSchedule`, `ScheduleSet`, `ScheduleZadd`, `ScheduleSadd`, `ScheduleExpire` |
| `cancelMeetingJobs` | `BeginCancel`, `CancelSmembers`, `CancelZrem`, `CancelDel`, `CancelDelIndex` |
| `scheduleMeetingJobs` | `BeginReplan`, then the cancel's steps, then the schedule's for each job not in the past |
| `acquireTickLock`, `releaseTickLock` | `BeginTick`, `EndTick` |
| `claimDue` | `ListDue`, then per job `ClaimZrem`, `ClaimGet`, `ClaimDel`, `ClaimSrem`, then `EndClaim` |
| `runDispatch` | `BeginTick` to `EndTick`, with `RunJob` once per claimed job |
| a tick stopped by the platform, between any two of its calls | `TickDies` |
| a route stopped, or left without KV's answer, before any of its calls | `CallerStops`, at most `MaxStops` times |

In which order a plan's jobs are written and due ids are claimed is left open, so the
properties hold for any order. The cap of 200 jobs a tick is never reached by one
meeting's jobs.

`Apart` says whether routes and claims overlap. With `Apart = TRUE` callers run one at
a time and never while a tick is between listing the due jobs and having claimed them
all; ticks still overlap with each other, outlive their lock, delete each other's and
die. With `Apart = FALSE` nothing is kept apart. The code does not keep them apart, and
the split says exactly what that costs (below).

Fairness: time passes, some tick begins when the lock is free (the worker calls every
30 s whatever happened to its last call), and what has begun runs on, unless it dies.
`TickDies` and `CallerStops` have none; the first is bounded by the clock.

### `RingEngine.tla`

The calling of one group meeting: a call record per person (`calls`: status, attempts,
whether the fallback message went), the meeting's ring job (`job`, as `JobQueue` gives
it: at most once), rounds and answers in flight.

| code | actions |
|---|---|
| `runJob` of a ring job, on time or late | `ClaimInTime`, `ClaimLate` |
| Ring again | `RingAgain`, with `StartsOver` |
| a round: reading, then each person | `Begin`, `Each` (`FindHere`, `FindBusy`, `Ring`, `MarkMissed` are what it finds), `SetCall` |
| `queueNextRound` | `LookForPending`, `QueueNext` |
| answer, decline, join | `BeginAnswer`, `BeginDecline`, `BeginJoin`, `RespondWrite` |
| somebody added to a running meeting | `AddPerson` |
| a round cut short | `Fails` |

Fairness: ticks come and are not all late (strong fairness of `ClaimInTime`), rounds
and answers run on. `rings`, `messages`, `settled` and `stands` are history: `settled` is
who has answered, declined or come and not been called afresh since, `stands` those of them
whom no round was about to call then. A round is about to call, or to write for, whom it
`Holds`: it has read a record of theirs that says otherwise and has not got past them.

### `AtMostOnce.tla`, and `BulkSend.tla` and `Automation.tla` that implement it

`AtMostOnce` is what both promise, as a specification of its own: an item is first
taken; only what has been taken is given, and never a second time; `SpecWithReturns`
also lets what was taken in vain be handed back. What is taken and never given is lost,
which both accept ("at most once, never twice").

`BulkSend` is one announcement. A worker (`Start`: from the dispatcher's tick, the cron
or the admin's page) takes the lease, reads the send, and either lists one page of
people into a chunk (`ListPage`, `Sismember`, `Sadd`, `WriteChunk`) or delivers one chunk
on each channel (`Load`, `Gate...`, `Deliver`, `Hset`), then saves its progress by two
calls, the first of which reads the status again (`SaveRead`, `SaveWrite`, `Srem`). A control
reads, writes the send whole and then changes the active set (`BeginControl`,
`ControlWrite`, `ControlActive`). Workers die (`Dies`) and leave the lease to expire.
`KeepsToOnce` is `AtMostOnce`'s specification under the mapping *taken* = the pairs of
person and channel claimed in some chunk, *given* = how often each was reached.
Fairness: a worker is started again and again by the ticks, what has begun runs on, the
lease of a dead worker expires, and a page is listed in the end although the listing may
fail now and then.

`Automation` is one rule: the dispatcher's tick and an administrator's "Run now" take the
job lock, find subjects, claim each, act, hand back what failed, release the lock, then
read and write the rule's state outside it, raising or closing the alert. *Taken* is who
has a claim, *given* how often each was acted on; a failed action hands its claim back.
Fairness: the cron keeps calling, calls run on, the lock of a dead run expires, and a
rule that is due is not for ever found in its quiet hours.

### The small protocols

- `Takeover.tla`: a rule that replaces a cron job keeps a key alive while it is active;
  the cron stands down while the key is there. Fairness: the cron is called daily, a
  dispatcher that is up ticks, the key expires when nobody keeps it.
- `JoinCodes.tla`: devices entering one join code (`EnterCode` to `StartSession`), cameras
  that drop and reconnect, leaving, the page's check every ten seconds, staff's sign-out,
  release and lock. Fairness: requests run on and joined pages keep asking.
- `DeviceSessions.tla`: the first request of each session (`SignsOut` to `RevokeAtClerk`)
  and the person's own sign-outs and policy. Clerk may not list sessions and may not end
  one it was told to end. Either may stop before any of its calls (`CheckStops`,
  `SettingStops`), also because KV fails: the first request is then let through
  (`deviceSessions.ts:242-244`), with what it had done so far.
- `Refunds.tla`: a refund takes the lock, looks, asks Stripe with an idempotency key,
  reads the sale afresh and saves; it may die or lose Stripe's answer anywhere and be
  made again, with the same or another amount. With `Slow`, it may also take longer than the
  lock's minute. Stripe's `charge.refunded` is mirrored.
- `PrayerSessions.tla`: a partner zone's pointer, the sessions it has named, the
  connections recorded in them; the webhook and the pages report late, twice and in any
  order.

### MC modules, and modules that put protocols side by side

`MCMeetingRecord`, `MCJobQueue`, `MCWaitingRoom`, `MCBulkSend` and `MCRingEngine` name the
small sets of their module and its symmetries (used only where no liveness is checked).
`MCBulkSend` and `MCRingEngine` also put two kinds of behaviour on their module's variables,
which differ in the bounds and in what overlaps: the module itself and an instance of it with
other constants. The variable `focus` says which kind a behaviour is. `MCMeetingRecord` has a
second meeting, with variables of its own: a permanent room, beside the scheduled one.

`MCDispatch`, `Entry` and `Records` put several independent protocols side by side. Each
extends the module of one of them (`JobQueue`, `PrayerSessions`, `DeviceSessions`) and has
the others as instances. Here `focus` picks one protocol for the behaviour, that
one moves and the others stand still. The protocols do not share state, so nothing is lost
by not interleaving them, and a property of one is checked exactly as in a run of its own.
Fairness is given to a protocol's actions where `focus` names it, and is no demand elsewhere.

| module | foci |
|---|---|
| `MCMeetingRecord` | *scheduled* (two requests that overlap), *always open* (a permanent room found ended, one request at a time) |
| `MCBulkSend` | *overlap* (two workers, controls at any time), *in turn* (one worker, no control between a save's two calls, no death while listing) |
| `MCRingEngine` | *people* (two people, no answers), *answers* (one person, three answers) |
| `MCDispatch` | *queue* (`JobQueue`), *cron* (`Takeover`) |
| `Entry` | *waiting* (`WaitingRoom`, requests one at a time), *heard* (the same, overlapping), *code* (`JoinCodes`), *prayer* (`PrayerSessions`) |
| `Records` | *address* (`SlugIndex`), *devices* (`DeviceSessions`), *one call* (`Automation`), *refund* (`Refunds`), *meeting* (`MeetingRecord`) |

`Entry` and `Records` leave their constants to the `.cfg`, as the modules in them do, and so
there are theorems about them: that each protocol in them is the one its own module
specifies, and, with that, what is proved of it (see "Proofs").

## What each run shows

Deadlock is not checked in any run: the bounds on requests, sessions and time let every
system come to rest.

| run | instance | shows |
|---|---|---|
| `meeting_record` | two sessions of the room. *scheduled*: two requests (interchangeable), two of those people's. *always open*: one request at a time, three of those people's, LiveKit's calls lost | Interleaved at every KV call the record stays coherent (`Coherent`), and opening and emptying the room ahead of time never moves the meeting (`LookingInIsHarmless`). A permanent room that an older release stored as ended is reopened by a join or a start and stays open (`ReopenedStaysOpen`). |
| `job_queue` | two jobs, two ticks, one route that is stopped once, three schedules, one cancel or replan; the lock lasts one unit of two, a blob and the index live for one; routes and claims apart | Ticks that overlap, outlive their lock and die, a route stopped before any of its calls, blobs that expire before they are due: nothing runs twice (`RunOnce`), and what is queued can be run and cancelled, but for a job whose own schedule was cut short (`QueuedIsWhole`). |
| `dispatch` | *queue*: two jobs, two ticks, one route, two schedules and one cancel. *cron*: three changes, two stops. | Though ticks die and locks expire, what is due is taken in the end (`DueIsTaken`). A cron job replaced by a rule is never left with nobody (`NeverLeftWithNobody`). |
| `waiting_room` | one person who must wait, one whom the group invites, one other request beside their knocks, two of those in all | Nobody is marked as admitted whom no host and no group let in (`OnlyHostsAdmit`), whatever stale queues are written back. |
| `entry` | *waiting*: two people, two sessions, one request at a time. *heard*: one person, overlapping. *code*: three devices, one staff action, one drop. *prayer*: three sessions of a zone, one connection, two requests at once, four in all, reads of the pointer apart | Admissions last until the room's end is handled and no longer (`AdmissionEnds`), what a host answered stands (`AnswersStand`), who keeps knocking is heard (`AskersAreHeard`); while somebody holds a join code one camera is left in the end (`SettlesOnOneCamera`), and a sign-out reaches every page that had joined (`SignedOutStops`). A visitor's time is counted in one session (`CountedOnce`) and the zone's open session is its current one (`OneSession`). |
| `automation` | two people, two calls that overlap, one failure, one death, once nothing to send to | An automation rule implements `AtMostOnce` with returns (`ReachesEachOnce`) and leaves nobody out (`NobodyLeftOut`). |
| `bulk_send` | two people, one of them listed on both pages, in-app and e-mail. *overlap*: two workers, one administrator, three controls, one death. *in turn*: one worker, an end time, three controls, two deaths | The sends implement `AtMostOnce` (`KeepsToOnce`); what is recorded and counted is what happened (`RecordIsHonest`). In turn, a send that ran to its end has an answer for everyone on every channel (`NobodyForgottenInTurn`), a cancel stands (`CancelStandsInTurn`), a confirmed send is worked on until it is over (`WorkGoesOnInTurn`). |
| `ring_overlap` | two rounds at once, two attempts, one Ring again. *people*: two, one invited half-way. *answers*: one person, three answers, declines or joins, one round cut short | The calling of whoever can still be called goes on (`CallingGoesOn`), and who answers, declines or comes while no round is about to call them is not rung after it (`LeftAlone`). |
| `ring_serial` | two people, one in another meeting, the other added half-way; one round or answer at a time, one answer, one round cut short | Nobody is rung or messaged more than the group allows (`WithinMeasure`), and everyone called is called to the end (`CalledToTheEnd`). |
| `records` | *address*: four operations, four meetings, two slugs, two at once. *devices*: three sessions of an account, two changes, one list refused or one handler stopped. *one call*: two people, one call at a time, three failures, the second raises the alert. *refund*: four refunds of a sale of 3, one death, one error. *meeting*: one request at a time, two sessions, calls lost | An address goes on opening its meeting (`AddressKept`); the last to sign in stays and is the only one (`NewestStaysIn`, `OneDevice`); a rule's good run clears its alert (`GoodRunClears`); a sale's record and Stripe's come to agree (`RecordSettles`). A meeting ended on purpose stays ended, whatever LiveKit says late, out of order or not at all (`EndedOnPurposeStays`); one whose room is gone for good is closed (`StaleMeetingCloses`). |
| `one_session` | two requests, reads of the pointer at any time | A violation: two first events of a zone open two sessions, which `attendance.ts:175-177` says they do not. |
| `slow_refund` | two requests for one sale, no deaths, no errors, a refund that takes longer than its lock's minute | A violation: one of Stripe's refunds is entered twice, where `refunds.ts:95-97` says one at a time. |

Every property of a passing run has a mutant: a slip in one definition with which TLC
finds the property violated.

**Bounds.** Two requests (workers, rounds, ticks) are what a lost update takes: one that
reads and one that writes in between; a third adds no new pair of steps. Three devices and
three sessions are what "the newest of those left" and "taken over from one who took over"
take. Two people, or two pages, tell "this one" from "the others". Times have as many
values as the code compares. The counters of deaths, failures, losses and controls are
what keeps each run finite; with the values given every mutated form is told from the code,
and each run ends within minutes.

**Restrictions.** A run in which `Apart` holds, `Overlap` is FALSE or requests come one at
a time shows that the protocol is right by itself, and the next section what overlapping
requests cost. Each restriction is a named constant; a theorem that needs one names it as
a hypothesis (see "Proofs"), and no other theorem assumes any.

### What the code does not keep, and the runs therefore leave out

Where constants are named, a run given them shows the behaviour; the others follow from
reading the lines named, or are what a property's own exception speaks of.

Meetings:

- `EndedOnPurposeStays` with two requests: the whole-record write of `room_started`
  (`webhook/route.ts:299`) puts a live meeting over a host's End that came between its read
  and its write, where `meetingLifecycle.ts:83` says "One ended on purpose stays ended".
  `AlwaysOpenStaysOpen` with two requests from an ended record: an edit that
  read "ended" writes it back after the reopening. (A room not found ended never ends with
  any number of requests; that is proved.)
- End asks no state: an archived meeting becomes ended and can then be started.
- A room_finished received after the next session's room_started ends a meeting with people
  in it (`webhook/route.ts:256`): the call's own time is not compared. It also takes the
  admissions of people who are in the next session (below).
- The sweep's grace counts from `startedAt`, which a look at the room may have set and a
  restart keeps (`start/route.ts:55`), so a meeting started just now can be swept.
- `SlugIndex` with `Apart = FALSE`: two creates of one slug both succeed and the second
  has the address, though `events/create/route.ts:101-102` takes a slug that opens
  nothing for free; create and rename
  meet an adoption likewise; an edit that read before a delete stores the meeting again,
  in no index; the second of two deletes releases the address an adoption has claimed in
  between. A delete or restore that dies leaves addresses that open nothing.

Waiting room:

- `AnswersStand` with `Serial = FALSE`: a knock after a spent refusal replaces the entry
  whatever it has become (`api/waiting-room/route.ts:242`), so a host's Admit in between is
  undone. `lib/waitingRoom.ts:32-34` gives this race as the reason knock times are kept
  apart. With `"enqueue"` in `Ops`, PUT replaces a refused entry within its minute
  (`events/[id]/waiting/route.ts:75`).
- `AnswersStand` with somebody in `Invited`: the next knock of a person the group invites
  admits them whatever a host has just answered (`api/waiting-room/route.ts:198-205`), so a
  refusal of theirs does not stand. `AnswersKept` speaks of everybody else.
- `AdmissionEnds` with `Serial = FALSE`: a handler that read the record before the room's
  end was handled writes last session's admissions back, where `lib/waitingRoom.ts:13-14` says
  an admission lasts for one session.
- `NotSentBack`, also in turn: room_finished of one session, handled when the room is open
  again or a host has admitted somebody for the next, clears what was given for that one
  (`webhook/route.ts:208-213`). Whoever then drops out waits again, which `lib/waitingRoom.ts:13-15`
  says a dropped connection does not do.
- A token without an admission, as said above: the route's own comment
  (`token/route.ts:147`) prefers that to turning people away.

Job queue:

- `RunOnce` and `QueuedIsWhole` with `Apart = FALSE`: a job moved between a claim's remove
  and its read (`scheduler.ts:196-198`) is run by two ticks, or loses its new blob.
  `scheduler.ts:18-19` says that "overlapping ticks never run a job twice".
- `CancelDropsAll` with `MaxStops` above 0: a schedule stopped between `ZADD` and `SADD`
  (`:106-107`) leaves a job that the meeting's index does not name. It is pending, and a cancel
  that runs through leaves it (`:138-141`), though it says it drops every pending job (`:127`).
  This is the job that `QueuedIsWhole` excepts.
- `ThereWhenDue` with `MaxAhead` above `BlobTTL`: a blob lives seven days (`:45, 105`). A
  series has meetings up to ninety days ahead (`groupMeetings.ts:114, 370`), whose jobs are
  queued once, when they are made (`:741`), or when they are changed (`:920`). What falls due
  after the blob has gone is dropped by the claim: no reminder and no ring. `QueuedIsWhole`
  is of what is left when that has happened; it says that nothing but its TTL takes a blob.
- A tick that outlives its lock deletes the next tick's (`scheduler.ts:222`), so "one tick
  at a time" is not a property of the queue. `RunOnce` does not need it.

Ring engine:

- `AnswerStopsRings` with `Overlap`: a round reads every record at once (`ringEngine.ts:240`)
  and rings one person after another. A decline or an answer written after that read and
  before its turn does not stop the ring, and is overwritten by "ringing" (`:321`), so that the
  next rounds ring too, where `:404-406` says a decline ends their rings. `LeftAlone` is what
  is left of that with everything overlapping: an answer that no such round has missed stands.
- Overlapping rounds send the fallback message twice, and ring once more than allowed.
- A round cut short has rung without writing so, rings once more (`failures` in
  `WithinMeasure`), and, having been claimed, is not tried again: the calling stops.

Bulk sends:

- `CancelStands` with `Overlap`: a cancel or pause between the two calls of `saveProgress`
  (`sends.ts:338`) is undone, where `:336` says it is not; a control that read before a worker's save takes the send
  back to where it was. A resume that meets a worker's leaving of the active set leaves the
  send "sending" with nobody to work on it.
- `NobodyForgotten` with `ListingDies`: people are marked as seen before their chunk is
  written, so those of a page that a worker died on are in no chunk. After a pause, the
  channels of the current chunk that had not begun are passed over.
- `KeepsToOnce` with `SlowWorkers`: the lease is not extended (`sends.ts:528`); two
  listings that overlap put a person in two chunks, whose claims are apart, and they are
  sent to twice, where `sends.ts:18-22` says "At most once, never twice".

Automation:

- A run killed between claiming somebody and acting has claimed them for good
  (`NobodyLeftOut` excepts them). An action that throws after it has sent is repeated.
- `GoodRunClears` with `Overlap`: run, "locked", pause and reschedule each write the whole
  state as they read it, so a failed run that read before a good one saved marks the rule
  failing after it, where `runner.ts:16-18` says a good run clears both. A death between the alert and the state leaves the alert open.
- `Takeover`: a tick that read the rule as active sets the key again after a pause deleted
  it, and the cron stands down that day: a day's run is missed.

Codes, devices, refunds, partners:

- Leaving releases the code whoever holds it by then (`participantCodes.ts:527`), so a page
  that was taken over frees it under the new holder, and a third person can then go live beside
  them, which `:9-11` says the claim is there to prevent. A join in flight when the code is
  signed out stays.
- `DeviceSessions` with `Ties = TRUE`: two sessions of the same millisecond sign each other
  out. `SignInEndsOthers`: a first request that stops after its claim (`deviceSessions.ts:258`),
  or finds KV failing there, leaves the claim; it is let through (`:242-244`), every later one
  finds the record, and the older device stays in, though `:276-277` takes the claim back for
  that reason when Clerk fails. A list that Clerk does not give leaves both in, and one read after it gives a
  revoked session's record back (`deviceSessions.ts:280`).
- `Refunds` with `Apart = FALSE`: a webhook between Stripe's answer and the save puts the
  refund on the sale twice; events out of order store the older amount.
- `EnteredOnce` with `Slow`: the run `slow_refund`. The lock lasts a minute (`refunds.ts:97`), the
  call to Stripe has no limit (`stripe.ts:172`), and whoever ends first deletes the other's lock.
- `PrayerSessions` with `Apart = FALSE`: `one_session`; and a late room_finished closes the
  session of people who are in it.

## Proofs

| module | theorem | says | provided |
|---|---|---|---|
| `MeetingRecord_proofs` | `TypeCorrect` | type correctness | |
| | `AlwaysCoherent` | a live meeting has a start and no end, an ended one says how it ended | |
| | `LookingInNeverHurts` | before the early window, with nobody pressing Start or End, nothing moves a scheduled meeting | |
| | `AlwaysOpenNeverEnds` | a permanent room never becomes an ended meeting | `InitState # "ended"` |
| | `HostsEndStays` | one ended by its host stays so until somebody starts or archives it (`EndedOnPurposeStays`) | `OneRequest` |
| `WaitingRoom_proofs` | `TypeCorrect` | type correctness | |
| | `HostsAdmit` | an admitted person was let in by a host, by the group's invitation, or while the waiting room was off | |
| | `AdmissionsEnd` | an admission lasts for one session (`AdmissionEnds`) | `Serial` |
| | `AnswersKept` | what a host answered stands, for whoever is not invited | `Serial`, no PUT |
| | `HostsAnswersStand` | so it stands for all where nobody is (`AnswersStand`) | the same, `Invited = {}` |
| `JobQueue_proofs` | `TypeCorrect` | type correctness | |
| | `RunsOnce` | no job runs twice | `Apart` |
| | `QueuedAreWhole` | what is queued has a blob that only its TTL takes and, unless its schedule was cut short, with its time and an entry in its meeting's index that lives as long (`QueuedIsWhole`) | `Apart` |
| `RingEngine_proofs` | `TypeCorrect` | type correctness | |
| | `CallingContinues` | the calling of whoever can be called goes on (`CallingGoesOn`) | |
| | `Measured` | nobody is rung or messaged more than the group allows (`WithinMeasure`) | `~Overlap` |
| | `AreLeftAlone` | nor, with everything overlapping, after they settled it while no round was about to call them (`LeftAlone`) | |
| `BulkSend_proofs` | `TypeCorrect` | type correctness | |
| | `LeaseExcludes` | one worker at a time | `~SlowWorkers` |
| | `AlwaysHonest` | what is recorded and counted happened (`RecordIsHonest`) | `~SlowWorkers` |
| | `NeverTwice` | sends implement `AtMostOnce` (`KeepsToOnce`) | `~SlowWorkers` |
| | `CancelIsFinal` | a cancel stands (`CancelStands`) | `~Overlap` |
| | `ForgetsNobody` | a send that ran to its end has an answer for everyone (`NobodyForgotten`) | `~SlowWorkers`, `~Overlap`, `~ListingDies` |
| `Automation_proofs` | `TypeCorrect` | type correctness | |
| | `EachOnce` | a rule implements `AtMostOnce` with returns (`ReachesEachOnce`) | |
| | `GoodRunsClear` | a good run clears the failing mark and the alert (`GoodRunClears`) | `~Overlap` |
| `Entry_proofs` | `PrayerTypeCorrect`, `EntryTypesCorrect` | type correctness, of partner attendance and of the four protocols of `Entry` | |
| | `CountsOnce` | a connection is recorded in one session (`CountedOnce`) | |
| | `OpenIsCurrent` | an open session is the zone's current one (`OneSession`) | `Apart` |
| | `EntryAdmissionsEnd` | `AdmissionEnds`, in `Entry` | |
| | `EntryAnswersStand` | `AnswersStand`, in `Entry` | no PUT, `Invited = {}` |
| | `EntryCountsOnce`, `EntryOpenIsCurrent` | the two above, in `Entry` | none; `Apart` |
| `Records_proofs` | `SessionsTypeCorrect`, `AddressTypeCorrect`, `RefundTypeCorrect` | type correctness, of each alone | the last: `Apart`, `~Slow` |
| | `TypesCorrect` | type correctness of the five protocols of `Records` | `Apart`, `~Slow` |
| | `LastStaysIn` | the last to sign in is not signed out by the rule (`NewestStaysIn`) | |
| | `OneIsLeft` | one device is left (`OneDevice`) | |
| | `AddressIsKept` | an address that opens a meeting goes on opening it while the meeting has it (`AddressKept`) | `Apart` |
| | `RefundsSettle` | a sale of whose refunds Stripe has been heard has their sum (`RecordSettles`) | `Apart`, `~Slow` |
| | `AddressesAreKept`, `RecordsSettle` | the two above, in `Records` | `Apart`, and the second `~Slow` |
| | `GoodRunsClear` | `GoodRunClears`, in `Records` | `~Overlap` |
| | `HostsEndIsKept` | `EndedOnPurposeStays`, in `Records` | one handler |
| | `RecordsLastStaysIn`, `RecordsOneIsLeft` | the two about devices, in `Records` | |

They hold for every set of people, requests, ticks, workers, sessions and jobs, all times
and all bounds, crashes and lost calls included, under the hypotheses of the last column
and what the modules assume of their constants. `MeetingRecord`, `WaitingRoom`,
`JobQueue`, `RingEngine` and `BulkSend` name those assumptions in an ASSUME, which TLC
evaluates in the runs that extend the module. The protocols that are also instantiated
beside others have their assumptions in the proof modules, each under a name: `Instance` in
`Automation_proofs`; `PrayerInstance`, `WaitingInstance` and `HeardInstance` in
`Entry_proofs`; `SessionsInstance`, `AddressInstance`, `RefundInstance`, `RuleInstance` and
`MeetingInstance` in `Records_proofs`. They say that bounds are numbers, that names such as
"none" are nobody's, that a zone has a connection to speak of, that an account has finitely
many sessions, that there is a meeting besides the leftover one, and, of the waiting room
and the meeting's record, what these modules' own ASSUME says.

**The hypotheses.** Each is true of some run, and of each "What the code does not keep"
says what happens without it. `Apart`, `Overlap`, `Serial` and `OneRequest` are about whose
requests come between whose calls, `SlowWorkers` and `ListingDies` about how slow a worker
is and where it dies, `Slow` about a refund that outlives its lock's minute. `OneRequest` says that `Requests` has one element at most, as in
`records`. What LiveKit, Clerk and the clients do is restricted by none, nor is
what Stripe answers, but for how long it takes.

**Meeting record.** `Coherent` alone is not inductive: a stale copy held by some request
is written back whole, so the invariant speaks of every copy in flight
(`CopiesMakeSense`). `LookingInIsHarmless` likewise needs that no copy in flight says
otherwise, that the `now` a webhook took is not in the future, and that neither webhook
nor sweep has decided to move the meeting (`NothingMovesItEarly`). `AlwaysOpenNeverEnds`
needs that no copy says "ended" and that no End, sweep or room_finished ever gets as far
as its update (`NothingEndsIt`). With one request, a copy about to be written is the
record, and what a webhook or a sweep was decided on is still so (`AllCurrent`); a
room that is always open was never ended by a host, so that a join, which reopens such a
room, does not undo an End. Type correctness (`IndTypeOK`) is carried through first, with
the fact that a request in an update has a kind.

**Waiting room.** `AllVetted` says of the stored queue and of every copy in flight that
who is admitted in it is in `letIn`. Each patch keeps that, because it admits only the
person it is about and the same step notes them in `letIn`. With requests in turn
(`InTurn`), a copy about to be written is the record itself, so a patch changes the entry
of the person it is about and no other (`PatchedTakes`), and a knock that makes a new
request finds no answer to replace.

**Job queue.** `RunOnce` rests on three more facts. `Separate`: with `Apart`, no caller
is at work while a tick claims. `Exclusive`: an id that a tick has removed and not let
go of is in no other tick's hands and not in the sorted set, since the remove answers
only one of them. `OnlyOnce`: blob numbers are unique among the stored blobs, what is
being read, what has been claimed and what has been run. `Exclusive` is where the lock
might have been expected; the proof does not use it. `QueuedIsWhole` is not inductive
either: a caller breaks it between its calls, and one that is stopped leaves it so. `Kept`
says that every queued job has a blob (`HasBlob`), what the blob says (`AllTimed`) and that
the index names it (`AllNamed`) unless it is in a caller's hands, `loose` or expired, and
what the caller under way has to go by at each of its calls (`InHand`). The index lives as
long as any blob it names, because no blob lives longer than `BlobTTL` from now (`Bounded`)
and the index is given that time after each addition. A claim removes the id first, so what
it deletes afterwards belongs, by `Exclusive`, to nothing queued.

**Ring engine.** `CallingGoesOn` needs that whoever a round holds is invited, that
whoever answers settles their call, and that nobody has a call before they are invited
(`Ours`). `InStep`, for rounds and answers in turn, says that a round holds the calls as they
stand and writes for nobody who has settled theirs, and that each person's rings and
messages are within what their record says, or within what the record about to be written
will say, and once more for each round cut short. `LeftAlone` needs no turns. `Stood` says
that whose call stands is settled, and that no round holds them: each step either makes a
round hold nobody new of them, as it reads records that are settled, or is Ring again, after
which their call stands no more; and only who is held is rung (`RingStep`).

**Bulk sends.** `Sound` is behind honesty and `AtMostOnce`: whoever is at work holds
the lease; a person is in one chunk at most, the one that every claim on them names;
whoever is about to be sent to is claimed and has not been reached; and what any copy of
the statuses or counts says is so, the worker's in memory included. The counts are bounded
by how many pairs have a status, which takes the cardinality lemmas. `Turns` says that
the one control under way has the send as it stands, and that a save holds the status it
has read. `ForgetsNobody` needs a third, `Kept`: the pages behind the cursor are in chunks,
the chunks behind the next one are answered for unless the send was stopped, and the
worker in the send is about to save both, from what the send had and what the worker has
done since. The refinement maps a claim to *take*, a delivery that reaches somebody to
*give*, and every other step to a stutter.

**Automation.** `Sound`: who acts on a subject, or hands its claim back, has that claim
and nobody has acted under it; who has been acted on stays claimed. With it each claim is *take*, each
action that succeeds *give*, each return of a claim *hand back*. `InTurn`, for
`GoodRunsClear`, says what the one call in flight knows, of the mark, the alert and the
last run, at each of its calls (`Knows`), and what holds when none is (`AtRest`).

**Device sessions.** `Sound`: a first request signs out only sessions created no
later than its own (`Behind`), so who is signed out was so by the person or by one created
no earlier (`Reasons`). `Settled`, for `OneDevice`: of two that may both be let in, at
least one after the rule, something is still to sign one of them out (`Pending`, `Chosen`),
unless several are allowed or Clerk once did not say who is signed in. Both hold with
`Ties` or without; with it two of the same millisecond may sign each other out, and
"the last" is then nobody.

**Partner attendance.** `Kept`: what a call is about to record is where the connection
belongs, and that never changes. It needs no turns, and so `CountsOnce` holds where
`OneSession` fails. `Single`, with the pointer's reads apart, says that who has read the
pointer found nothing or a session that is written, that it is moved only off an ended one,
and that one call at most writes what it names.

**Addresses.** `AddressKept` compares two states, and what it compares has no invariant of
its own: that the index, the records and the trash agree is broken by every operation
between its calls. `AddressSound` speaks of the operations instead. `Turns`: those at work
are about different meetings and of kinds that may meet, which is what `Apart` says of
each as it begins. `AddressAllFit`: what each has looked at is still so: what a create found
free opens no other meeting, what a rename is about to take nobody else has, the meeting being
edited is there and the one being deleted is not, and the entry a delete is about to
release is its own. The last is what a deletion's look at each slug is for. Each step then keeps
every address that its meeting keeps.

**Refunds.** `RefundSound` has four parts. `RefundTypes`, which bounds what was returned by the
price. `RefundAllFit`: who is past the lock holds it alone, the copy is the sale, and
the refund about to be entered is not on it. `Listed`: each refund is on the sale once at
most; and a refund's key, which is made of how many entries the sale had, is of a time when
it had fewer, if the refund is on it. That is why a new refund is never answered with an old
one, and the same one made again always is. `Mirrors`: the webhook's copy is the sale while
it works. The amounts are sums over sequences (`SumUpTo`, a recursive function), of which
the proofs need that they grow, what one more refund adds, and that equal parts have equal
sums.

**Compositions.** `EntryImplements` and `RecordsImplements` say that a behaviour of the
composition is one of each protocol's own specification, as each step of another stutters
there. `WaitProofs`, `HeardProofs`, `RuleProofs` and `MeetingProofs` are instances of the
modules that hold the proofs, and what a proof is about is then another instance of the same
module than the one checked: a lemma per protocol shows action by action that the two are
the same (`RuleSteps`, for one). With both, what is proved of a protocol holds in the
composition, under the names the runs check.

**Only model-checked.** All liveness, which needs fairness and ENABLED: `StaleMeetingCloses`,
`DueIsTaken`, `AskersAreHeard`, `SettlesOnOneCamera`, `SignedOutStops`, `WorkGoesOnInTurn`,
`CalledToTheEnd`, `NobodyLeftOut` and `NeverLeftWithNobody`. Every safety property that a
passing run checks is a theorem, or has one about the module of which the run checks an
instance (`ForgetsNobody`, `CancelIsFinal`), but for `ReopenedStaysOpen`, of
rooms found ended. `Takeover` has no theorem, and of `JoinCodes` only the types
are proved: what is claimed of them is liveness. The theorem `EntryAnswersStand` is about
people whom nobody invites, as the run is; `AnswersKept` says what holds of the others.

No module has RECURSIVE operators. The library's induction theorems take an operator as a
parameter, which the provers cannot instantiate; the sums need induction only over the
numbers, and `SetInduction` states it for sets: what contains 0 and every successor of what
is in it contains every number. It follows from the pigeonhole principle for intervals. What
a computation over other data of unbounded length returns would stay with TLC.

## Not modelled, and why

`PROJECT.json` gives the status of every part. In short: group meetings' editing and the
bookkeeping of series, groups and roles (single-field writes guarded by reads) are not
modelled yet; plans and billing share half of their protocol with the payment providers;
recording's quota is one set-if-absent before a counter (the usage is noted as counted
before it is added, so a request stopped in between loses it). The clients, media,
streaming workers, reports, exports and the administrator's forms, which are most of the
repository's lines, either keep no shared state or make single writes; nothing in them is
a state machine that a model would say more about than the code. LiveKit, Stripe, Clerk and
the message providers are external: they are modelled, where they are, by what the code
relies on.

KV being unreachable is, for most handlers, a request that stops where it is. Two let the
request through instead, and the models have it: the token route's gate (`GetTokenUnasked`)
and the check of a session's first request (`CheckStops`). Stops between two calls are
actions in `JobQueue`, of ticks and of routes, `BulkSend` (its workers), `RingEngine`,
`Automation`, `Refunds`, `SlugIndex` and `DeviceSessions`; in `MeetingRecord` and `WaitingRoom` an update is one write, so a handler that dies before it
has changed nothing, and one that dies after it has only its follow-up steps left
(`DeleteRoom`, which may fail, and `NoteKnockFails`). `JoinCodes`, `PrayerSessions` and
`Takeover` have no such action: there a handler that stops is one that takes no further step
and keeps its place among the requests at work, which the safety properties allow for and the
liveness properties, by their fairness, do not.

Left out of modelled parts, besides what each module's header names: the token route's
other gates (wait for host, the cap, which is counted before the token is given, the lock);
delivery reports of bulk sends, which arrive later and are dropped when their chunk is not
there; what a server remembers of a device for ten seconds; that a ring job claimed after
the meeting was moved does not look at the new time.

## Plan

1. `GroupMeetings` edit and cancel with `JobQueue`: no jobs of a cancelled meeting are
   left to ring (an edit of a meeting that is being cancelled schedules after the cancel
   has removed).
2. The token route's other gates, composed with `WaitingRoom`.
3. `decideSweep` over lists of meetings, and the recurrence rules of group meetings, as
   operators checked against a reference definition.
