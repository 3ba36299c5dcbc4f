------------------------------ MODULE BulkSend ------------------------------
(***************************************************************************)
(* lib/comms/sends.ts: one announcement, from its confirmation to its end. *)
(* The send is one JSON record, saved whole; its recipients are listed a   *)
(* page at a time into chunks, and delivered chunk by chunk on each        *)
(* channel, by whichever worker (the scheduler's tick, a cron, the admin's *)
(* page) holds the lease.  Before anything goes to a person on a channel,  *)
(* that pair is claimed in the chunk's claim hash.                         *)
(* A call that fails is one that sent nothing.  Left out: a start time,    *)
(* the discarding of drafts, the delivery reports that come later.         *)
(***************************************************************************)
EXTENDS Integers, FiniteSets, Sequences

CONSTANTS
  People,
  Pages,        \* the audience as it is listed, page by page
  On,           \* the send's channels, in the order they are delivered
  ChunkSize,    \* CHUNK
  Unsure,       \* who, on which channel, may opt out or fail to be reached
  Workers,      \* workers that may be running at once
  Admins,       \* requests that confirm, pause, resume and cancel
  Actions,      \* which of them
  HasEnd,       \* whether the send has an end time
  MaxChunks,    \* bound: how many chunks can be written
  MaxControls,  \* bound: how many controls begin
  MaxDeaths,    \* bound: how many workers are stopped
  ListingDies,  \* whether a worker can be stopped while it lists people
  SlowWorkers,  \* whether a worker can outlive its lease
  Overlap       \* whether a control can come between a save's two calls

ASSUME SendAssumption ==
  /\ IsFiniteSet(People)
  /\ Pages \in Seq(SUBSET People)
  /\ On \in Seq({"inApp", "push", "email"})
  /\ Unsure \subseteq People \X {"inApp", "push", "email"}
  /\ ChunkSize \in Nat \ {0} /\ MaxChunks \in Nat
  /\ MaxControls \in Nat /\ MaxDeaths \in Nat
  /\ Actions \subseteq {"confirm", "pause", "resume", "cancel"}
  /\ {HasEnd, ListingDies, SlowWorkers, Overlap} \subseteq BOOLEAN
  /\ "free" \notin Workers /\ "left" \notin Workers

VARIABLES
  send,     \* the stored record
  chunk,    \* the chunks of recipients
  st,       \* the status hashes: what became of each person on each channel
  claims,   \* the claim hashes
  seen,     \* who has been given a chunk
  active,   \* whether the send is in the set of those with work left
  lease,    \* who holds it; "left" by a worker that was stopped
  over,     \* whether the end time has passed
  worker,   \* each worker: where it is and what it holds
  admin,    \* each control in flight
  controls, deaths,  \* the bounds' counters
  given,    \* history: how often each person was reached on each channel
  paused    \* history: whether the send was ever paused

vars == <<send, chunk, st, claims, seen, active, lease, over, worker, admin,
          controls, deaths, given, paused>>

Channels == {On[i] : i \in DOMAIN On}
Slots == 0 .. MaxChunks - 1
Pairs == People \X Channels
Keys == Slots \X Pairs
States == {"none", "sent", "failed", "skipped", "unknown"}
Statuses == {"draft", "queued", "sending", "paused", "cancelled", "done"}
Audience == UNION {Pages[i] : i \in DOMAIN Pages}

\* resolve.cursor counts pages here; counts has the sum of a channel's buckets.
Sends == [status : Statuses, cut : BOOLEAN, chunks : Nat, nextChunk : Nat,
          cursor : Nat, listed : BOOLEAN, counts : [Channels -> Nat]]
Draft == [status |-> "draft", cut |-> FALSE, chunks |-> 0, nextChunk |-> 0,
          cursor |-> 0, listed |-> FALSE, counts |-> [ch \in Channels |-> 0]]

Running(status) == status \in {"queued", "sending"}

WorkerPcs == {"idle", "read", "srem", "load", "gate", "hset", "list", "sismember",
              "sadd", "chunk", "save", "write", "end"}
NoStates == [x \in Pairs |-> "none"]
Listing == {"list", "sismember", "sadd", "chunk"}
IdleWorker == [pc |-> "idle", s |-> Draft, did |-> FALSE, list |-> {}, mine |-> NoStates,
               changed |-> {}, ch |-> 0, todo |-> {}, go |-> {}, fresh |-> {},
               after |-> "read", cur |-> "draft"]
IdleAdmin == [pc |-> "idle", s |-> Draft]

Init ==
  /\ send = Draft
  /\ chunk = [n \in Slots |-> {}]
  /\ st = [k \in Keys |-> "none"]
  /\ claims = {}
  /\ seen = {}
  /\ active = FALSE
  /\ lease = "free"
  /\ over = FALSE
  /\ worker = [w \in Workers |-> IdleWorker]
  /\ admin = [a \in Admins |-> IdleAdmin]
  /\ controls = 0
  /\ deaths = 0
  /\ given = [x \in Pairs |-> 0]
  /\ paused = FALSE

Goes(w, next) == worker' = [worker EXCEPT ![w] = next]
AdminGoes(a, next) == admin' = [admin EXCEPT ![a] = next]

\* The end time passes.
EndsAt ==
  /\ HasEnd /\ ~over
  /\ over' = TRUE
  /\ UNCHANGED <<send, chunk, st, claims, seen, active, lease, worker, admin,
                 controls, deaths, given, paused>>

----------------------------------------------------------------------------
(* Confirming, and controlSend: read, write whole, and then the active set. *)

Controlling == \E a \in Admins : admin[a].pc # "idle"
Saving == \E w \in Workers : worker[w].pc \in {"write", "srem"}

\* What each control makes of the send; nothing, when it does not apply.
Applies(action, s) ==
  \/ action = "confirm" /\ s.status = "draft"
  \/ action = "pause" /\ Running(s.status)
  \/ action = "resume" /\ s.status = "paused"
  \/ action = "cancel" /\ s.status \in {"queued", "sending", "paused"}

Controlled(action, s) ==
  [s EXCEPT !.status = CASE action = "confirm" -> "queued"
                         [] action = "pause" -> "paused"
                         [] action = "cancel" -> "cancelled"
                         [] OTHER -> IF s.nextChunk > 0 \/ s.chunks > 0
                                     THEN "sending" ELSE "queued"]

BeginControl(a) ==
  \E action \in Actions :
    /\ admin[a].pc = "idle" /\ controls < MaxControls
    /\ Overlap \/ ~(Saving \/ Controlling)
    /\ Applies(action, send)
    /\ controls' = controls + 1
    /\ AdminGoes(a, [pc |-> "write", s |-> Controlled(action, send)])
    /\ UNCHANGED <<send, chunk, st, claims, seen, active, lease, over, worker,
                   deaths, given, paused>>

ControlWrite(a) ==
  /\ admin[a].pc = "write"
  /\ send' = admin[a].s
  /\ paused' = (paused \/ admin[a].s.status = "paused")
  /\ AdminGoes(a, [admin[a] EXCEPT !.pc = "active"])
  /\ UNCHANGED <<chunk, st, claims, seen, active, lease, over, worker, controls,
                 deaths, given>>

\* Mutant: a control leaves the active set as it is.
ActiveUntouched(a) == active

ActiveAfter(a) == Running(admin[a].s.status)

ControlActive(a) ==
  /\ admin[a].pc = "active"
  /\ active' = ActiveAfter(a)
  /\ AdminGoes(a, IdleAdmin)
  /\ UNCHANGED <<send, chunk, st, claims, seen, lease, over, worker, controls,
                 deaths, given, paused>>

----------------------------------------------------------------------------
(* processSend: the lease, and the loop.                                   *)

\* SET NX EX.  A worker that does not get it does nothing.
Start(w) ==
  /\ worker[w].pc = "idle" /\ lease = "free"
  /\ lease' = w
  /\ Goes(w, [IdleWorker EXCEPT !.pc = "read"])
  /\ UNCHANGED <<send, chunk, st, claims, seen, active, over, admin, controls,
                 deaths, given, paused>>

\* The tick and the cron work on what is active, the admin's page on
\* whatever has been confirmed.
StartFromTick(w) == active /\ Start(w)
StartFromPage(w) == send.status # "draft" /\ Start(w)

SaveThen(me, s, after) == [me EXCEPT !.pc = "save", !.s = s, !.after = after]

\* The top of the loop: read the send and see what is next.
ReadStopped(w) ==
  /\ worker[w].pc = "read" /\ ~Running(send.status)
  /\ Overlap \/ ~Controlling
  /\ Goes(w, [worker[w] EXCEPT !.pc = "srem"])
  /\ UNCHANGED <<send, chunk, st, claims, seen, active, lease, over, admin,
                 controls, deaths, given, paused>>

ReadOver(w) ==
  /\ worker[w].pc = "read" /\ Running(send.status) /\ over
  /\ Goes(w, SaveThen(worker[w], [send EXCEPT !.status = "done", !.cut = TRUE], "srem"))
  /\ UNCHANGED <<send, chunk, st, claims, seen, active, lease, over, admin,
                 controls, deaths, given, paused>>

\* The time or the steps this call was given are used up: not before one.
ReadSpent(w) ==
  /\ worker[w].pc = "read" /\ Running(send.status) /\ ~over /\ worker[w].did
  /\ Goes(w, [worker[w] EXCEPT !.pc = "end"])
  /\ UNCHANGED <<send, chunk, st, claims, seen, active, lease, over, admin,
                 controls, deaths, given, paused>>

ReadWork(w) ==
  LET s == [send EXCEPT !.status = "sending"]
      me == [worker[w] EXCEPT !.s = s, !.did = TRUE]
  IN /\ worker[w].pc = "read" /\ Running(send.status) /\ ~over
     /\ Goes(w, IF s.nextChunk < s.chunks THEN [me EXCEPT !.pc = "load"]
                ELSE IF ~s.listed THEN [me EXCEPT !.pc = "list"]
                ELSE SaveThen(me, [s EXCEPT !.status = "done"], "done"))
     /\ UNCHANGED <<send, chunk, st, claims, seen, active, lease, over, admin,
                    controls, deaths, given, paused>>

\* saveProgress: read the status, write everything.
SaveRead(w) ==
  /\ worker[w].pc = "save"
  /\ Overlap \/ ~Controlling
  /\ Goes(w, [worker[w] EXCEPT !.cur = send.status, !.pc = "write"])
  /\ UNCHANGED <<send, chunk, st, claims, seen, active, lease, over, admin,
                 controls, deaths, given, paused>>

\* Mutant: the worker's own status, whatever was read.
MergedBlindly(me) == me.s

Merged(me) ==
  IF me.cur \in {"paused", "cancelled"} THEN [me.s EXCEPT !.status = me.cur, !.cut = FALSE] ELSE me.s

\* What follows: the next turn of the loop, the end, or the active set
\* (after the last chunk only when the send is done indeed).
AfterSave(me) ==
  IF me.after = "done" THEN IF Merged(me).status = "done" THEN "srem" ELSE "end" ELSE me.after

SaveWrite(w) ==
  /\ worker[w].pc = "write"
  /\ send' = Merged(worker[w])
  /\ Goes(w, [IdleWorker EXCEPT !.pc = AfterSave(worker[w]), !.did = TRUE])
  /\ UNCHANGED <<chunk, st, claims, seen, active, lease, over, admin, controls,
                 deaths, given, paused>>

Srem(w) ==
  /\ worker[w].pc = "srem"
  /\ active' = FALSE
  /\ Goes(w, [worker[w] EXCEPT !.pc = "end"])
  /\ UNCHANGED <<send, chunk, st, claims, seen, lease, over, admin, controls,
                 deaths, given, paused>>

\* The lease is given back by whoever still holds it.
End(w) ==
  /\ worker[w].pc = "end"
  /\ lease' = IF lease = w THEN "free" ELSE lease
  /\ Goes(w, IdleWorker)
  /\ UNCHANGED <<send, chunk, st, claims, seen, active, over, admin, controls,
                 deaths, given, paused>>

----------------------------------------------------------------------------
(* resolveMore: a page of people, each asked for and noted by two calls,   *)
(* and those not seen before written as chunks.                            *)

ListPage(w) ==
  /\ worker[w].pc = "list" /\ worker[w].s.cursor + 1 \in DOMAIN Pages
  /\ Goes(w, [worker[w] EXCEPT !.pc = "sismember", !.todo = Pages[worker[w].s.cursor + 1]])
  /\ UNCHANGED <<send, chunk, st, claims, seen, active, lease, over, admin,
                 controls, deaths, given, paused>>

\* A call of it fails: what has been written of the page is saved, with why.
ListingFails(w) ==
  /\ worker[w].pc = "list" \/ (ListingDies /\ worker[w].pc \in Listing)
  /\ Goes(w, SaveThen(worker[w], worker[w].s, "end"))
  /\ UNCHANGED <<send, chunk, st, claims, seen, active, lease, over, admin,
                 controls, deaths, given, paused>>

\* Who is next is left open; `go` holds the one between the two calls.
IsFresh(p) == p \notin seen

Sismember(w) ==
  \E p \in worker[w].todo :
    /\ worker[w].pc = "sismember"
    /\ Goes(w, IF IsFresh(p) THEN [worker[w] EXCEPT !.todo = @ \ {p}, !.go = {p}, !.pc = "sadd"]
               ELSE [worker[w] EXCEPT !.todo = @ \ {p}])
    /\ UNCHANGED <<send, chunk, st, claims, seen, active, lease, over, admin,
                   controls, deaths, given, paused>>

Sadd(w) ==
  /\ worker[w].pc = "sadd"
  /\ seen' = seen \cup worker[w].go
  /\ Goes(w, [worker[w] EXCEPT !.fresh = @ \cup worker[w].go, !.go = {}, !.pc = "sismember"])
  /\ UNCHANGED <<send, chunk, st, claims, active, lease, over, admin, controls,
                 deaths, given, paused>>

Listed(w) ==
  /\ worker[w].pc = "sismember" /\ worker[w].todo = {}
  /\ Goes(w, [worker[w] EXCEPT !.pc = "chunk"])
  /\ UNCHANGED <<send, chunk, st, claims, seen, active, lease, over, admin,
                 controls, deaths, given, paused>>

WriteChunk(w) ==
  \E S \in SUBSET worker[w].fresh :
    /\ worker[w].pc = "chunk" /\ S # {} /\ worker[w].s.chunks \in Slots
    /\ \/ Cardinality(S) = ChunkSize
       \/ S = worker[w].fresh /\ Cardinality(S) <= ChunkSize
    /\ chunk' = [chunk EXCEPT ![worker[w].s.chunks] = S]
    /\ Goes(w, [worker[w] EXCEPT !.s.chunks = @ + 1, !.fresh = @ \ S])
    /\ UNCHANGED <<send, st, claims, seen, active, lease, over, admin, controls,
                   deaths, given, paused>>

\* Mutant: the last page is taken for listed.
ListedButOne(cursor) == cursor >= Len(Pages) - 1
ListedAll(cursor) == cursor = Len(Pages)

EndPage(w) ==
  LET s == [worker[w].s EXCEPT !.cursor = @ + 1, !.listed = ListedAll(worker[w].s.cursor + 1)]
  IN /\ worker[w].pc = "chunk" /\ worker[w].fresh = {}
     /\ Goes(w, SaveThen(worker[w], s, "read"))
     /\ UNCHANGED <<send, chunk, st, claims, seen, active, lease, over, admin,
                    controls, deaths, given, paused>>

----------------------------------------------------------------------------
(* deliverChunk.                                                           *)

Channel(me) == On[me.ch]

\* The chunk's people and what has been recorded of them already.
Load(w) ==
  LET n == worker[w].s.nextChunk
  IN /\ worker[w].pc = "load" /\ n \in Slots
     /\ Goes(w, [worker[w] EXCEPT !.list = chunk[n], !.mine = [x \in Pairs |-> st[<<n, x>>]],
                                  !.pc = "gate"])
     /\ UNCHANGED <<send, chunk, st, claims, seen, active, lease, over, admin,
                    controls, deaths, given, paused>>

\* On to the next channel: in-app at once, the others while the send is
\* still running, and the statuses when there is none left.
NextChannel(w) ==
  LET me == worker[w]
      next == me.ch + 1
  IN /\ me.pc = "gate" /\ me.todo = {} /\ me.go = {}
     /\ Goes(w, IF next > Len(On) THEN [me EXCEPT !.pc = "hset"]
                ELSE IF On[next] = "inApp" \/ Running(send.status)
                     THEN [me EXCEPT !.ch = next, !.todo = me.list]
                     ELSE [me EXCEPT !.ch = next])
     /\ UNCHANGED <<send, chunk, st, claims, seen, active, lease, over, admin,
                    controls, deaths, given, paused>>

\* `set`: in memory, counted at once, written with the rest at the end.
Sets(me, S, state) ==
  [me EXCEPT !.mine = [x \in Pairs |-> IF x[1] \in S /\ x[2] = Channel(me) THEN state ELSE @[x]],
             !.changed = @ \cup S,
             !.s.counts[Channel(me)] = @ + Cardinality(S)]

ClaimKey(me, p) == <<me.s.nextChunk, <<p, Channel(me)>>>>

\* Mutant: whoever asks has it.
AlwaysClaimable(me, p) == TRUE
Claimable(me, p) == ClaimKey(me, p) \notin claims

\* gate: already recorded; not wanted (opted out, no address, bounced);
\* claimed by an earlier worker; or this worker's to send.
GateDone(w, p) ==
  /\ worker[w].mine[<<p, Channel(worker[w])>>] # "none"
  /\ Goes(w, [worker[w] EXCEPT !.todo = @ \ {p}])
  /\ UNCHANGED claims

GateSkipped(w, p) ==
  /\ <<p, Channel(worker[w])>> \in Unsure
  /\ worker[w].mine[<<p, Channel(worker[w])>>] = "none"
  /\ Goes(w, Sets([worker[w] EXCEPT !.todo = @ \ {p}], {p}, "skipped"))
  /\ UNCHANGED claims

\* Mutant: a status nobody knows.
ClaimedIsAState == "claimed"

\* Mutant: what is claimed has been sent.
ClaimedMeansSent == "sent"
FoundClaimed == "unknown"

GateClaimed(w, p) ==
  /\ worker[w].mine[<<p, Channel(worker[w])>>] = "none"
  /\ ~Claimable(worker[w], p)
  /\ Goes(w, Sets([worker[w] EXCEPT !.todo = @ \ {p}], {p}, FoundClaimed))
  /\ UNCHANGED claims

GateOpen(w, p) ==
  /\ worker[w].mine[<<p, Channel(worker[w])>>] = "none"
  /\ Claimable(worker[w], p)
  /\ claims' = claims \cup {ClaimKey(worker[w], p)}
  /\ Goes(w, [worker[w] EXCEPT !.todo = @ \ {p}, !.go = @ \cup {p}])

Gate(w) ==
  \E p \in worker[w].todo :
    /\ worker[w].pc = "gate"
    /\ GateDone(w, p) \/ GateSkipped(w, p) \/ GateClaimed(w, p) \/ GateOpen(w, p)
    /\ UNCHANGED <<send, chunk, st, seen, active, lease, over, admin, controls,
                   deaths, given, paused>>

\* In-app and push go person by person, e-mail as one batch.
Batches(me) ==
  IF Channel(me) = "email" THEN IF me.todo = {} THEN {me.go} ELSE {}
  ELSE {{p} : p \in me.go}

\* It failed; or, once the push was claimed, there was no device to send it to.
NotSent(me) == {"failed"} \cup (IF Channel(me) = "push" THEN {"skipped"} ELSE {})

Deliver(w) ==
  /\ worker[w].pc = "gate" /\ worker[w].go # {}
  /\ \E S \in Batches(worker[w]) :
       LET me == [worker[w] EXCEPT !.go = @ \ S]
       IN \/ /\ given' = [x \in Pairs |-> IF x[1] \in S /\ x[2] = Channel(me)
                                          THEN given[x] + 1 ELSE given[x]]
             /\ Goes(w, Sets(me, S, "sent"))
          \/ /\ \E p \in S : <<p, Channel(me)>> \in Unsure
             /\ \E state \in NotSent(me) : Goes(w, Sets(me, S, state))
             /\ UNCHANGED given
  /\ UNCHANGED <<send, chunk, st, claims, seen, active, lease, over, admin,
                 controls, deaths, paused>>

\* The chunk is behind: its statuses, and then the save.
Changed(me) == me.changed

Hset(w) ==
  LET me == worker[w]
  IN /\ me.pc = "hset" /\ me.s.nextChunk \in Slots
     /\ st' = [k \in Keys |-> IF k[1] = me.s.nextChunk /\ k[2][1] \in Changed(me)
                              THEN me.mine[k[2]] ELSE st[k]]
     /\ Goes(w, SaveThen(me, [me.s EXCEPT !.nextChunk = @ + 1], "read"))
     /\ UNCHANGED <<send, chunk, claims, seen, active, lease, over, admin,
                    controls, deaths, given, paused>>

----------------------------------------------------------------------------
(* What goes wrong.                                                        *)

\* From a page's first person to the save that puts the page behind.
AtListing(me) ==
  me.pc \in Listing \/ (me.pc \in {"save", "write"} /\ me.s.cursor # send.cursor)

\* The function is stopped, or a call it does not catch fails: what it held
\* is gone, and its lease stays behind or is given back on the way out.
Dies(w) ==
  /\ worker[w].pc # "idle" /\ deaths < MaxDeaths
  /\ ListingDies \/ ~AtListing(worker[w])
  /\ deaths' = deaths + 1
  /\ lease' \in (IF lease = w THEN {"left", "free"} ELSE {lease})
  /\ Goes(w, IdleWorker)
  /\ UNCHANGED <<send, chunk, st, claims, seen, active, over, admin, controls,
                 given, paused>>

LeaseExpires ==
  /\ lease = "left" \/ (SlowWorkers /\ lease # "free")
  /\ lease' = "free"
  /\ UNCHANGED <<send, chunk, st, claims, seen, active, over, worker, admin,
                 controls, deaths, given, paused>>

----------------------------------------------------------------------------

WorkerSteps(w) ==
  \/ ReadStopped(w) \/ ReadOver(w) \/ ReadSpent(w) \/ ReadWork(w)
  \/ SaveRead(w) \/ SaveWrite(w) \/ Srem(w) \/ End(w)
  \/ ListPage(w) \/ ListingFails(w) \/ Sismember(w) \/ Sadd(w) \/ Listed(w) \/ WriteChunk(w) \/ EndPage(w)
  \/ Load(w) \/ NextChannel(w) \/ Gate(w) \/ Deliver(w) \/ Hset(w)

AdminSteps(a) == ControlWrite(a) \/ ControlActive(a)

Next ==
  \/ EndsAt \/ LeaseExpires
  \/ \E a \in Admins : BeginControl(a) \/ AdminSteps(a)
  \/ \E w \in Workers : StartFromTick(w) \/ StartFromPage(w) \/ WorkerSteps(w) \/ Dies(w)

Spec == Init /\ [][Next]_vars

\* The scheduler keeps ticking; what has begun runs on, unless it dies; a
\* lease left behind expires; people can be listed in the end.
Fairness ==
  /\ WF_vars(LeaseExpires)
  /\ WF_vars(\E w \in Workers : StartFromTick(w))
  /\ SF_vars(\E w \in Workers : ListPage(w))
  /\ \A w \in Workers : WF_vars(WorkerSteps(w))
  /\ \A a \in Admins : WF_vars(AdminSteps(a))

FairSpec == Spec /\ Fairness

----------------------------------------------------------------------------
(* Properties.                                                             *)

\* Every variable has its type.
TypeOK ==
  /\ send \in Sends
  /\ chunk \in [Slots -> SUBSET People]
  /\ st \in [Keys -> States]
  /\ claims \subseteq (Nat \X Pairs)
  /\ seen \subseteq People
  /\ active \in BOOLEAN
  /\ lease \in Workers \cup {"free", "left"}
  /\ over \in BOOLEAN
  /\ worker \in [Workers -> [pc : WorkerPcs, s : Sends, did : BOOLEAN, list : SUBSET People,
                             mine : [Pairs -> States], changed : SUBSET People,
                             ch : Nat, todo : SUBSET People, go : SUBSET People,
                             fresh : SUBSET People,
                             after : {"read", "srem", "done", "end"}, cur : Statuses]]
  /\ admin \in [Admins -> [pc : {"idle", "write", "active"}, s : Sends]]
  /\ controls \in Nat /\ deaths \in Nat
  /\ given \in [Pairs -> Nat]
  /\ paused \in BOOLEAN

\* "At most once, never twice" (sends.ts): the sends keep what AtMostOnce
\* promises, a pair being taken when it is claimed in some chunk.
Once == INSTANCE AtMostOnce WITH Items <- Pairs, taken <- {k[2] : k \in claims}, given <- given
KeepsToOnce == Once!Spec

\* What is recorded is what happened: whom a status says was sent to was
\* reached, and for whom it says it failed was not, also when one worker
\* sends and another finds the claim.  ("skipped" says less: whoever opts out
\* between a worker's death and the next is recorded as skipped.)
StatusIsHonest ==
  \A n \in Slots, x \in Pairs :
    /\ st[<<n, x>>] = "sent" => given[x] = 1
    /\ st[<<n, x>>] = "failed" => given[x] = 0

\* The counts never say more than the statuses do, whoever was stopped
\* between writing the one and the other.
CountsAreBacked ==
  \A ch \in Channels :
    send.counts[ch] <= Cardinality({k \in Keys : k[2][2] = ch /\ st[k] # "none"})

RecordIsHonest == StatusIsHonest /\ CountsAreBacked

\* A cancelled send stays cancelled: saving progress does not undo it.
KeepsCancel == send.status = "cancelled" => send'.status = "cancelled"
CancelStands == [][KeepsCancel]_vars

\* A send that ran to its end, without having been paused or cut short, has
\* an answer for everyone listed, on every channel.
NobodyForgotten ==
  (send.status = "done" /\ ~send.cut /\ ~paused) =>
    \A p \in Audience, ch \in Channels : \E n \in Slots : st[<<n, <<p, ch>>>>] # "none"

\* A confirmed send is worked on until it is done, paused or cancelled,
\* though its workers are stopped and the listing fails now and then.
WorkGoesOn == []<>(~Running(send.status))
=============================================================================
