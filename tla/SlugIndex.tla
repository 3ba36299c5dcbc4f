----------------------------- MODULE SlugIndex -----------------------------
(***************************************************************************)
(* Which meeting an address opens: lib/eventStore.ts (create,              *)
(* createIfSlugFree, rename, delete, and update, which writes a meeting's  *)
(* record back whole), the checks its callers make first, and the trash of *)
(* lib/dataGov/trash.ts, from which a deleted meeting can be put back.     *)
(*                                                                         *)
(* A meeting's record names its slug and its former ones (aliases); the    *)
(* index, another key per slug, says which meeting the slug opens.  A look *)
(* at a slug (bySlug: the index, then the record) is one step here.  Owner *)
(* sets, roles and the group's list follow the record and are left out;    *)
(* so are the walk over random suffixes and the trash's expiry.            *)
(***************************************************************************)
EXTENDS Integers, FiniteSets

CONSTANTS
  Events,       \* meetings there are or will be
  Leftover,     \* one whose slug opens another meeting: older releases left such
  Slugs,
  Requests,     \* handlers at work at once
  MaxOps,       \* bound: how many begin
  Apart         \* what is kept apart, see Alone

VARIABLES
  event,    \* each meeting's record, or Gone
  index,    \* the slug index: a meeting, or "none"
  copies,   \* what the trash has of each meeting
  used,     \* meetings whose id has been drawn
  req, ops

vars == <<event, index, copies, used, req, ops>>

Records == [slug : Slugs, alias : SUBSET Slugs]
Gone == [slug |-> "none", alias |-> {}]
Stored(e) == event[e] # Gone
SlugsOf(record) == {record.slug} \cup record.alias

Kinds == {"none", "create", "adopt", "rename", "edit", "delete", "restore"}
Pcs == {"idle", "check", "claim", "store", "index", "keep", "read", "remove", "look", "release", "reclaim"}

\* The copy it read, the slug it is about, the slugs it has still to see to.
AnEvent == CHOOSE e \in Events : TRUE
ASlug == CHOOSE s \in Slugs : TRUE
Idle == [kind |-> "none", pc |-> "idle", e |-> AnEvent, slug |-> ASlug, prev |-> Gone, todo |-> {}]

\* At first one meeting has the first slug, and a leftover names it too.
Init ==
  \E e \in Events \ {Leftover} :
    /\ e = CHOOSE x \in Events : x # Leftover
    /\ event = [x \in Events |-> IF x \in {e, Leftover} THEN [slug |-> ASlug, alias |-> {}] ELSE Gone]
    /\ index = [s \in Slugs |-> IF s = ASlug THEN e ELSE "none"]
    /\ copies = [x \in Events |-> {}]
    /\ used = {e, Leftover}
    /\ req = [r \in Requests |-> Idle]
    /\ ops = 0

----------------------------------------------------------------------------
(* Requests.                                                               *)

\* Whom a request of this kind about this meeting must not meet: one about
\* the same meeting; and, between a look at a slug and the plain set that
\* follows it, whoever may claim or release that slug.
Clashes(kind) ==
  CASE kind = "create" -> {"create", "adopt", "rename", "restore", "delete"}
    [] kind = "rename" -> {"create", "adopt", "rename", "restore"}
    [] kind \in {"adopt", "restore"} -> {"create", "rename"}
    [] kind = "delete" -> {"create"}
    [] OTHER -> {}

Alone(kind, e) ==
  \A q \in Requests : req[q] = Idle \/ (req[q].e # e /\ req[q].kind \notin Clashes(kind))

Begins(r, kind, pc, e, slug, prev) ==
  /\ req[r] = Idle /\ ops < MaxOps /\ ops' = ops + 1
  /\ Apart => Alone(kind, e)
  /\ req' = [req EXCEPT ![r] = [kind |-> kind, pc |-> pc, e |-> e, slug |-> slug, prev |-> prev, todo |-> {}]]

At(r, kind, pc) == req[r].kind = kind /\ req[r].pc = pc
Goes(r, pc) == req' = [req EXCEPT ![r].pc = pc]
Done(r) == req' = [req EXCEPT ![r] = Idle]

\* bySlug finds nothing: the address is free.
Free(slug) == ~\E e \in Events : index[slug] = e /\ Stored(e)

New(slug) == [slug |-> slug, alias |-> {}]
Draws(e) == e \notin used /\ used' = used \cup {e}

----------------------------------------------------------------------------
(* create: the slug was free when it was generated; two plain sets.        *)

BeginCreate(r) ==
  \E e \in Events, s \in Slugs :
    /\ Free(s) /\ Draws(e)
    /\ Begins(r, "create", "store", e, s, Gone)
    /\ UNCHANGED <<event, index, copies>>

StoreCreated(r) ==
  /\ At(r, "create", "store")
  /\ event' = [event EXCEPT ![req[r].e] = New(req[r].slug)]
  /\ Goes(r, "index")
  /\ UNCHANGED <<index, copies, used, ops>>

IndexCreated(r) ==
  /\ At(r, "create", "index")
  /\ index' = [index EXCEPT ![req[r].slug] = req[r].e]
  /\ Done(r)
  /\ UNCHANGED <<event, copies, used, ops>>

----------------------------------------------------------------------------
(* createIfSlugFree, when a room without a meeting is entered.             *)

\* SET NX.
SetIfFree(slug, e) == IF index[slug] = "none" THEN [index EXCEPT ![slug] = e] ELSE index

BeginAdopt(r) ==
  \E e \in Events, s \in Slugs :
    /\ Free(s) /\ Draws(e)
    /\ Begins(r, "adopt", "claim", e, s, Gone)
    /\ UNCHANGED <<event, index, copies>>

\* Whoever is late uses the meeting of whoever was first.
ClaimSlug(r) ==
  /\ At(r, "adopt", "claim")
  /\ index' = SetIfFree(req[r].slug, req[r].e)
  /\ IF index'[req[r].slug] = req[r].e THEN Goes(r, "store") ELSE Done(r)
  /\ UNCHANGED <<event, copies, used, ops>>

StoreAdopted(r) ==
  /\ At(r, "adopt", "store")
  /\ event' = [event EXCEPT ![req[r].e] = New(req[r].slug)]
  /\ Done(r)
  /\ UNCHANGED <<index, copies, used, ops>>

----------------------------------------------------------------------------
(* rename, of a meeting that some address opens, and update.               *)

Opened == {e \in Events : Stored(e) /\ \E s \in Slugs : index[s] = e}

BeginRename(r) ==
  \E e \in Opened, s \in Slugs :
    /\ s # event[e].slug
    /\ Begins(r, "rename", "check", e, s, event[e])
    /\ UNCHANGED <<event, index, copies, used>>

MayTake(slug, e) == index[slug] \in {"none", e}

CheckNewSlug(r) ==
  /\ At(r, "rename", "check")
  /\ IF MayTake(req[r].slug, req[r].e) THEN Goes(r, "store") ELSE Done(r)
  /\ UNCHANGED <<event, index, copies, used, ops>>

Renamed(prev, slug) == [slug |-> slug, alias |-> SlugsOf(prev) \ {slug}]

StoreRenamed(r) ==
  /\ At(r, "rename", "store")
  /\ event' = [event EXCEPT ![req[r].e] = Renamed(req[r].prev, req[r].slug)]
  /\ Goes(r, "index")
  /\ UNCHANGED <<index, copies, used, ops>>

IndexRenamed(r) ==
  /\ At(r, "rename", "index")
  /\ index' = [index EXCEPT ![req[r].slug] = req[r].e]
  /\ Goes(r, "keep")
  /\ UNCHANGED <<event, copies, used, ops>>

\* The old address goes on opening it, unless it opens another: NX.
KeepOldSlug(r) ==
  /\ At(r, "rename", "keep")
  /\ index' = SetIfFree(req[r].prev.slug, req[r].e)
  /\ Done(r)
  /\ UNCHANGED <<event, copies, used, ops>>

\* Any other handler's save.
BeginEdit(r) ==
  \E e \in Events :
    /\ Stored(e) /\ Begins(r, "edit", "store", e, ASlug, event[e])
    /\ UNCHANGED <<event, index, copies, used>>

SaveEdit(r) ==
  /\ At(r, "edit", "store")
  /\ event' = [event EXCEPT ![req[r].e] = req[r].prev]
  /\ Done(r)
  /\ UNCHANGED <<index, copies, used, ops>>

----------------------------------------------------------------------------
(* delete.                                                                 *)

\* The route first puts a copy in the trash, if it can.
BeginDelete(r) ==
  \E e \in Events :
    /\ Stored(e) /\ Begins(r, "delete", "read", e, ASlug, Gone)
    /\ \/ copies' = [copies EXCEPT ![e] = @ \cup {event[e]}]
       \/ UNCHANGED copies
    /\ UNCHANGED <<event, index, used>>

ReadToDelete(r) ==
  /\ At(r, "delete", "read")
  /\ IF Stored(req[r].e) THEN req' = [req EXCEPT ![r].prev = event[req[r].e], ![r].pc = "remove"] ELSE Done(r)
  /\ UNCHANGED <<event, index, copies, used, ops>>

RemoveRecord(r) ==
  /\ At(r, "delete", "remove")
  /\ event' = [event EXCEPT ![req[r].e] = Gone]
  /\ req' = [req EXCEPT ![r].pc = "look", ![r].todo = SlugsOf(req[r].prev)]
  /\ UNCHANGED <<index, copies, used, ops>>

\* Mutant: the entry goes whoever it opens.
AnyEntry(slug, e) == TRUE

OwnEntry(slug, e) == index[slug] = e

\* releaseSlug, for each of its slugs: looks whose the entry is ...
LookAtSlug(r) ==
  \E s \in req[r].todo :
    /\ At(r, "delete", "look")
    /\ req' = [req EXCEPT ![r].slug = s,
                          ![r].todo = @ \ {s},
                          ![r].pc = IF OwnEntry(s, req[r].e) THEN "release" ELSE "look"]
    /\ UNCHANGED <<event, index, copies, used, ops>>

\* ... and deletes it.
ReleaseSlug(r) ==
  /\ At(r, "delete", "release")
  /\ index' = [index EXCEPT ![req[r].slug] = "none"]
  /\ Goes(r, "look")
  /\ UNCHANGED <<event, copies, used, ops>>

Deleted(r) ==
  /\ At(r, "delete", "look") /\ req[r].todo = {}
  /\ Done(r)
  /\ UNCHANGED <<event, index, copies, used, ops>>

----------------------------------------------------------------------------
(* restoreFromTrash: refused when the record is there or an address is     *)
(* another meeting's; then written back, the slugs by NX.                  *)

BeginRestore(r) ==
  \E e \in Events : \E copy \in copies[e] :
    /\ ~Stored(e) /\ \A s \in SlugsOf(copy) : index[s] \in {"none", e}
    /\ Begins(r, "restore", "store", e, ASlug, copy)
    /\ UNCHANGED <<event, index, copies, used>>

RestoreRecord(r) ==
  /\ At(r, "restore", "store")
  /\ event' = [event EXCEPT ![req[r].e] = req[r].prev]
  /\ req' = [req EXCEPT ![r].pc = "reclaim", ![r].todo = SlugsOf(req[r].prev)]
  /\ UNCHANGED <<index, copies, used, ops>>

ReclaimSlug(r) ==
  \E s \in req[r].todo :
    /\ At(r, "restore", "reclaim")
    /\ index' = SetIfFree(s, req[r].e)
    /\ req' = [req EXCEPT ![r].todo = @ \ {s}]
    /\ UNCHANGED <<event, copies, used, ops>>

Restored(r) ==
  /\ At(r, "restore", "reclaim") /\ req[r].todo = {}
  /\ copies' = [copies EXCEPT ![req[r].e] = @ \ {req[r].prev}]
  /\ Done(r)
  /\ UNCHANGED <<event, index, used, ops>>

\* A handler stops where it is.
Dies(r) ==
  /\ req[r] # Idle
  /\ Done(r)
  /\ UNCHANGED <<event, index, copies, used, ops>>

----------------------------------------------------------------------------
Begin(r) ==
  \/ BeginCreate(r) \/ BeginAdopt(r) \/ BeginRename(r) \/ BeginEdit(r)
  \/ BeginDelete(r) \/ BeginRestore(r)
Store(r) ==
  \/ StoreCreated(r) \/ StoreAdopted(r) \/ StoreRenamed(r) \/ SaveEdit(r)
  \/ ReadToDelete(r) \/ RemoveRecord(r) \/ RestoreRecord(r) \/ Restored(r)
Index(r) ==
  \/ IndexCreated(r) \/ ClaimSlug(r) \/ CheckNewSlug(r) \/ IndexRenamed(r) \/ KeepOldSlug(r)
  \/ LookAtSlug(r) \/ ReleaseSlug(r) \/ Deleted(r) \/ ReclaimSlug(r)

Next == \E r \in Requests : Begin(r) \/ Store(r) \/ Index(r) \/ Dies(r)

Spec == Init /\ [][Next]_vars

----------------------------------------------------------------------------
(* Properties.                                                             *)

\* Every variable has its type.
TypeOK ==
  /\ event \in [Events -> Records \cup {Gone}]
  /\ index \in [Slugs -> Events \cup {"none"}]
  /\ copies \in [Events -> SUBSET Records]
  /\ used \subseteq Events /\ ops \in 0..MaxOps
  /\ req \in [Requests -> [kind : Kinds, pc : Pcs, e : Events, slug : Slugs,
                           prev : Records \cup {Gone}, todo : SUBSET Slugs]]

\* An address that opens a meeting goes on opening it for as long as the
\* meeting is there: whoever enters the same free room, deletes a leftover that
\* names it, renames or restores another meeting, or stops half-way.
KeepsAddresses ==
  \A s \in Slugs, e \in Events : index[s] = e /\ Stored(e) /\ Stored(e)' => index'[s] = e
AddressKept == [][KeepsAddresses]_vars
=============================================================================
