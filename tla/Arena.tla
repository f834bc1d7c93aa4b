------------------------------- MODULE Arena -------------------------------
(***************************************************************************)
(* The generational, reference-counted arena behind every IPC server       *)
(* (firmware/modules/ipc/src/arena.rs).  A client holds an opaque key; the *)
(* handle map takes a key to a (slot, generation) pair; several entries of *)
(* the map may share a slot, whose value is dropped with the last of them. *)
(*                                                                         *)
(* One action is one call of the arena, made by the generated dispatcher   *)
(* on behalf of the task that sent the message.  A server task is single   *)
(* threaded, so a call is atomic.  Loops over the map that release several *)
(* entries are given in closed form by the ...After(S) operators.          *)
(***************************************************************************)
EXTENDS Integers, FiniteSets

CONSTANTS
    N,            \* slots, and entries of the handle map
    Task,         \* task indices
    priority_fn,  \* priority of each task, an i8
    GenMod,       \* generations are counted modulo GenMod (2^32 in the code)
    RefMax,       \* largest reference count (u16::MAX in the code)
    MaxKey,       \* bound: number of handles a behaviour may issue
    NoTask,       \* Option::None of an owner or of pending_to
    NoValue       \* Option::None of a slot's value

ASSUME ArenaAssumption ==
    /\ N \in 1..255
    /\ GenMod \in Nat \ {0}
    /\ RefMax \in Nat \ {0}
    /\ MaxKey \in Nat
    /\ priority_fn \in [Task -> Int]
    /\ NoTask \notin Task
    /\ NoValue \notin Nat

VARIABLES
    value,       \* slot -> the resource stored there, or NoValue
    generation,  \* slot -> generation
    refcount,    \* slot -> reference count
    map,         \* entry -> HandleEntry
    next_key,    \* the next key the generator yields
    issued,      \* history: key -> the resource the handle was issued for
    last         \* the latest call: operation, caller, priority, outcome

vars == <<value, generation, refcount, map, next_key, issued, last>>

Index == 0..(N - 1)
Key == 1..MaxKey

(***************************************************************************)
(* The linear congruential generator of the code has period 2^64, so keys  *)
(* do not repeat; they are numbered in the order they are issued.  A       *)
(* resource is named by the first handle issued for it.                    *)
(***************************************************************************)
HandleEntry ==
    [key : Nat, slot : Index, generation : 0..(GenMod - 1), occupied : BOOLEAN,
     owner : Task \cup {NoTask}, priority : Int, pending_to : Task \cup {NoTask}]

EMPTY_ENTRY ==
    [key |-> 0, slot |-> 0, generation |-> 0, occupied |-> FALSE,
     owner |-> NoTask, priority |-> 0, pending_to |-> NoTask]

Init ==
    /\ value = [s \in Index |-> NoValue]
    /\ generation = [s \in Index |-> 0]
    /\ refcount = [s \in Index |-> 0]
    /\ map = [e \in Index |-> EMPTY_ENTRY]
    /\ next_key = 1
    /\ issued = [k \in Key |-> NoValue]
    /\ last = [op |-> "new", by |-> NoTask, priority |-> 0, status |-> "Ok"]

-----------------------------------------------------------------------------
\* Iterator::position, find and find_map: the first index that satisfies S.
IsFirst(i, S) == i \in S /\ \A j \in S : i <= j

\* The entry's slot still holds the value the entry was made for.
Resolves(e) ==
    /\ generation[map[e].slot] = map[e].generation
    /\ value[map[e].slot] # NoValue

\* The entries that lookup and lookup_owned accept for a handle.
lookup(k) ==
    {e \in Index : /\ map[e].occupied /\ map[e].key = k
                   /\ map[e].pending_to = NoTask /\ Resolves(e)}

lookup_owned(k, t) == {e \in lookup(k) : map[e].owner = t}

Owned(k, t) ==
    {e \in Index : map[e].occupied /\ map[e].key = k /\ map[e].owner = t}

EntriesOf(s) ==
    {e \in Index : /\ map[e].occupied /\ map[e].slot = s
                   /\ map[e].generation = generation[s]}

FreeSlots == {s \in Index : value[s] = NoValue}

(***************************************************************************)
(* release_entry, for every entry of S in turn.  An entry that no longer   *)
(* resolves only becomes unoccupied; the release that takes the count to 0 *)
(* drops the value and bumps the generation.  The code leaves the fields   *)
(* of an unoccupied entry behind and never reads them; here they are reset *)
(***************************************************************************)
Counted(S, s) == {e \in S : map[e].slot = s /\ Resolves(e)}

\* Mutants of the code, each used in place of the definition that follows it.
Dropped_OnFirstRelease(S) == {s \in Index : Counted(S, s) # {}}

Dropped(S) ==
    {s \in Index : Counted(S, s) # {} /\ refcount[s] <= Cardinality(Counted(S, s))}

ValueAfter(S) ==
    [s \in Index |-> IF s \in Dropped(S) THEN NoValue ELSE value[s]]

GenerationAfter_Unwrapped(S) ==
    [s \in Index |-> IF s \in Dropped(S) THEN generation[s] + 1 ELSE generation[s]]

GenerationAfter(S) ==
    [s \in Index |-> IF s \in Dropped(S) THEN (generation[s] + 1) % GenMod
                                         ELSE generation[s]]

RefcountAfter(S) ==
    [s \in Index |-> IF s \in Dropped(S)
                     THEN 0 ELSE refcount[s] - Cardinality(Counted(S, s))]

MapAfter(S) ==
    [e \in Index |-> IF e \in S THEN EMPTY_ENTRY ELSE map[e]]

release_entry(S) ==
    /\ value' = ValueAfter(S)
    /\ generation' = GenerationAfter(S)
    /\ refcount' = RefcountAfter(S)
    /\ map' = MapAfter(S)
    /\ UNCHANGED <<next_key, issued>>

Unchanged == UNCHANGED <<value, generation, refcount, map, next_key, issued>>

Return(op, t, p, status) ==
    last' = [op |-> op, by |-> t, priority |-> p, status |-> status]

\* A fresh entry for slot s, once the entries of S have been released.
NewEntry_KeyIsSlot(s, S, t, p) ==
    [key |-> s + 1, slot |-> s, generation |-> GenerationAfter(S)[s],
     occupied |-> TRUE, owner |-> t, priority |-> p, pending_to |-> NoTask]

NewEntry(s, S, t, p) ==
    [key |-> next_key, slot |-> s, generation |-> GenerationAfter(S)[s],
     occupied |-> TRUE, owner |-> t, priority |-> p, pending_to |-> NoTask]

-----------------------------------------------------------------------------
(***************************************************************************)
(* alloc and the eviction of a whole slot                                  *)
(***************************************************************************)
\* The largest priority among the entries of a slot is below the requester's.
Evictable(p) ==
    {s \in Index : value[s] # NoValue /\ \A e \in EntriesOf(s) : map[e].priority < p}

\* s's largest entry priority is at most (below) u's.
PriorityAtMost(s, u) ==
    \A e \in EntriesOf(s) : \E f \in EntriesOf(u) : map[e].priority <= map[f].priority

\* Fewest references first, then the lowest largest priority, then the index.
Better(s, u) ==
    \/ refcount[s] < refcount[u]
    \/ /\ refcount[s] = refcount[u]
       /\ PriorityAtMost(s, u)
       /\ PriorityAtMost(u, s) => s <= u

evict_slot(p, s) ==
    s \in Evictable(p) /\ \A u \in Evictable(p) : Better(s, u)

\* The second half of alloc: a map entry for slot s, S released on the way.
Install(t, p, s, S) ==
    \/ \E e \in Index :
          /\ IsFirst(e, {f \in Index : ~MapAfter(S)[f].occupied})
          /\ value' = [ValueAfter(S) EXCEPT ![s] = next_key]
          /\ generation' = GenerationAfter(S)
          /\ refcount' = [RefcountAfter(S) EXCEPT ![s] = 1]
          /\ map' = [MapAfter(S) EXCEPT ![e] = NewEntry(s, S, t, p)]
          /\ issued' = [issued EXCEPT ![next_key] = next_key]
          /\ next_key' = next_key + 1
          /\ Return("alloc", t, p, "Ok")
    \/ /\ \A f \in Index : MapAfter(S)[f].occupied
       /\ release_entry(S)
       /\ Return("alloc", t, p, "NoFreeEntry")

alloc(t) ==
    LET p == priority_fn[t] IN
    /\ next_key <= MaxKey
    /\ \/ \E s \in Index : IsFirst(s, FreeSlots) /\ Install(t, p, s, {})
       \/ /\ FreeSlots = {}
          /\ \E s \in Index : evict_slot(p, s) /\ Install(t, p, s, EntriesOf(s))
       \/ /\ FreeSlots = {} /\ Evictable(p) = {}
          /\ Unchanged
          /\ Return("alloc", t, p, "NoFreeSlot")

-----------------------------------------------------------------------------
(***************************************************************************)
(* Dropping handles                                                        *)
(***************************************************************************)
remove_owned(k, t) ==
    /\ release_entry(Owned(k, t))
    /\ Return("remove_owned", t, 0, "Ok")

try_drop(k, t) ==
    /\ release_entry(Owned(k, t))
    /\ Return("try_drop", t, 0, IF Owned(k, t) = {} THEN "false" ELSE "true")

OwnedBy(t) == {e \in Index : map[e].occupied /\ map[e].owner = t}

\* REVOKE_ALL_METHOD
remove_by_owner(t) ==
    /\ release_entry(OwnedBy(t))
    /\ Return("remove_by_owner", t, 0, "Ok")

\* What cancel_transfers_to leaves of an entry, once remove_by_owner has run.
Unfrozen(t, S, e) ==
    LET m == MapAfter(S)[e] IN
    IF /\ m.occupied /\ m.pending_to = t
       /\ GenerationAfter(S)[m.slot] = m.generation
       /\ ValueAfter(S)[m.slot] # NoValue
    THEN [m EXCEPT !.pending_to = NoTask] ELSE m

\* The dispatcher's cleanup of a dead client: remove_by_owner, then
\* cancel_transfers_to.
cleanup_client(t) ==
    LET S == OwnedBy(t) IN
    /\ value' = ValueAfter(S)
    /\ generation' = GenerationAfter(S)
    /\ refcount' = RefcountAfter(S)
    /\ map' = [e \in Index |-> Unfrozen(t, S, e)]
    /\ UNCHANGED <<next_key, issued>>
    /\ Return("cleanup_client", t, 0, "Ok")

-----------------------------------------------------------------------------
(***************************************************************************)
(* clone_handle                                                            *)
(***************************************************************************)
\* Entries whose priority is below p and that do not share e's slot.
VictimEntries_EqualPriority(p, e) ==
    {f \in Index : /\ map[f].occupied /\ map[f].priority <= p
                   /\ ~(map[f].slot = map[e].slot /\ map[f].generation = map[e].generation)}

VictimEntries(p, e) ==
    {f \in Index : /\ map[f].occupied /\ map[f].priority < p
                   /\ ~(map[f].slot = map[e].slot /\ map[f].generation = map[e].generation)}

find_eviction_victim(p, e, f) ==
    /\ f \in VictimEntries(p, e)
    /\ \A g \in VictimEntries(p, e) :
          \/ map[f].priority < map[g].priority
          \/ map[f].priority = map[g].priority /\ f <= g

\* A second entry f for the slot of entry e, the entries of S released first.
AddReference_Uncounted(e, f, S, t, u, p) ==
    LET s == map[e].slot IN
    /\ value' = ValueAfter(S)
    /\ generation' = GenerationAfter(S)
    /\ refcount' = RefcountAfter(S)
    /\ map' = [MapAfter(S) EXCEPT
                  ![f] = [NewEntry(s, S, u, p) EXCEPT !.generation = map[e].generation]]
    /\ issued' = [issued EXCEPT ![next_key] = issued[map[e].key]]
    /\ next_key' = next_key + 1
    /\ Return("clone_handle", t, p, "Ok")

AddReference(e, f, S, t, u, p) ==
    LET s == map[e].slot IN
    /\ value' = ValueAfter(S)
    /\ generation' = GenerationAfter(S)
    /\ refcount' = [RefcountAfter(S) EXCEPT ![s] = @ + 1]
    /\ map' = [MapAfter(S) EXCEPT
                  ![f] = [NewEntry(s, S, u, p) EXCEPT !.generation = map[e].generation]]
    /\ issued' = [issued EXCEPT ![next_key] = issued[map[e].key]]
    /\ next_key' = next_key + 1
    /\ Return("clone_handle", t, p, "Ok")

Sources_IgnoresPending(k, t) == Owned(k, t)

Sources(k, t) == {e \in Owned(k, t) : map[e].pending_to = NoTask}

\* Whether the slot of e can count one more reference.
Countable(e) == refcount[map[e].slot] # RefMax

clone_handle(k, t, u) ==
    LET p == priority_fn[u]
        free == {f \in Index : ~map[f].occupied} IN
    /\ next_key <= MaxKey
    /\ \/ \E e \in Index :
             /\ IsFirst(e, Sources(k, t)) /\ Resolves(e)
             /\ \/ /\ Countable(e)
                   /\ \E f \in Index : IsFirst(f, free) /\ AddReference(e, f, {}, t, u, p)
                \/ /\ Countable(e) /\ free = {}
                   /\ \E f \in Index : /\ find_eviction_victim(p, e, f)
                                       /\ AddReference(e, f, {f}, t, u, p)
                \/ /\ \/ ~Countable(e)
                      \/ free = {} /\ VictimEntries(p, e) = {}
                   /\ Unchanged /\ Return("clone_handle", t, p, "ArenaFull")
       \/ /\ \A e \in Sources(k, t) : ~Resolves(e)
          /\ Unchanged /\ Return("clone_handle", t, p, "InvalidHandle")

-----------------------------------------------------------------------------
(***************************************************************************)
(* The two-phase transfer: prepare freezes a handle for its target, which  *)
(* then takes it over with acquire, unless the owner cancels first.        *)
(***************************************************************************)
SetEntry(e, entry) ==
    /\ map' = [map EXCEPT ![e] = entry]
    /\ UNCHANGED <<value, generation, refcount, next_key, issued>>

prepare_transfer(k, t, u) ==
    \/ \E e \in Index :
          /\ IsFirst(e, Sources(k, t)) /\ Resolves(e)
          /\ SetEntry(e, [map[e] EXCEPT !.pending_to = u])
          /\ Return("prepare_transfer", t, 0, "true")
    \/ /\ \A e \in Sources(k, t) : ~Resolves(e)
       /\ Unchanged /\ Return("prepare_transfer", t, 0, "false")

cancel_transfer(k, t) ==
    LET pending == Owned(k, t) \ Sources(k, t) IN
    \/ \E e \in Index :
          /\ IsFirst(e, pending)
          /\ SetEntry(e, [map[e] EXCEPT !.pending_to = NoTask])
          /\ Return("cancel_transfer", t, 0, "true")
    \/ pending = {} /\ Unchanged /\ Return("cancel_transfer", t, 0, "false")

Pending(k, t) ==
    {e \in Index : map[e].occupied /\ map[e].key = k /\ map[e].pending_to = t}

acquire(k, t) ==
    \/ \E e \in Index :
          /\ IsFirst(e, Pending(k, t)) /\ Resolves(e)
          /\ SetEntry(e, [map[e] EXCEPT !.owner = t, !.priority = priority_fn[t],
                                        !.pending_to = NoTask])
          /\ Return("acquire", t, 0, "true")
    \/ /\ \A e \in Pending(k, t) : ~Resolves(e)
       /\ Unchanged /\ Return("acquire", t, 0, "false")

-----------------------------------------------------------------------------
Call(t) ==
    \/ alloc(t)
    \/ remove_by_owner(t)
    \/ cleanup_client(t)
    \/ \E k \in Key :
          \/ remove_owned(k, t)
          \/ try_drop(k, t)
          \/ cancel_transfer(k, t)
          \/ acquire(k, t)
          \/ \E u \in Task : clone_handle(k, t, u) \/ prepare_transfer(k, t, u)

Next == \E t \in Task : Call(t)

Spec == Init /\ [][Next]_vars

-----------------------------------------------------------------------------
(***************************************************************************)
(* Properties                                                              *)
(***************************************************************************)
\* Every variable keeps the type of its Rust field, the reference count its
\* u16 and the generation its width.
TypeOK ==
    /\ value \in [Index -> Key \cup {NoValue}]
    /\ generation \in [Index -> 0..(GenMod - 1)]
    /\ refcount \in [Index -> 0..RefMax]
    /\ map \in [Index -> HandleEntry]
    /\ next_key \in 1..(MaxKey + 1)
    /\ issued \in [Key -> Key \cup {NoValue}]

\* The count a slot keeps is the number of handles that reach it, whatever mix
\* of clones, transfers, evictions and client cleanups came before, and a slot
\* holds a value exactly while that number is not zero: no value is leaked, and
\* none is dropped under a live handle (release_entry, clone_handle, alloc).
RefcountExact ==
    \A s \in Index :
        /\ refcount[s] = Cardinality(EntriesOf(s))
        /\ value[s] # NoValue <=> EntriesOf(s) # {}

\* An occupied entry always resolves, and to the very resource its key was
\* issued for, even when generations have wrapped around (lookup).
HandleKeepsResource ==
    \A e \in Index :
        map[e].occupied => /\ Resolves(e)
                           /\ value[map[e].slot] = issued[map[e].key]

\* No two handles share a key, and no key is in use before it is issued.
KeysDistinct ==
    \A e \in Index : map[e].occupied =>
        /\ map[e].key \in 1..(next_key - 1)
        /\ \A f \in Index \ {e} : map[f].occupied => map[f].key # map[e].key

Held(k) == \E e \in Index : map[e].occupied /\ map[e].key = k

\* A handle that was dropped, revoked or evicted never comes back to life when
\* its entry and its slot are reused (alloc, clone_handle).
DeadHandlesStayDead ==
    [][\A k \in 1..(next_key - 1) : ~Held(k) => ~Held(k)']_vars

SameHandle(e) == map[e].occupied /\ map'[e].occupied /\ map'[e].key = map[e].key

\* A frozen handle is never promised to a second target, nor cloned: the next
\* thing that happens to it is its release, its acquisition, or its unfreezing
\* (prepare_transfer, clone_handle).
FrozenIsExclusive ==
    [][\A e \in Index : SameHandle(e) /\ map[e].pending_to # NoTask =>
          /\ map'[e].pending_to \in {map[e].pending_to, NoTask}
          /\ last'.op = "clone_handle" /\ last'.status = "Ok" =>
                \/ issued'[next_key] # issued[map[e].key]
                \/ \E f \in Index \ {e} : /\ map[f].pending_to = NoTask /\ map[f].occupied
                                          /\ issued[map[f].key] = issued[map[e].key]]_vars

\* alloc and clone_handle take a handle away only from an entry of strictly
\* lower priority than the one they make room for (evict_slot,
\* find_eviction_victim).
EvictsOnlyLowerPriority ==
    [][\A e \in Index :
          map[e].occupied /\ ~SameHandle(e) /\ last'.op \in {"alloc", "clone_handle"}
              => map[e].priority < last'.priority]_vars

\* A call that reports failure has evicted nothing on the way: alloc cannot
\* lose a slot to evict_slot and then fail for want of a map entry.
FailureChangesNothing ==
    [][last'.status \in {"NoFreeSlot", "NoFreeEntry", "ArenaFull", "InvalidHandle"}
          => UNCHANGED <<value, generation, refcount, map>>]_vars

\* What the comment of alloc promises: when it fails for want of room, no entry
\* has a lower priority than the request.
AllocEvictsLowerPriority ==
    [][last'.op = "alloc" /\ last'.status # "Ok" =>
          \A e \in Index : map[e].occupied => map[e].priority >= last'.priority]_vars
=============================================================================
