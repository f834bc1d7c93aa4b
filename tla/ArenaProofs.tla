---------------------------- MODULE ArenaProofs ----------------------------
(***************************************************************************)
(* The arena's invariants, for every size, every set of tasks and every    *)
(* width of the generation and of the reference count.                     *)
(*                                                                         *)
(* None of them is inductive alone: a release is exact only when no        *)
(* occupied entry is stale (HandleKeepsResource), an entry stays fresh     *)
(* only when the count is exact (RefcountExact), and a new key names a new *)
(* resource only when it lies beyond every key in use (KeysDistinct).      *)
(***************************************************************************)
EXTENDS Arena, FiniteSetTheorems, TLAPS

IInv == TypeOK /\ RefcountExact /\ HandleKeepsResource /\ KeysDistinct

\* The entries that still reach slot s once the entries of S are released.
Remaining(S, s) ==
    {e \in Index : /\ MapAfter(S)[e].occupied /\ MapAfter(S)[e].slot = s
                   /\ MapAfter(S)[e].generation = GenerationAfter(S)[s]}

Occupied == {e \in Index : map[e].occupied}

\* A set of entries of the handle map is finite.
LEMMA IndexFinite ==
    \A S \in SUBSET Index : IsFiniteSet(S) /\ Cardinality(S) \in Nat
  <1>1. IsFiniteSet(Index)
    BY ArenaAssumption, FS_Interval DEF Index
  <1> QED
    BY <1>1, FS_Subset, FS_CardinalityType

\* Under the invariant every occupied entry of a slot is counted, so releasing
\* S uncounts exactly the entries of S.
LEMMA CountedIsOccupied ==
    ASSUME IInv, NEW S \in SUBSET Occupied, NEW s \in Index
    PROVE  /\ Counted(S, s) = EntriesOf(s) \cap S
           /\ EntriesOf(s) = {e \in Index : map[e].occupied /\ map[e].slot = s}
  BY DEF IInv, HandleKeepsResource, Counted, EntriesOf, Resolves, Occupied

\* A release drops a value exactly when it takes away every entry of the slot.
LEMMA DroppedIsLast ==
    ASSUME IInv, NEW S \in SUBSET Occupied, NEW s \in Index
    PROVE  s \in Dropped(S) <=> EntriesOf(s) # {} /\ EntriesOf(s) \subseteq S
  <1> DEFINE E == EntriesOf(s)
             C == Counted(S, s)
  <1>1. C = E \cap S /\ refcount[s] = Cardinality(E)
    BY CountedIsOccupied DEF IInv, RefcountExact
  <1>2. /\ IsFiniteSet(E) /\ Cardinality(E) \in Nat
        /\ C \in SUBSET E /\ IsFiniteSet(C) /\ Cardinality(C) \in Nat
    BY <1>1, IndexFinite DEF EntriesOf
  <1>3. Cardinality(C) <= Cardinality(E) /\ (Cardinality(E) = Cardinality(C) => E = C)
    BY <1>2, FS_Subset
  <1>4. s \in Dropped(S) <=> C # {} /\ Cardinality(E) <= Cardinality(C)
    BY <1>1 DEF Dropped
  <1> HIDE DEF E, C
  <1>5. Cardinality(E) <= Cardinality(C) <=> E = C
    BY <1>2, <1>3
  <1> QED
    BY <1>1, <1>4, <1>5 DEF E

\* What a release leaves behind satisfies the invariant: the surviving entries
\* are unchanged, still resolve, and are counted exactly.
LEMMA ReleaseFacts ==
    ASSUME IInv, NEW S \in SUBSET Occupied
    PROVE  /\ ValueAfter(S) \in [Index -> Key \cup {NoValue}]
           /\ GenerationAfter(S) \in [Index -> 0..(GenMod - 1)]
           /\ RefcountAfter(S) \in [Index -> 0..RefMax]
           /\ MapAfter(S) \in [Index -> HandleEntry]
           /\ \A s \in Index : RefcountAfter(S)[s] <= refcount[s]
           /\ \A e \in Index : MapAfter(S)[e].occupied =>
                 /\ e \notin S /\ map[e].occupied /\ MapAfter(S)[e] = map[e]
                 /\ GenerationAfter(S)[map[e].slot] = generation[map[e].slot]
                 /\ ValueAfter(S)[map[e].slot] = value[map[e].slot]
           /\ \A e \in Index : map[e].occupied /\ e \notin S => MapAfter(S)[e] = map[e]
           /\ \A s \in Index : /\ RefcountAfter(S)[s] = Cardinality(Remaining(S, s))
                               /\ ValueAfter(S)[s] # NoValue <=> Remaining(S, s) # {}
  <1> USE ArenaAssumption
  <1>1. /\ ValueAfter(S) \in [Index -> Key \cup {NoValue}]
        /\ GenerationAfter(S) \in [Index -> 0..(GenMod - 1)]
    BY DEF IInv, TypeOK, ValueAfter, GenerationAfter
  <1>2. MapAfter(S) \in [Index -> HandleEntry]
    BY DEF IInv, TypeOK, MapAfter, HandleEntry, EMPTY_ENTRY, Index
  <1>3. \A s \in Index : map[s].slot \in Index
    BY DEF IInv, TypeOK, HandleEntry
  <1>4. \A e \in Index : MapAfter(S)[e].occupied =>
                 e \notin S /\ map[e].occupied /\ MapAfter(S)[e] = map[e]
    BY DEF MapAfter, EMPTY_ENTRY
  <1>5. \A e \in Index : map[e].occupied /\ e \notin S => MapAfter(S)[e] = map[e]
    BY DEF MapAfter
  <1>6. ASSUME NEW e \in Index, MapAfter(S)[e].occupied
        PROVE  /\ GenerationAfter(S)[map[e].slot] = generation[map[e].slot]
               /\ ValueAfter(S)[map[e].slot] = value[map[e].slot]
    <2>1. e \in EntriesOf(map[e].slot) /\ e \notin S
      BY <1>3, <1>4, <1>6 DEF EntriesOf, IInv, HandleKeepsResource, Resolves
    <2>2. map[e].slot \notin Dropped(S)
      BY <1>3, <2>1, DroppedIsLast
    <2> QED
      BY <1>3, <2>2 DEF ValueAfter, GenerationAfter
  <1>7. ASSUME NEW s \in Index
        PROVE  /\ RefcountAfter(S)[s] = Cardinality(Remaining(S, s))
               /\ ValueAfter(S)[s] # NoValue <=> Remaining(S, s) # {}
               /\ RefcountAfter(S)[s] <= refcount[s]
               /\ RefcountAfter(S)[s] \in 0..RefMax
    <2> DEFINE E == EntriesOf(s)
    <2>1. /\ E = {e \in Index : map[e].occupied /\ map[e].slot = s}
          /\ Counted(S, s) = E \cap S
          /\ refcount[s] = Cardinality(E) /\ refcount[s] \in 0..RefMax
          /\ value[s] # NoValue <=> E # {}
      BY <1>7, CountedIsOccupied DEF IInv, RefcountExact, TypeOK
    <2>2. E \in SUBSET Index
      BY <2>1
    <2>3. Remaining(S, s) = E \ S
      BY <1>4, <1>5, <1>6, <2>1, <1>7 DEF Remaining, EntriesOf
    <2>4. CASE s \in Dropped(S)
      <3>1. Remaining(S, s) = {}
        BY <2>3, <2>4, <1>7, DroppedIsLast
      <3> QED
        BY <3>1, <2>1, <2>4, FS_EmptySet DEF RefcountAfter, ValueAfter
    <2>5. CASE s \notin Dropped(S)
      <3>1. Cardinality(E \ S) = Cardinality(E) - Cardinality(E \cap S)
        BY <2>2, IndexFinite, FS_Difference, ZenonT(30)
      <3>2. Cardinality(E \ S) \in Nat /\ Cardinality(E \cap S) \in Nat
        BY <2>2, IndexFinite
      <3>3. /\ RefcountAfter(S)[s] = Cardinality(E) - Cardinality(E \cap S)
            /\ ValueAfter(S)[s] = value[s]
        BY <2>1, <2>5, ZenonT(30) DEF RefcountAfter, ValueAfter
      <3>4. E # {} <=> E \ S # {}
        BY <2>5, <1>7, DroppedIsLast
      <3> HIDE DEF E
      <3> QED
        BY <3>1, <3>2, <3>3, <3>4, <2>1, <2>3
    <2> QED
      BY <2>4, <2>5
  <1>8. RefcountAfter(S) \in [Index -> 0..RefMax]
    BY <1>7 DEF RefcountAfter
  <1> QED
    BY <1>1, <1>2, <1>4, <1>5, <1>6, <1>7, <1>8

\* Releasing nothing changes nothing.
LEMMA ReleaseNothing ==
    ASSUME IInv
    PROVE  /\ ValueAfter({}) = value /\ GenerationAfter({}) = generation
           /\ RefcountAfter({}) = refcount /\ MapAfter({}) = map
  <1>1. \A s \in Index : Counted({}, s) = {}
    BY DEF Counted
  <1>2. Dropped({}) = {}
    BY <1>1 DEF Dropped
  <1>3. \A s \in Index : Cardinality(Counted({}, s)) = 0
    BY <1>1, FS_EmptySet, Zenon
  <1>4. \A s \in Index : refcount[s] \in Nat
    BY ArenaAssumption DEF IInv, TypeOK
  <1> QED
    BY <1>2, <1>3, <1>4 DEF IInv, TypeOK, ValueAfter, GenerationAfter, RefcountAfter, MapAfter

\* Releasing entries, and changing only the owner, the priority and the pending
\* target of those that remain, preserves the invariant.
LEMMA ReleaseStep ==
    ASSUME IInv, NEW S \in SUBSET Occupied,
           value' = ValueAfter(S), generation' = GenerationAfter(S),
           refcount' = RefcountAfter(S), UNCHANGED <<next_key, issued>>,
           map' \in [Index -> HandleEntry],
           \A e \in Index : /\ map'[e].key = MapAfter(S)[e].key
                             /\ map'[e].slot = MapAfter(S)[e].slot
                             /\ map'[e].generation = MapAfter(S)[e].generation
                             /\ map'[e].occupied = MapAfter(S)[e].occupied
    PROVE  IInv'
  <1>1. TypeOK'
    BY ReleaseFacts DEF IInv, TypeOK
  <1>2. \A s \in Index : EntriesOf(s)' = Remaining(S, s)
    BY DEF EntriesOf, Remaining
  <1>3. RefcountExact'
    BY <1>2, ReleaseFacts DEF RefcountExact
  <1>4. HandleKeepsResource'
    BY ReleaseFacts DEF IInv, HandleKeepsResource, Resolves
  <1>5. KeysDistinct'
    BY ReleaseFacts DEF IInv, KeysDistinct
  <1> QED
    BY <1>1, <1>3, <1>4, <1>5 DEF IInv

\* release_entry preserves the invariant.
LEMMA ReleaseEntryStep ==
    ASSUME IInv, NEW S \in SUBSET Occupied, release_entry(S)
    PROVE  IInv'
  BY ReleaseFacts, ReleaseStep DEF release_entry

\* Rewriting the owner, priority or pending target of one entry preserves it.
LEMMA SetEntryStep ==
    ASSUME IInv, NEW e \in Index, NEW entry \in HandleEntry, SetEntry(e, entry),
           entry.key = map[e].key, entry.slot = map[e].slot,
           entry.generation = map[e].generation, entry.occupied = map[e].occupied
    PROVE  IInv'
  <1>1. map' \in [Index -> HandleEntry]
    BY DEF IInv, TypeOK, SetEntry
  <1> QED
    BY <1>1, ReleaseNothing, ReleaseStep DEF SetEntry, IInv, TypeOK

\* A failed call preserves it.
LEMMA UnchangedStep ==
    ASSUME IInv, Unchanged
    PROVE  IInv'
  <1>1. map' \in [Index -> HandleEntry]
    BY DEF IInv, TypeOK, Unchanged
  <1> QED
    BY <1>1, ReleaseNothing, ReleaseStep DEF Unchanged

\* A new handle for a free slot preserves it: the slot is counted once, and the
\* fresh key names the resource just stored.
LEMMA InstallStep ==
    ASSUME IInv, next_key <= MaxKey, NEW t \in Task, NEW p \in Int, NEW s \in Index,
           NEW S \in SUBSET Occupied, ValueAfter(S)[s] = NoValue, Install(t, p, s, S)
    PROVE  IInv'
  <1> USE ArenaAssumption
  <1>1. CASE release_entry(S)
    BY <1>1, ReleaseEntryStep
  <1>2. ASSUME NEW e \in Index, ~MapAfter(S)[e].occupied,
               value' = [ValueAfter(S) EXCEPT ![s] = next_key],
               generation' = GenerationAfter(S),
               refcount' = [RefcountAfter(S) EXCEPT ![s] = 1],
               map' = [MapAfter(S) EXCEPT ![e] = NewEntry(s, S, t, p)],
               issued' = [issued EXCEPT ![next_key] = next_key],
               next_key' = next_key + 1
        PROVE  IInv'
    <2>1. next_key \in Key /\ next_key \in Nat
      BY DEF IInv, TypeOK, Key
    <2>2. /\ NewEntry(s, S, t, p) \in HandleEntry
          /\ NewEntry(s, S, t, p).occupied /\ NewEntry(s, S, t, p).slot = s
          /\ NewEntry(s, S, t, p).generation = GenerationAfter(S)[s]
          /\ NewEntry(s, S, t, p).key = next_key
      BY <2>1, ReleaseFacts DEF NewEntry, HandleEntry
    <2>3. TypeOK'
      <3>1. /\ value' \in [Index -> Key \cup {NoValue}] /\ generation' \in [Index -> 0..(GenMod - 1)]
            /\ refcount' \in [Index -> 0..RefMax] /\ map' \in [Index -> HandleEntry]
        BY <1>2, <2>1, <2>2, ReleaseFacts
      <3>2. next_key' \in 1..(MaxKey + 1) /\ issued' \in [Key -> Key \cup {NoValue}]
        BY <1>2, <2>1, SMTT(30) DEF IInv, TypeOK
      <3> QED
        BY <3>1, <3>2, SMTT(30) DEF TypeOK
    <2>4. Remaining(S, s) = {}
      BY ReleaseFacts, SMTT(30)
    <2>5. /\ \A f \in Index \ {e} : map'[f] = MapAfter(S)[f]
          /\ map'[e] = NewEntry(s, S, t, p)
      BY <1>2, ReleaseFacts, SMTT(30)
    <2>6. EntriesOf(s)' = {e}
      BY <1>2, <2>2, <2>4, <2>5 DEF EntriesOf, Remaining
    <2>7. \A u \in Index \ {s} : EntriesOf(u)' = Remaining(S, u)
      BY <1>2, <2>2, <2>5 DEF EntriesOf, Remaining
    <2>8. RefcountExact'
      <3>1. /\ \A u \in Index \ {s} : refcount'[u] = RefcountAfter(S)[u] /\ value'[u] = ValueAfter(S)[u]
            /\ refcount'[s] = 1 /\ value'[s] = next_key
        BY <1>2, ReleaseFacts
      <3>2. Cardinality({e}) = 1 /\ next_key # NoValue
        BY <2>1, FS_Singleton
      <3>3. \A u \in Index \ {s} : /\ refcount'[u] = Cardinality(EntriesOf(u)')
                                   /\ value'[u] # NoValue <=> EntriesOf(u)' # {}
        BY <2>7, <3>1, ReleaseFacts
      <3>4. /\ refcount'[s] = Cardinality(EntriesOf(s)')
            /\ value'[s] # NoValue <=> EntriesOf(s)' # {}
        BY <2>6, <3>1, <3>2
      <3> QED
        BY <3>3, <3>4 DEF RefcountExact
    <2>9. ASSUME NEW f \in Index \ {e}, map'[f].occupied
          PROVE  /\ map'[f] = map[f] /\ map[f].occupied /\ map[f].slot \in Index \ {s}
                 /\ map[f].key \in Key /\ map[f].key < next_key
                 /\ Resolves(f)' /\ value'[map[f].slot] = issued'[map[f].key]
      <3>1. /\ map'[f] = map[f] /\ map[f].occupied /\ map[f].slot \in Index
            /\ generation'[map[f].slot] = generation[map[f].slot]
            /\ ValueAfter(S)[map[f].slot] = value[map[f].slot]
        BY <1>2, <2>5, <2>9, ReleaseFacts, SMTT(30) DEF HandleEntry
      <3>2. map[f].key \in Key /\ map[f].key < next_key
        BY <3>1, <2>1, SMTT(60) DEF IInv, KeysDistinct, TypeOK, Key
      <3>3. Resolves(f) /\ value[map[f].slot] = issued[map[f].key]
        BY <3>1 DEF IInv, HandleKeepsResource
      <3>4. map[f].slot # s
        BY <3>1, <3>3 DEF Resolves
      <3>5. /\ value'[map[f].slot] = value[map[f].slot]
            /\ issued'[map[f].key] = issued[map[f].key]
        BY <1>2, <3>1, <3>2, <3>4, ReleaseFacts, SMTT(30) DEF IInv, TypeOK
      <3> QED
        BY <3>1, <3>2, <3>3, <3>4, <3>5, SMTT(30) DEF Resolves
    <2>10. HandleKeepsResource'
      <3>1. Resolves(e)' /\ value'[map'[e].slot] = issued'[map'[e].key]
        BY <1>2, <2>1, <2>2, <2>5, ReleaseFacts DEF Resolves, IInv, TypeOK
      <3> QED
        BY <3>1, <2>9, SMTT(30) DEF HandleKeepsResource
    <2>11. KeysDistinct'
      <3>1. map'[e].key = next_key /\ next_key' = next_key + 1
        BY <1>2, <2>2, <2>5, SMTT(30)
      <3> QED
        BY <2>1, <2>9, <3>1 DEF KeysDistinct, IInv, Key
    <2> QED
      BY <2>3, <2>8, <2>10, <2>11 DEF IInv
  <1> QED
    BY <1>1, <1>2 DEF Install, IsFirst

\* A cloned handle preserves it: the slot's count and its entries grow by one,
\* and the new key names the resource of the handle it was cloned from.
LEMMA AddReferenceStep ==
    ASSUME IInv, next_key <= MaxKey, NEW t, NEW u \in Task, NEW p \in Int,
           NEW e \in Occupied, NEW f \in Index, NEW S \in SUBSET Occupied,
           e \notin S, ~MapAfter(S)[f].occupied, refcount[map[e].slot] # RefMax,
           AddReference(e, f, S, t, u, p)
    PROVE  IInv'
  <1> USE ArenaAssumption
  <1>0. PICK s \in Index : s = map[e].slot
    BY DEF Occupied, IInv, TypeOK, HandleEntry
  <1> DEFINE new == [NewEntry(s, S, u, p) EXCEPT !.generation = map[e].generation]
  <1>1. /\ e \in Index /\ map[e].occupied /\ s = map[e].slot /\ MapAfter(S)[e] = map[e]
        /\ e # f /\ map[e].key \in Key /\ next_key \in Key
        /\ map[e].generation = generation[s] /\ GenerationAfter(S)[s] = generation[s]
        /\ ValueAfter(S)[s] = value[s] /\ value[s] # NoValue /\ value[s] = issued[map[e].key]
    <2>1. e \in Index /\ map[e].occupied /\ s = map[e].slot
      BY <1>0 DEF Occupied
    <2>2. MapAfter(S)[e] = map[e] /\ e # f
      BY <2>1, ReleaseFacts
    <2>3. GenerationAfter(S)[s] = generation[s] /\ ValueAfter(S)[s] = value[s]
      BY <2>1, <2>2, ReleaseFacts
    <2>4. next_key \in Key /\ map[e].key \in Key
      BY <2>1, SMTT(30) DEF IInv, TypeOK, KeysDistinct, Key
    <2> QED
      BY <2>1, <2>2, <2>3, <2>4 DEF IInv, HandleKeepsResource, Resolves
  <1>2. /\ new \in HandleEntry /\ new.occupied /\ new.slot = s
        /\ new.generation = generation[s] /\ new.key = next_key
    <2>1. NewEntry(s, S, u, p) \in HandleEntry
      BY <1>1, ReleaseFacts DEF NewEntry, HandleEntry, Key
    <2>2. map[e].generation \in 0..(GenMod - 1)
      BY <1>1 DEF IInv, TypeOK, HandleEntry
    <2> QED
      BY <1>1, <2>1, <2>2, ZenonT(30) DEF NewEntry, HandleEntry
  <1>3. /\ value' = ValueAfter(S) /\ generation' = GenerationAfter(S)
        /\ refcount' = [RefcountAfter(S) EXCEPT ![s] = RefcountAfter(S)[s] + 1]
        /\ map' = [MapAfter(S) EXCEPT ![f] = new]
        /\ issued' = [issued EXCEPT ![next_key] = issued[map[e].key]]
        /\ next_key' = next_key + 1
    BY <1>0 DEF AddReference
  <1> HIDE DEF new
  <1>4. /\ map'[f] = new
        /\ \A g \in Index \ {f} : map'[g] = MapAfter(S)[g]
    BY <1>3, ReleaseFacts
  <1>5. TypeOK'
    <2>1. RefcountAfter(S)[s] + 1 \in 0..RefMax
      <3>1. RefcountAfter(S)[s] \in 0..RefMax /\ RefcountAfter(S)[s] <= refcount[s]
        BY <1>1, ReleaseFacts
      <3>2. refcount[s] \in 0..RefMax /\ refcount[s] # RefMax
        BY <1>1 DEF IInv, TypeOK
      <3> QED
        BY <3>1, <3>2, SMTT(30)
    <2>2. /\ value' \in [Index -> Key \cup {NoValue}] /\ generation' \in [Index -> 0..(GenMod - 1)]
          /\ refcount' \in [Index -> 0..RefMax] /\ map' \in [Index -> HandleEntry]
      BY <1>2, <1>3, <2>1, ReleaseFacts
    <2>3. next_key' \in 1..(MaxKey + 1)
      BY <1>1, <1>3 DEF Key
    <2>4. issued' \in [Key -> Key \cup {NoValue}]
      BY <1>1, <1>3 DEF IInv, TypeOK
    <2> QED
      BY <2>2, <2>3, <2>4 DEF TypeOK
  <1>6. RefcountExact'
    <2>1. f \notin Remaining(S, s)
      BY SMTT(30) DEF Remaining
    <2>2. EntriesOf(s)' = Remaining(S, s) \cup {f}
      BY <1>1, <1>2, <1>3, <1>4, SMTT(30) DEF EntriesOf, Remaining
    <2>3. \A v \in Index \ {s} : EntriesOf(v)' = Remaining(S, v)
      BY <1>1, <1>2, <1>3, <1>4 DEF EntriesOf, Remaining
    <2>4. Cardinality(Remaining(S, s) \cup {f}) = Cardinality(Remaining(S, s)) + 1
      <3>1. IsFiniteSet(Remaining(S, s))
        BY IndexFinite DEF Remaining
      <3> QED
        BY <2>1, <3>1, FS_AddElement, ZenonT(30)
    <2>5. /\ refcount'[s] = RefcountAfter(S)[s] + 1 /\ value'[s] # NoValue
          /\ \A v \in Index \ {s} : refcount'[v] = RefcountAfter(S)[v] /\ value'[v] = ValueAfter(S)[v]
      BY <1>1, <1>3, ReleaseFacts, SMTT(30)
    <2>6. /\ refcount'[s] = Cardinality(EntriesOf(s)')
          /\ value'[s] # NoValue <=> EntriesOf(s)' # {}
      BY <1>1, <2>2, <2>4, <2>5, ReleaseFacts, SMTT(30)
    <2>7. \A v \in Index \ {s} : /\ refcount'[v] = Cardinality(EntriesOf(v)')
                                 /\ value'[v] # NoValue <=> EntriesOf(v)' # {}
      BY <2>3, <2>5, ReleaseFacts, SMTT(30)
    <2> QED
      BY <2>6, <2>7 DEF RefcountExact
  <1>7. ASSUME NEW g \in Index \ {f}, map'[g].occupied
        PROVE  /\ map'[g] = map[g] /\ map[g].occupied
               /\ map[g].key \in Key /\ map[g].key < next_key
               /\ Resolves(g)' /\ value'[map[g].slot] = issued'[map[g].key]
    <2>1. /\ map'[g] = map[g] /\ map[g].occupied /\ map[g].slot \in Index
          /\ generation'[map[g].slot] = generation[map[g].slot]
          /\ value'[map[g].slot] = value[map[g].slot]
      BY <1>3, <1>4, <1>7, ReleaseFacts, SMTT(30) DEF HandleEntry
    <2>2. map[g].key \in Key /\ map[g].key < next_key
      <3>1. map[g].key \in 1..(next_key - 1)
        BY <2>1, SMTT(30) DEF IInv, KeysDistinct
      <3> QED
        BY <3>1, <1>1 DEF Key
    <2>3. Resolves(g) /\ value[map[g].slot] = issued[map[g].key]
      BY <2>1 DEF IInv, HandleKeepsResource
    <2>4. issued'[map[g].key] = issued[map[g].key]
      BY <1>1, <1>3, <2>2, SMTT(30) DEF IInv, TypeOK, Key
    <2> QED
      BY <2>1, <2>2, <2>3, <2>4, SMTT(30) DEF Resolves
  <1>8. HandleKeepsResource'
    <2>1. Resolves(f)' /\ value'[map'[f].slot] = issued'[map'[f].key]
      BY <1>1, <1>2, <1>3, <1>4 DEF Resolves, IInv, TypeOK
    <2> QED
      BY <2>1, <1>7, SMTT(30) DEF HandleKeepsResource
  <1>9. KeysDistinct'
    <2>1. map'[f].key = next_key /\ next_key' = next_key + 1 /\ next_key \in Nat
      BY <1>1, <1>2, <1>3, <1>4, SMTT(30) DEF Key
    <2>2. \A g, h \in Index \ {f} : map'[g].occupied /\ map'[h].occupied /\ g # h
                                     => map'[g].key # map'[h].key
      BY <1>7, SMTT(30) DEF KeysDistinct, IInv
    <2>3. \A g \in Index \ {f} : map'[g].occupied =>
                                  map'[g].key \in 1..next_key /\ map'[g].key # map'[f].key
      BY <2>1, <1>7, SMTT(30) DEF Key
    <2>4. next_key' - 1 = next_key /\ map'[f].key \in 1..next_key
      BY <2>1, <1>1 DEF Key
    <2> QED
      BY <2>2, <2>3, <2>4, SMTT(30) DEF KeysDistinct
  <1> QED
    BY <1>5, <1>6, <1>8, <1>9 DEF IInv

\* An entry that resolves and is found by a lookup is occupied.
LEMMA OwnedIsOccupied ==
    \A k, t : /\ Owned(k, t) \in SUBSET Occupied /\ OwnedBy(t) \in SUBSET Occupied
              /\ Sources(k, t) \in SUBSET Occupied /\ Pending(k, t) \in SUBSET Occupied
              /\ \A s : EntriesOf(s) \in SUBSET Occupied
  BY DEF Owned, OwnedBy, Sources, Pending, EntriesOf, Occupied

\* alloc preserves the invariant: evicting every entry of a slot empties it.
LEMMA AllocStep ==
    ASSUME IInv, NEW t \in Task, alloc(t)
    PROVE  IInv'
  <1> DEFINE p == priority_fn[t]
  <1>1. p \in Int /\ next_key <= MaxKey
    BY ArenaAssumption DEF alloc
  <1>2. ASSUME NEW s \in Index, IsFirst(s, FreeSlots), Install(t, p, s, {})
        PROVE  IInv'
    <2>1. ValueAfter({})[s] = NoValue
      BY <1>2, ReleaseNothing DEF IsFirst, FreeSlots
    <2> QED
      BY <1>1, <1>2, <2>1, InstallStep
  <1>3. ASSUME NEW s \in Index, evict_slot(p, s), Install(t, p, s, EntriesOf(s))
        PROVE  IInv'
    <2>1. EntriesOf(s) \in SUBSET Occupied /\ EntriesOf(s) # {}
      BY <1>3, OwnedIsOccupied DEF evict_slot, Evictable, IInv, RefcountExact
    <2>2. ValueAfter(EntriesOf(s))[s] = NoValue
      BY <2>1, DroppedIsLast DEF ValueAfter
    <2> QED
      BY <1>1, <1>3, <2>1, <2>2, InstallStep
  <1>4. CASE Unchanged
    BY <1>4, UnchangedStep
  <1> QED
    BY <1>2, <1>3, <1>4 DEF alloc

\* clone_handle preserves it: the victim it may evict is not the source entry.
LEMMA CloneStep ==
    ASSUME IInv, NEW t \in Task, NEW u \in Task, NEW k \in Key, clone_handle(k, t, u)
    PROVE  IInv'
  <1> DEFINE p == priority_fn[u]
             free == {f \in Index : ~map[f].occupied}
  <1>1. p \in Int /\ next_key <= MaxKey
    BY ArenaAssumption DEF clone_handle
  <1>2. ASSUME NEW e \in Index, IsFirst(e, Sources(k, t)), Countable(e),
               NEW f \in Index, IsFirst(f, free), AddReference(e, f, {}, t, u, p)
        PROVE  IInv'
    <2>1. e \in Occupied /\ ~MapAfter({})[f].occupied
      BY <1>2, OwnedIsOccupied, ReleaseNothing, SMTT(30) DEF IsFirst
    <2> QED
      BY <1>1, <1>2, <2>1, AddReferenceStep DEF Countable
  <1>3. ASSUME NEW e \in Index, IsFirst(e, Sources(k, t)), Countable(e),
               NEW f \in Index, find_eviction_victim(p, e, f),
               AddReference(e, f, {f}, t, u, p)
        PROVE  IInv'
    <2>1. e \in Occupied /\ f \in Occupied /\ e # f
      BY <1>3, OwnedIsOccupied DEF IsFirst, find_eviction_victim, VictimEntries, Occupied
    <2>2. ~MapAfter({f})[f].occupied
      BY DEF MapAfter, EMPTY_ENTRY
    <2> QED
      BY <1>1, <1>3, <2>1, <2>2, AddReferenceStep, SMTT(30) DEF Countable
  <1>4. CASE Unchanged
    BY <1>4, UnchangedStep, SMTT(30)
  <1> QED
    BY <1>2, <1>3, <1>4, ZenonT(30) DEF clone_handle

\* The cleanup of a dead client preserves it.
LEMMA CleanupStep ==
    ASSUME IInv, NEW t \in Task, cleanup_client(t)
    PROVE  IInv'
  <1> DEFINE S == OwnedBy(t)
  <1>1. S \in SUBSET Occupied
    BY OwnedIsOccupied, SMTT(30)
  <1>2. MapAfter(S) \in [Index -> HandleEntry]
    BY <1>1, ReleaseFacts
  <1> HIDE DEF S
  <1>3. \A e \in Index : /\ Unfrozen(t, S, e) \in HandleEntry
                         /\ Unfrozen(t, S, e).key = MapAfter(S)[e].key
                         /\ Unfrozen(t, S, e).slot = MapAfter(S)[e].slot
                         /\ Unfrozen(t, S, e).generation = MapAfter(S)[e].generation
                         /\ Unfrozen(t, S, e).occupied = MapAfter(S)[e].occupied
    BY <1>2 DEF Unfrozen, HandleEntry
  <1>4. /\ value' = ValueAfter(S) /\ generation' = GenerationAfter(S)
        /\ refcount' = RefcountAfter(S) /\ map' = [e \in Index |-> Unfrozen(t, S, e)]
        /\ UNCHANGED <<next_key, issued>>
    BY DEF cleanup_client, S
  <1> QED
    BY <1>1, <1>3, <1>4, ReleaseStep

\* The three calls of the two-phase transfer preserve it.
LEMMA TransferStep ==
    ASSUME IInv, NEW t \in Task, NEW u \in Task, NEW k \in Key,
           prepare_transfer(k, t, u) \/ cancel_transfer(k, t) \/ acquire(k, t)
    PROVE  IInv'
  <1> USE ArenaAssumption
  <1>1. ASSUME NEW e \in Index, NEW o \in Task \cup {NoTask}, NEW q \in Task \cup {NoTask},
               NEW p \in Int,
               SetEntry(e, [map[e] EXCEPT !.owner = o, !.priority = p, !.pending_to = q])
        PROVE  IInv'
    <2> DEFINE m == [map[e] EXCEPT !.owner = o, !.priority = p, !.pending_to = q]
    <2>1. map[e] \in HandleEntry
      BY DEF IInv, TypeOK
    <2>2. /\ m \in HandleEntry /\ m.key = map[e].key /\ m.slot = map[e].slot
          /\ m.generation = map[e].generation /\ m.occupied = map[e].occupied
      BY <2>1, ZenonT(30) DEF HandleEntry
    <2> QED
      BY <1>1, <2>2, SetEntryStep, ZenonT(30)
  <1>2. ASSUME NEW e \in Index, NEW q \in Task \cup {NoTask},
               SetEntry(e, [map[e] EXCEPT !.pending_to = q])
        PROVE  IInv'
    <2> DEFINE m == [map[e] EXCEPT !.pending_to = q]
    <2>1. map[e] \in HandleEntry
      BY DEF IInv, TypeOK
    <2>2. /\ m \in HandleEntry /\ m.key = map[e].key /\ m.slot = map[e].slot
          /\ m.generation = map[e].generation /\ m.occupied = map[e].occupied
      BY <2>1 DEF HandleEntry
    <2> QED
      BY <1>2, <2>2, SetEntryStep, ZenonT(30)
  <1>3. CASE Unchanged
    BY <1>3, UnchangedStep
  <1>4. priority_fn[t] \in Int
    OBVIOUS
  <1>5. CASE prepare_transfer(k, t, u)
    BY <1>2, <1>3, <1>5, ZenonT(30) DEF prepare_transfer
  <1>6. CASE cancel_transfer(k, t)
    BY <1>2, <1>3, <1>6, ZenonT(30) DEF cancel_transfer
  <1>7. CASE acquire(k, t)
    BY <1>1, <1>3, <1>4, <1>7, ZenonT(30) DEF acquire
  <1> QED
    BY <1>5, <1>6, <1>7

\* Whatever calls its clients make, in whatever order, the arena keeps the four
\* facts of IInv (the whole of arena.rs).
THEOREM ArenaInvariant == Spec => []IInv
  <1>1. Init => IInv
    <2> SUFFICES ASSUME Init PROVE IInv
      OBVIOUS
    <2> USE ArenaAssumption DEF Init, EMPTY_ENTRY
    <2>1. TypeOK
      BY DEF TypeOK, HandleEntry, Index
    <2>2. \A s \in Index : EntriesOf(s) = {}
      BY DEF EntriesOf
    <2>3. Cardinality({}) = 0
      BY FS_EmptySet
    <2>4. RefcountExact
      BY <2>2, <2>3, ZenonT(30) DEF RefcountExact
    <2> QED
      BY <2>1, <2>4 DEF IInv, HandleKeepsResource, KeysDistinct
  <1>2. ASSUME IInv, [Next]_vars
        PROVE  IInv'
    <2>1. CASE UNCHANGED vars
      BY <1>2, <2>1, UnchangedStep DEF vars, Unchanged
    <2>2. ASSUME NEW t \in Task, Call(t)
          PROVE  IInv'
      <3>1. CASE alloc(t)
        BY <1>2, <3>1, AllocStep
      <3>2. CASE remove_by_owner(t)
        BY <1>2, <3>2, ReleaseEntryStep, OwnedIsOccupied DEF remove_by_owner
      <3>3. CASE cleanup_client(t)
        BY <1>2, <3>3, CleanupStep
      <3>4. ASSUME NEW k \in Key, remove_owned(k, t) \/ try_drop(k, t)
            PROVE  IInv'
        BY <1>2, <3>4, ReleaseEntryStep, OwnedIsOccupied DEF remove_owned, try_drop
      <3>5. ASSUME NEW k \in Key, cancel_transfer(k, t) \/ acquire(k, t)
            PROVE  IInv'
        BY <1>2, <3>5, TransferStep
      <3>6. ASSUME NEW k \in Key, NEW u \in Task, prepare_transfer(k, t, u)
            PROVE  IInv'
        BY <1>2, <3>6, TransferStep
      <3>7. ASSUME NEW k \in Key, NEW u \in Task, clone_handle(k, t, u)
            PROVE  IInv'
        BY <1>2, <3>7, CloneStep
      <3> QED
        BY <2>2, <3>1, <3>2, <3>3, <3>4, <3>5, <3>6, <3>7 DEF Call
    <2> QED
      BY <1>2, <2>1, <2>2 DEF Next
  <1> QED
    BY <1>1, <1>2, PTL DEF Spec

\* No value is leaked and none is dropped under a live handle.
THEOREM ArenaRefcountExact == Spec => []RefcountExact
  BY ArenaInvariant, PTL DEF IInv

\* A handle always reaches the resource it was issued for.
THEOREM ArenaHandleKeepsResource == Spec => []HandleKeepsResource
  BY ArenaInvariant, PTL DEF IInv

\* Every field keeps its type; the reference count never exceeds its u16.
THEOREM ArenaTypeOK == Spec => []TypeOK
  BY ArenaInvariant, PTL DEF IInv
-----------------------------------------------------------------------------
(* What a call may never do. *)

\* A handle in use after a call was in use before, or is the one just issued.
LEMMA KeyOrigin ==
    ASSUME IInv, NEW t \in Task, Call(t), NEW e \in Index, map'[e].occupied
    PROVE  (map[e].occupied /\ map'[e].key = map[e].key) \/ map'[e].key = next_key
  <1>0. map \in [Index -> HandleEntry]
    BY DEF IInv, TypeOK
  <1>1. \A S : MapAfter(S)[e].occupied => map[e].occupied /\ MapAfter(S)[e].key = map[e].key
    BY DEF MapAfter, EMPTY_ENTRY
  <1>2. \A S : MapAfter(S) = [g \in Index |-> MapAfter(S)[g]]
    BY DEF MapAfter
  <1>3. ASSUME NEW p, NEW s \in Index, NEW S, Install(t, p, s, S)
        PROVE  (map[e].occupied /\ map'[e].key = map[e].key) \/ map'[e].key = next_key
    <2>1. \/ \E f \in Index : map' = [MapAfter(S) EXCEPT ![f] = NewEntry(s, S, t, p)]
          \/ map' = MapAfter(S)
      BY <1>3, ZenonT(30) DEF Install, release_entry
    <2>2. NewEntry(s, S, t, p).key = next_key
      BY DEF NewEntry
    <2>3. ASSUME NEW f \in Index, map' = [MapAfter(S) EXCEPT ![f] = NewEntry(s, S, t, p)]
          PROVE  map'[e] = MapAfter(S)[e] \/ map'[e] = NewEntry(s, S, t, p)
      BY <1>2, <2>3, SMTT(30)
    <2> QED
      BY <1>1, <2>1, <2>2, <2>3, SMTT(30)
  <1>4. CASE alloc(t)
    <2>1. CASE Unchanged
      BY <2>1 DEF Unchanged
    <2> QED
      BY <1>3, <1>4, <2>1 DEF alloc
  <1>5. ASSUME NEW S, release_entry(S)
        PROVE  map[e].occupied /\ map'[e].key = map[e].key
    BY <1>1, <1>5 DEF release_entry
  <1>6. CASE remove_by_owner(t)
    BY <1>5, <1>6, SMTT(30) DEF remove_by_owner
  <1>7. CASE cleanup_client(t)
    <2>1. map'[e] = Unfrozen(t, OwnedBy(t), e)
      BY <1>7, SMTT(30) DEF cleanup_client
    <2>2. MapAfter(OwnedBy(t)) \in [Index -> HandleEntry]
      BY OwnedIsOccupied, ReleaseFacts, ZenonT(30)
    <2>3. /\ Unfrozen(t, OwnedBy(t), e).occupied = MapAfter(OwnedBy(t))[e].occupied
          /\ Unfrozen(t, OwnedBy(t), e).key = MapAfter(OwnedBy(t))[e].key
      BY <2>2 DEF Unfrozen, HandleEntry
    <2> QED
      BY <1>1, <2>1, <2>3
  <1>8. ASSUME NEW k \in Key, remove_owned(k, t) \/ try_drop(k, t)
        PROVE  map[e].occupied /\ map'[e].key = map[e].key
    BY <1>5, <1>8 DEF remove_owned, try_drop
  <1>9. ASSUME NEW k \in Key, NEW u \in Task,
               cancel_transfer(k, t) \/ acquire(k, t) \/ prepare_transfer(k, t, u)
        PROVE  map[e].occupied /\ map'[e].key = map[e].key
    <2> DEFINE SetsOwner(f, o, r, q) ==
                  map' = [map EXCEPT ![f] = [map[f] EXCEPT !.owner = o, !.priority = r,
                                                           !.pending_to = q]]
               SetsPending(f, q) == map' = [map EXCEPT ![f] = [map[f] EXCEPT !.pending_to = q]]
               KeepsKey == map'[e].occupied = map[e].occupied /\ map'[e].key = map[e].key
    <2>1. \/ map' = map
          \/ \E f \in Index : \E o, r, q : SetsOwner(f, o, r, q)
          \/ \E f \in Index : \E q : SetsPending(f, q)
      BY <1>9, ZenonT(30) DEF cancel_transfer, acquire, prepare_transfer, SetEntry, Unchanged
    <2>2. map[e] \in HandleEntry
      BY <1>0
    <2>3. ASSUME NEW f \in Index, NEW o, NEW r, NEW q, SetsOwner(f, o, r, q)
          PROVE  KeepsKey
      <3>1. CASE e = f
        <4>1. map'[e] = [map[e] EXCEPT !.owner = o, !.priority = r, !.pending_to = q]
          BY <1>0, <2>3, <3>1
        <4> QED
          BY <2>2, <4>1, ZenonT(30) DEF HandleEntry
      <3>2. CASE e # f
        BY <1>0, <2>3, <3>2, ZenonT(30)
      <3> QED
        BY <3>1, <3>2, ZenonT(30)
    <2>4. ASSUME NEW f \in Index, NEW q, SetsPending(f, q)
          PROVE  KeepsKey
      <3>1. CASE e = f
        <4>1. map'[e] = [map[e] EXCEPT !.pending_to = q]
          BY <1>0, <2>4, <3>1
        <4> QED
          BY <2>2, <4>1, ZenonT(30) DEF HandleEntry
      <3>2. CASE e # f
        BY <1>0, <2>4, <3>2, ZenonT(30)
      <3> QED
        BY <3>1, <3>2, ZenonT(30)
    <2>5. CASE map' = map
      BY <2>5
    <2>6. KeepsKey
      <3> HIDE DEF SetsOwner, SetsPending, KeepsKey
      <3> QED
        BY <2>1, <2>3, <2>4, <2>5, ZenonT(30) DEF KeepsKey
    <2> QED
      BY <2>6, SMTT(30)
  <1>10. ASSUME NEW k \in Key, NEW u \in Task, clone_handle(k, t, u)
         PROVE  (map[e].occupied /\ map'[e].key = map[e].key) \/ map'[e].key = next_key
    <2>1. ASSUME NEW d \in Index, NEW f \in Index, NEW S, NEW p,
                 AddReference(d, f, S, t, u, p)
          PROVE  (map[e].occupied /\ map'[e].key = map[e].key) \/ map'[e].key = next_key
      BY <1>1, <1>2, <2>1 DEF AddReference, NewEntry
    <2>2. CASE Unchanged
      BY <2>2 DEF Unchanged
    <2> QED
      BY <1>10, <2>1, <2>2, ZenonT(30) DEF clone_handle
  <1> QED
    BY <1>4, <1>6, <1>7, <1>8, <1>9, <1>10 DEF Call

\* For every arena, a handle that is dropped, revoked or evicted is dead for
\* ever, however its entry and its slot are reused.
THEOREM ArenaDeadHandlesStayDead == Spec => DeadHandlesStayDead
  <1> DEFINE Dead == \A k \in 1..(next_key - 1) : ~Held(k) => ~Held(k)'
  <1>1. ASSUME IInv, [Next]_vars PROVE [Dead]_vars
    <2>1. ASSUME NEW t \in Task, Call(t), NEW k \in 1..(next_key - 1), Held(k)'
          PROVE  Held(k)
      <3>1. PICK e \in Index : map'[e].occupied /\ map'[e].key = k
        BY <2>1 DEF Held
      <3>2. k # next_key
        BY ArenaAssumption, <1>1, SMTT(30) DEF IInv, TypeOK
      <3>3. map[e].occupied /\ map[e].key = k
        BY <1>1, <2>1, <3>1, <3>2, KeyOrigin
      <3> QED
        BY <3>3 DEF Held
    <2>2. CASE Next
      BY <2>1, <2>2 DEF Next
    <2> QED
      BY <1>1, <2>2
  <1> QED
    BY <1>1, ArenaInvariant, PTL DEF Spec, DeadHandlesStayDead

\* What a call reports.
LEMMA Reported ==
    ASSUME NEW o, NEW t, NEW p, NEW st, Return(o, t, p, st)
    PROVE  last'.op = o /\ last'.priority = p /\ last'.status = st
  BY DEF Return

\* The two ends of alloc: a new entry, or a full map.
LEMMA InstallEnds ==
    ASSUME NEW t, NEW p, NEW s, NEW S, Install(t, p, s, S)
    PROVE  /\ last'.op = "alloc" /\ last'.priority = p
           /\ \/ /\ last'.status = "Ok"
                 /\ \E f \in Index : /\ ~MapAfter(S)[f].occupied
                                    /\ map' = [MapAfter(S) EXCEPT ![f] = NewEntry(s, S, t, p)]
              \/ /\ release_entry(S)
                 /\ \A f \in Index : MapAfter(S)[f].occupied
  <1>1. CASE \E f \in Index :
               /\ IsFirst(f, {g \in Index : ~MapAfter(S)[g].occupied})
               /\ map' = [MapAfter(S) EXCEPT ![f] = NewEntry(s, S, t, p)]
               /\ Return("alloc", t, p, "Ok")
    BY <1>1, Reported, ZenonT(30) DEF IsFirst
  <1>2. CASE /\ \A f \in Index : MapAfter(S)[f].occupied
             /\ release_entry(S)
             /\ Return("alloc", t, p, "NoFreeEntry")
    BY <1>2, Reported
  <1> QED
    BY <1>1, <1>2, Zenon DEF Install

\* Only alloc and clone_handle report their name, or a failure.
LEMMA Reporters ==
    ASSUME NEW t \in Task, Call(t),
           \/ last'.op \in {"alloc", "clone_handle"}
           \/ last'.status \in {"NoFreeSlot", "NoFreeEntry", "ArenaFull", "InvalidHandle"}
    PROVE  alloc(t) \/ \E k \in Key, u \in Task : clone_handle(k, t, u)
  <1>1. ~remove_by_owner(t)
    BY Reported DEF remove_by_owner
  <1>2. ~cleanup_client(t)
    BY Reported DEF cleanup_client
  <1>3. \A k \in Key : ~remove_owned(k, t)
    BY Reported DEF remove_owned
  <1>4. \A k \in Key : ~try_drop(k, t)
    BY Reported DEF try_drop
  <1>5. \A k \in Key : ~cancel_transfer(k, t)
    <2>1. \A k \in Key : cancel_transfer(k, t) =>
              Return("cancel_transfer", t, 0, "true") \/ Return("cancel_transfer", t, 0, "false")
      BY Zenon DEF cancel_transfer
    <2> QED
      BY <2>1, Reported
  <1>6. \A k \in Key : ~acquire(k, t)
    <2>1. \A k \in Key : acquire(k, t) =>
              Return("acquire", t, 0, "true") \/ Return("acquire", t, 0, "false")
      BY Zenon DEF acquire
    <2> QED
      BY <2>1, Reported
  <1>7. \A k \in Key, u \in Task : ~prepare_transfer(k, t, u)
    <2>1. \A k \in Key, u \in Task : prepare_transfer(k, t, u) =>
              Return("prepare_transfer", t, 0, "true") \/ Return("prepare_transfer", t, 0, "false")
      BY Zenon DEF prepare_transfer
    <2> QED
      BY <2>1, Reported
  <1> QED
    BY <1>1, <1>2, <1>3, <1>4, <1>5, <1>6, <1>7 DEF Call

\* alloc and clone_handle leave a handle alone unless they evict it, and they
\* evict only what has a lower priority than the new handle.
LEMMA EvictionStep ==
    ASSUME IInv, NEW t \in Task, NEW e \in Index, map[e].occupied,
           alloc(t) \/ \E k \in Key, u \in Task : clone_handle(k, t, u)
    PROVE  SameHandle(e) \/ map[e].priority < last'.priority
  <1>0. map \in [Index -> HandleEntry]
    BY DEF IInv, TypeOK
  <1>1. \A S : MapAfter(S) = [g \in Index |-> MapAfter(S)[g]]
    BY DEF MapAfter
  <1>2. CASE Unchanged
    BY <1>2 DEF Unchanged, SameHandle
  <1>3. ASSUME NEW S, NEW f \in Index, NEW m, ~MapAfter(S)[f].occupied,
               map' = [MapAfter(S) EXCEPT ![f] = m], e \notin S
        PROVE  SameHandle(e)
    <2>1. MapAfter(S)[e] = map[e]
      BY <1>3 DEF MapAfter
    <2>2. e # f
      BY <1>3, <2>1, Zenon
    <2>3. map'[e] = map[e]
      BY <1>1, <1>3, <2>1, <2>2
    <2> QED
      BY <2>3, Zenon DEF SameHandle
  <1>4. ASSUME NEW p, NEW s \in Index, NEW S, Install(t, p, s, S), e \notin S
        PROVE  SameHandle(e)
    <2>1. CASE map' = MapAfter(S)
      <3>1. map'[e] = map[e]
        BY <1>4, <2>1 DEF MapAfter
      <3> QED
        BY <3>1, Zenon DEF SameHandle
    <2>2. ASSUME NEW f \in Index, ~MapAfter(S)[f].occupied,
                 map' = [MapAfter(S) EXCEPT ![f] = NewEntry(s, S, t, p)]
          PROVE  SameHandle(e)
      BY <1>3, <1>4, <2>2, ZenonT(30)
    <2> QED
      BY <1>4, <2>1, <2>2, InstallEnds DEF release_entry
  <1>5. CASE alloc(t)
    <2> DEFINE p == priority_fn[t]
    <2>1. ASSUME NEW s \in Index, evict_slot(p, s), Install(t, p, s, EntriesOf(s)),
                 e \in EntriesOf(s)
          PROVE  map[e].priority < last'.priority
      <3>1. last'.priority = p
        BY <2>1, InstallEnds, SMTT(30)
      <3> QED
        BY <2>1, <3>1, SMTT(30) DEF evict_slot, Evictable
    <2> QED
      BY <1>2, <1>4, <1>5, <2>1, ZenonT(30) DEF alloc
  <1>6. ASSUME NEW k \in Key, NEW u \in Task, clone_handle(k, t, u)
        PROVE  SameHandle(e) \/ map[e].priority < last'.priority
    <2> DEFINE p == priority_fn[u]
    <2>1. ASSUME NEW d \in Index, NEW f \in Index, IsFirst(f, {g \in Index : ~map[g].occupied}),
                 AddReference(d, f, {}, t, u, p)
          PROVE  SameHandle(e)
      <3>1. ~MapAfter({})[f].occupied
        BY <2>1, ReleaseNothing DEF IsFirst
      <3> QED
        BY <1>3, <2>1, <3>1, ZenonT(30) DEF AddReference
    <2>2. ASSUME NEW d \in Index, NEW f \in Index, find_eviction_victim(p, d, f),
                 AddReference(d, f, {f}, t, u, p)
          PROVE  SameHandle(e) \/ map[e].priority < last'.priority
      <3>1. ~MapAfter({f})[f].occupied
        BY DEF MapAfter, EMPTY_ENTRY
      <3>2. CASE e = f
        BY <2>2, <3>2 DEF find_eviction_victim, VictimEntries, AddReference, Return
      <3>3. CASE e # f
        BY <1>3, <2>2, <3>1, <3>3, ZenonT(30) DEF AddReference
      <3> QED
        BY <3>2, <3>3
    <2> QED
      BY <1>2, <1>6, <2>1, <2>2, ZenonT(30) DEF clone_handle
  <1> QED
    BY <1>5, <1>6

\* For every arena, only handles of strictly lower priority are evicted.
THEOREM ArenaEvictsOnlyLowerPriority == Spec => EvictsOnlyLowerPriority
  <1> DEFINE Fair ==
          \A e \in Index :
              map[e].occupied /\ ~SameHandle(e) /\ last'.op \in {"alloc", "clone_handle"}
                  => map[e].priority < last'.priority
  <1>1. ASSUME IInv, [Next]_vars PROVE [Fair]_vars
    <2>1. ASSUME NEW t \in Task, Call(t), last'.op \in {"alloc", "clone_handle"}
          PROVE  alloc(t) \/ \E k \in Key, u \in Task : clone_handle(k, t, u)
      BY <2>1, Reporters
    <2>2. CASE Next
      BY <1>1, <2>1, <2>2, EvictionStep DEF Next
    <2> QED
      BY <1>1, <2>2
  <1> QED
    BY <1>1, ArenaInvariant, PTL DEF Spec, EvictsOnlyLowerPriority

\* For every arena, a call that reports a failure has changed nothing: alloc
\* does not lose a slot to evict_slot and then fail for want of a map entry,
\* since the slot it emptied had an entry.
THEOREM ArenaFailureChangesNothing == Spec => FailureChangesNothing
  <1> DEFINE Failed == last'.status \in {"NoFreeSlot", "NoFreeEntry", "ArenaFull", "InvalidHandle"}
             Same == UNCHANGED <<value, generation, refcount, map>>
  <1>1. ASSUME IInv, [Next]_vars PROVE [Failed => Same]_vars
    <2>1. ASSUME NEW t \in Task, alloc(t), Failed PROVE Same
      <3> DEFINE p == priority_fn[t]
      <3>1. ASSUME NEW s \in Index, NEW S, Install(t, p, s, S)
            PROVE  release_entry(S) /\ \A f \in Index : MapAfter(S)[f].occupied
        BY <2>1, <3>1, InstallEnds
      <3>2. ASSUME NEW s \in Index, Install(t, p, s, {}) PROVE Same
        BY <1>1, <3>1, <3>2, ReleaseNothing DEF release_entry
      <3>3. ASSUME NEW s \in Index, evict_slot(p, s), Install(t, p, s, EntriesOf(s))
            PROVE  FALSE
        <4>1. PICK f \in Index : f \in EntriesOf(s)
          BY <1>1, <3>3, ZenonT(30) DEF evict_slot, Evictable, IInv, RefcountExact, EntriesOf
        <4>2. ~MapAfter(EntriesOf(s))[f].occupied
          BY <4>1 DEF MapAfter, EMPTY_ENTRY
        <4> QED
          BY <3>1, <3>3, <4>2, SMTT(30)
      <3>4. CASE Unchanged
        BY <3>4 DEF Unchanged
      <3> QED
        BY <2>1, <3>2, <3>3, <3>4, SMTT(30) DEF alloc
    <2>2. ASSUME NEW t \in Task, NEW u \in Task, NEW k \in Key, clone_handle(k, t, u), Failed
          PROVE  Same
      <3>1. ASSUME NEW d, NEW f, NEW S, NEW p, AddReference(d, f, S, t, u, p) PROVE FALSE
        BY <2>2, <3>1, Reported DEF AddReference
      <3>2. CASE Unchanged
        BY <3>2 DEF Unchanged
      <3> QED
        BY <2>2, <3>1, <3>2, Zenon DEF clone_handle
    <2>3. ASSUME NEW t \in Task, Call(t), Failed
          PROVE  alloc(t) \/ \E k \in Key, u \in Task : clone_handle(k, t, u)
      BY <2>3, Reporters
    <2>4. CASE Next
      BY <2>1, <2>2, <2>3, <2>4 DEF Next
    <2> QED
      BY <1>1, <2>4
  <1> QED
    BY <1>1, ArenaInvariant, PTL DEF Spec, FailureChangesNothing
=============================================================================
