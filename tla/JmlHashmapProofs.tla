-------------------------- MODULE JmlHashmapProofs --------------------------
(***************************************************************************)
(* Proofs about the hash table, for every set of keys and of values, every *)
(* hash function and every first capacity: its probes end, its count is    *)
(* exact, and it implements the dictionary.                                *)
(***************************************************************************)
EXTENDS JmlHashmap, FiniteSetTheorems, TLAPS

-----------------------------------------------------------------------------
(* The places a probe visits: each slot once. *)

LEMMA HomeType ==
    ASSUME NEW cap \in Nat, NEW k \in Keys
    PROVE  Home(k, cap) \in 0..cap
<1>1. Hash[k] \in Nat
  BY HashmapAssumption
<1>2. Hash[k] % (cap + 1) \in 0..cap
  BY <1>1
<1> QED  BY <1>2 DEF Home

LEMMA ProbeType ==
    ASSUME NEW cap \in Nat, NEW k \in Keys, NEW d \in 0..cap
    PROVE  Probe(k, cap, d) \in 0..cap
BY HomeType DEF Probe

LEMMA ProbeInjective ==
    ASSUME NEW cap \in Nat, NEW k \in Keys, NEW c \in 0..cap, NEW d \in 0..cap,
           Probe(k, cap, c) = Probe(k, cap, d)
    PROVE  c = d
BY HomeType DEF Probe

LEMMA ProbeOnto ==
    ASSUME NEW cap \in Nat, NEW k \in Keys, NEW i \in 0..cap
    PROVE  \E d \in 0..cap : Probe(k, cap, d) = i
<1> DEFINE h == Home(k, cap)
<1>1. h \in 0..cap
  BY HomeType
<1>2. CASE i >= h
  <2>1. i - h \in 0..cap /\ Probe(k, cap, i - h) = i
    BY <1>1, <1>2 DEF Probe
  <2> QED  BY <2>1
<1>3. CASE i < h
  <2>1. i + (cap + 1) - h \in 0..cap /\ Probe(k, cap, i + (cap + 1) - h) = i
    BY <1>1, <1>3 DEF Probe
  <2> QED  BY <2>1
<1> QED  BY <1>1, <1>2, <1>3

LEMMA Smallest ==
    ASSUME NEW T \in SUBSET Nat, T # {}
    PROVE  \E n \in T : \A m \in T : n <= m
<1>1. PICK n \in T : \A m \in T : ~(<<m, n>> \in OpToRel(<, Nat))
  BY WFMin, NatLessThanWellFounded
<1>2. \A m \in T : ~(m < n)
  <2> TAKE m \in T
  <2>1. <<m, n>> \in Nat \X Nat
    OBVIOUS
  <2> QED  BY <1>1, <2>1 DEF OpToRel
<1> QED  BY <1>2

LEMMA FirstStop ==
    ASSUME NEW cap \in Nat, NEW e, NEW k, Terminates(e, cap, k)
    PROVE  \E d \in 0..cap : StopsFirst(e, cap, k, d)
<1> DEFINE T == {d \in 0..cap : Stops(e, cap, k, d)}
<1>1. T \in SUBSET Nat /\ T # {}
  BY DEF Terminates
<1>2. PICK d \in T : \A m \in T : d <= m
  <2> HIDE DEF T
  <2> QED  BY <1>1, Smallest
<1>3. \A c \in 0..(d - 1) : ~Stops(e, cap, k, c)
  BY <1>2
<1> QED  BY <1>2, <1>3 DEF StopsFirst

LEMMA FirstStopUnique ==
    ASSUME NEW cap \in Nat, NEW e, NEW k, NEW c \in 0..cap, NEW d \in 0..cap,
           StopsFirst(e, cap, k, c), StopsFirst(e, cap, k, d)
    PROVE  c = d
BY DEF StopsFirst

(* jml_hashmap_find_entry gets to the d-th place. *)
Leads(e, cap, k, d) == \A c \in 0..(d - 1) : ~Stops(e, cap, k, c)

(* The key at i is where a probe for it gets to. *)
Placed(e, cap, i) ==
    \E d \in 0..cap : Probe(e[i].key, cap, d) = i /\ Leads(e, cap, e[i].key, d)

KeysDistinct(e, cap) ==
    \A i, j \in 0..cap : e[i].key # NoKey /\ e[j].key = e[i].key => j = i

(* What jml_hashmap_find_entry answers: a place the probe gets to, with the
   key or free.                                                            *)
LEMMA FindEntrySpec ==
    ASSUME NEW cap \in Nat, NEW e \in [0..cap -> Slot], NEW k \in Keys,
           Terminates(e, cap, k)
    PROVE  \E d \in 0..cap : /\ FindEntry(e, cap, k) = Probe(k, cap, d)
                             /\ Leads(e, cap, k, d)
                             /\ e[Probe(k, cap, d)].key \in {k, NoKey}
<1> DEFINE d == CHOOSE n \in 0..cap : StopsFirst(e, cap, k, n)
           g == Graves(e, cap, k, d)
           b == CHOOSE c \in g : \A a \in g : c <= a
<1>1. d \in 0..cap /\ StopsFirst(e, cap, k, d)
  BY FirstStop
<1> HIDE DEF d
<1>2. FindEntry(e, cap, k) = IF e[Probe(k, cap, d)].key = k \/ g = {}
                             THEN Probe(k, cap, d) ELSE Probe(k, cap, b)
  BY DEF FindEntry, d
<1>3. Leads(e, cap, k, d) /\ e[Probe(k, cap, d)].key \in {k, NoKey}
  BY <1>1 DEF StopsFirst, Stops, Leads, Empty
<1>4. CASE e[Probe(k, cap, d)].key = k \/ g = {}
  BY <1>1, <1>2, <1>3, <1>4
<1>5. CASE ~(e[Probe(k, cap, d)].key = k \/ g = {})
  <2>1. g \in SUBSET Nat /\ g # {}
    BY <1>1, <1>5 DEF Graves
  <2>2. b \in g
    <3>1. \E c \in g : \A a \in g : c <= a
      <4> HIDE DEF g
      <4> QED  BY <2>1, Smallest
    <3> QED  BY <3>1
  <2> HIDE DEF b
  <2>3. b \in 0..cap /\ b < d /\ e[Probe(k, cap, b)].key = NoKey
    BY <1>1, <2>2 DEF Graves
  <2>4. Leads(e, cap, k, b)
    BY <1>1, <1>3, <2>3 DEF Leads
  <2> QED  BY <1>2, <1>5, <2>3, <2>4
<1> QED  BY <1>4, <1>5

LEMMA FindEntryType ==
    ASSUME NEW cap \in Nat, NEW e \in [0..cap -> Slot], NEW k \in Keys,
           Terminates(e, cap, k)
    PROVE  /\ FindEntry(e, cap, k) \in 0..cap
           /\ e[FindEntry(e, cap, k)].key \in {k, NoKey}
BY FindEntrySpec, ProbeType

LEMMA FindEntryFindsPlaced ==
    ASSUME NEW cap \in Nat, NEW e \in [0..cap -> Slot], NEW i \in 0..cap,
           e[i].key # NoKey, Placed(e, cap, i)
    PROVE  Terminates(e, cap, e[i].key) /\ FindEntry(e, cap, e[i].key) = i
<1> DEFINE k == e[i].key
           d == CHOOSE n \in 0..cap : StopsFirst(e, cap, k, n)
<1>1. PICK c \in 0..cap : Probe(k, cap, c) = i /\ Leads(e, cap, k, c)
  BY DEF Placed
<1>2. StopsFirst(e, cap, k, c)
  BY <1>1 DEF StopsFirst, Stops, Leads
<1>3. d = c
  BY <1>2, FirstStopUnique
<1>4. Terminates(e, cap, k)
  BY <1>2 DEF Terminates, StopsFirst
<1> QED  BY <1>1, <1>3, <1>4 DEF FindEntry

(* The property of the table says that every key is where its probe leads. *)
LEMMA FoundIsPlaced ==
    ASSUME NEW cap \in Nat, NEW e \in [0..cap -> Slot]
    PROVE  FoundWhereStored(e, cap) <=>
              /\ KeysDistinct(e, cap)
              /\ \A i \in 0..cap : e[i].key # NoKey => Placed(e, cap, i)
<1>1. ASSUME FoundWhereStored(e, cap), NEW i \in 0..cap, e[i].key # NoKey
      PROVE  Placed(e, cap, i)
  <2>1. e[i].key \in Keys
    BY <1>1 DEF Slot
  <2>2. Terminates(e, cap, e[i].key)
    <3>1. PICK c \in 0..cap : Probe(e[i].key, cap, c) = i
      BY <2>1, ProbeOnto
    <3> QED  BY <3>1 DEF Terminates, Stops
  <2>3. FindEntry(e, cap, e[i].key) = i
    BY <1>1 DEF FoundWhereStored
  <2> QED  BY <2>1, <2>2, <2>3, FindEntrySpec DEF Placed
<1>2. ASSUME FoundWhereStored(e, cap)
      PROVE  KeysDistinct(e, cap)
  BY <1>2 DEF FoundWhereStored, KeysDistinct
<1>3. ASSUME KeysDistinct(e, cap), \A i \in 0..cap : e[i].key # NoKey => Placed(e, cap, i)
      PROVE  FoundWhereStored(e, cap)
  BY <1>3, FindEntryFindsPlaced DEF FoundWhereStored, KeysDistinct
<1> QED  BY <1>1, <1>2, <1>3

-----------------------------------------------------------------------------
(* What storing in a slot does to the other keys, to the count, to probes. *)

LEMMA SlotTypes ==
    /\ Empty \in Slot /\ Tombstone \in Slot /\ Tombstone # Empty
    /\ \A s \in Slot : s.key \in Keys => s # Empty
BY HashmapAssumption DEF Empty, Tombstone, Slot, Values

LEMMA StoreKeepsPlaces ==
    ASSUME NEW cap \in Nat, NEW e \in [0..cap -> Slot], NEW i \in 0..cap,
           NEW s \in Slot, s # Empty,
           NEW j \in 0..cap, j # i, e[j].key # NoKey, s.key # e[j].key,
           Placed(e, cap, j)
    PROVE  Placed([e EXCEPT ![i] = s], cap, j)
<1> DEFINE f == [e EXCEPT ![i] = s]
           k == e[j].key
<1>1. PICK d \in 0..cap : Probe(k, cap, d) = j /\ Leads(e, cap, k, d)
  BY DEF Placed
<1>2. k \in Keys
  BY DEF Slot
<1>3. Leads(f, cap, k, d)
  <2> SUFFICES ASSUME NEW c \in 0..(d - 1)
               PROVE  ~Stops(f, cap, k, c)
    BY DEF Leads
  <2>1. c \in 0..cap /\ ~Stops(e, cap, k, c)
    BY <1>1 DEF Leads
  <2>2. Probe(k, cap, c) \in 0..cap
    BY <1>2, <2>1, ProbeType
  <2> QED  BY <2>1, <2>2 DEF Stops
<1> QED  BY <1>1, <1>3 DEF Placed

LEMMA StorePlaces ==
    ASSUME NEW cap \in Nat, NEW e \in [0..cap -> Slot], NEW k \in Keys,
           Terminates(e, cap, k), NEW s \in Slot, s.key = k
    PROVE  Placed([e EXCEPT ![FindEntry(e, cap, k)] = s], cap, FindEntry(e, cap, k))
<1> DEFINE i == FindEntry(e, cap, k)
           f == [e EXCEPT ![i] = s]
<1>1. PICK d \in 0..cap : i = Probe(k, cap, d) /\ Leads(e, cap, k, d)
  BY FindEntrySpec
<1>2. i \in 0..cap
  BY FindEntryType
<1> HIDE DEF i
<1>3. Leads(f, cap, k, d)
  <2> SUFFICES ASSUME NEW c \in 0..(d - 1)
               PROVE  ~Stops(f, cap, k, c)
    BY DEF Leads
  <2>1. c \in 0..cap /\ c # d /\ ~Stops(e, cap, k, c)
    BY <1>1 DEF Leads
  <2>2. Probe(k, cap, c) \in 0..cap /\ Probe(k, cap, c) # i
    BY <1>1, <2>1, ProbeType, ProbeInjective
  <2> QED  BY <2>1, <2>2 DEF Stops
<1>4. f[i].key = k
  BY <1>2
<1>5. Placed(f, cap, i)
  BY <1>1, <1>3, <1>4 DEF Placed
<1> QED  BY <1>5 DEF i

LEMMA StoreKeepsFound ==
    ASSUME NEW cap \in Nat, NEW e \in [0..cap -> Slot], NEW k \in Keys,
           Terminates(e, cap, k), NEW s \in Slot, s.key = k,
           FoundWhereStored(e, cap)
    PROVE  FoundWhereStored([e EXCEPT ![FindEntry(e, cap, k)] = s], cap)
<1> DEFINE i == FindEntry(e, cap, k)
           f == [e EXCEPT ![i] = s]
<1>1. i \in 0..cap /\ Placed(f, cap, i)
  BY FindEntryType, StorePlaces
<1>2. \A j \in 0..cap : e[j].key = k => j = i
  BY HashmapAssumption DEF FoundWhereStored
<1>3. f \in [0..cap -> Slot] /\ f[i] = s /\ \A j \in 0..cap : j # i => f[j] = e[j]
  BY <1>1
<1>4. KeysDistinct(e, cap) /\ \A j \in 0..cap : e[j].key # NoKey => Placed(e, cap, j)
  BY FoundIsPlaced
<1>5. s # Empty
  BY SlotTypes
<1>6. ASSUME NEW j \in 0..cap, j # i, e[j].key # NoKey
      PROVE  Placed(f, cap, j)
  <2>1. s.key # e[j].key
    BY <1>2, <1>6
  <2> HIDE DEF i
  <2> QED  BY <1>1, <1>4, <1>5, <1>6, <2>1, StoreKeepsPlaces
<1> HIDE DEF i, f
<1>7. KeysDistinct(f, cap)
  BY <1>1, <1>2, <1>3, <1>4 DEF KeysDistinct
<1>8. \A j \in 0..cap : f[j].key # NoKey => Placed(f, cap, j)
  BY <1>1, <1>3, <1>6
<1>9. FoundWhereStored(f, cap)
  BY <1>3, <1>7, <1>8, FoundIsPlaced
<1> QED  BY <1>9 DEF f, i

LEMMA BuryKeepsFound ==
    ASSUME NEW cap \in Nat, NEW e \in [0..cap -> Slot], NEW i \in 0..cap,
           FoundWhereStored(e, cap)
    PROVE  FoundWhereStored([e EXCEPT ![i] = Tombstone], cap)
<1> DEFINE f == [e EXCEPT ![i] = Tombstone]
<1>1. KeysDistinct(e, cap) /\ \A j \in 0..cap : e[j].key # NoKey => Placed(e, cap, j)
  BY FoundIsPlaced
<1>2. f \in [0..cap -> Slot] /\ f[i].key = NoKey /\ \A j \in 0..cap : j # i => f[j] = e[j]
  BY SlotTypes DEF Tombstone
<1>3. \A j \in 0..cap : j # i /\ e[j].key # NoKey => Placed(f, cap, j)
  BY <1>1, SlotTypes, StoreKeepsPlaces DEF Tombstone
<1> HIDE DEF f
<1>4. KeysDistinct(f, cap)
  BY <1>1, <1>2 DEF KeysDistinct
<1>5. FoundWhereStored(f, cap)
  BY <1>2, <1>3, <1>4, FoundIsPlaced
<1> QED  BY <1>5 DEF f

LEMMA UsedBound ==
    ASSUME NEW cap \in Nat \cup {-1}, NEW e
    PROVE  /\ IsFiniteSet(Used(e, cap))
           /\ Cardinality(Used(e, cap)) \in Nat
           /\ Cardinality(Used(e, cap)) <= cap + 1
<1>1. IsFiniteSet(0..cap) /\ Cardinality(0..cap) = cap + 1
  <2>1. CASE cap = -1
    <3>1. 0..cap = {}
      BY <2>1
    <3> QED  BY <2>1, <3>1, FS_EmptySet
  <2>2. CASE cap \in Nat
    BY <2>2, FS_Interval
  <2> QED  BY <2>1, <2>2
<1>2. Used(e, cap) \in SUBSET (0..cap)
  BY DEF Used
<1>3. IsFiniteSet(Used(e, cap)) /\ Cardinality(Used(e, cap)) <= cap + 1
  BY <1>1, <1>2, FS_Subset
<1> QED  BY <1>3, FS_CardinalityType

(* A table that is not full stops every probe. *)
LEMMA RoomStopsProbes ==
    ASSUME NEW cap \in Nat, NEW e, NEW k \in Keys, Cardinality(Used(e, cap)) <= cap
    PROVE  Terminates(e, cap, k)
<1>1. Used(e, cap) # 0..cap
  BY FS_Interval
<1>2. PICK i \in 0..cap : e[i] = Empty
  BY <1>1 DEF Used
<1>3. PICK d \in 0..cap : Probe(k, cap, d) = i
  BY ProbeOnto
<1> QED  BY <1>2, <1>3 DEF Terminates, Stops

LEMMA UsedAfterStore ==
    ASSUME NEW cap \in Nat, NEW e \in [0..cap -> Slot], NEW i \in 0..cap,
           NEW s \in Slot, s # Empty
    PROVE  Cardinality(Used([e EXCEPT ![i] = s], cap)) =
               IF e[i] = Empty THEN Cardinality(Used(e, cap)) + 1 ELSE Cardinality(Used(e, cap))
<1>1. Used([e EXCEPT ![i] = s], cap) = Used(e, cap) \cup {i}
  BY DEF Used
<1>2. i \in Used(e, cap) <=> e[i] # Empty
  BY DEF Used
<1> QED  BY <1>1, <1>2, UsedBound, FS_AddElement

-----------------------------------------------------------------------------
(* A call of jml_hashmap_set that found the table too full, until the larger
   array is in place.                                                      *)
Growing == pc \in {"alloc", "collected", "rehash"} \/ back = "collected"

SetInv ==
    /\ Growing => key \in Keys /\ mask = Grow(capacity + 1) - 1
    /\ pc = "place" => key \in Keys /\ 4 * (count + 1) <= 3 * (capacity + 1)

(* The new array holds what the old one has before the place the loop is
   at, and no tombstone.                                                   *)
CopyInv ==
    pc = "rehash" =>
        /\ idx <= capacity + 1
        /\ count = Cardinality(Used(fresh, mask)) /\ count <= idx
        /\ FoundWhereStored(fresh, mask)
        /\ \A j \in 0..mask : fresh[j] # Empty =>
              \E m \in 0..(idx - 1) : fresh[j] = entries[m] /\ entries[m].key # NoKey
        /\ \A m \in 0..(idx - 1) : entries[m].key # NoKey =>
              \E j \in 0..mask : fresh[j] = entries[m]

(* Before the place the removal is at no key is unmarked. *)
WhiteInv ==
    IF pc = "white" THEN /\ idx <= capacity + 1
                         /\ \A m \in 0..(idx - 1) : entries[m].key \notin white
                    ELSE white = {} /\ back = "idle"

(* The inductive invariant.  A table has no array or at least two slots, so
   one that is three quarters full has an empty slot.                      *)
HInv ==
    /\ TypeOK
    /\ capacity = -1 \/ capacity + 1 >= MapMin
    /\ FoundWhereStored(entries, capacity)
    /\ pc # "rehash" => /\ count = Cardinality(Used(entries, capacity))
                        /\ 4 * count <= 3 * (capacity + 1)
    /\ SetInv /\ CopyInv /\ WhiteInv

LEMMA NoArrayFacts ==
    /\ NoArray \in [0..-1 -> Slot]
    /\ Used(NoArray, -1) = {} /\ Cardinality(Used(NoArray, -1)) = 0
    /\ FoundWhereStored(NoArray, -1)
<1>1. 0..-1 = {}
  OBVIOUS
<1>2. Used(NoArray, -1) = {} /\ FoundWhereStored(NoArray, -1)
  BY <1>1 DEF Used, FoundWhereStored
<1> QED  BY <1>1, <1>2, FS_EmptySet DEF NoArray

LEMMA HInvInit == Init => HInv
<1> SUFFICES ASSUME Init PROVE HInv
  OBVIOUS
<1>1. TypeOK
  BY NoArrayFacts DEF Init, TypeOK, Values
<1>2. capacity = -1 /\ count = Cardinality(Used(entries, capacity)) /\ 4 * count <= 3 * (capacity + 1)
  BY NoArrayFacts DEF Init
<1>3. FoundWhereStored(entries, capacity)
  BY NoArrayFacts DEF Init
<1> QED  BY <1>1, <1>2, <1>3 DEF Init, HInv, SetInv, CopyInv, WhiteInv, Growing

LEMMA GrowType ==
    ASSUME NEW c \in Nat \cup {-1}, c = -1 \/ c + 1 >= MapMin
    PROVE  /\ Grow(c + 1) \in Nat /\ Grow(c + 1) - 1 \in Nat /\ Grow(c + 1) - 1 >= 1
           /\ c + 1 <= Grow(c + 1) - 1
           /\ 4 * (c + 2) <= 3 * Grow(c + 1)
BY HashmapAssumption DEF Grow

(* Free slots are left wherever a call probes. *)
LEMMA IdleProbesEnd ==
    ASSUME HInv, pc # "rehash", count # 0, NEW k \in Keys
    PROVE  capacity \in Nat /\ entries \in [0..capacity -> Slot] /\ Terminates(entries, capacity, k)
<1>1. /\ count \in Nat /\ capacity \in Nat \cup {-1} /\ count = Cardinality(Used(entries, capacity))
      /\ 4 * count <= 3 * (capacity + 1) /\ entries \in [0..capacity -> Slot]
  BY DEF HInv, TypeOK
<1>2. capacity \in Nat /\ Cardinality(Used(entries, capacity)) <= capacity
  BY <1>1
<1> QED  BY <1>1, <1>2, RoomStopsProbes

LEMMA PlaceProbeEnds ==
    ASSUME HInv, pc = "place", NEW k \in Keys
    PROVE  capacity \in Nat /\ entries \in [0..capacity -> Slot] /\ Terminates(entries, capacity, k)
<1>1. /\ count \in Nat /\ capacity \in Nat \cup {-1} /\ count = Cardinality(Used(entries, capacity))
      /\ 4 * (count + 1) <= 3 * (capacity + 1) /\ entries \in [0..capacity -> Slot]
  BY DEF HInv, TypeOK, SetInv
<1>2. capacity \in Nat /\ Cardinality(Used(entries, capacity)) <= capacity
  BY <1>1
<1> QED  BY <1>1, <1>2, RoomStopsProbes

LEMMA RehashProbeEnds ==
    ASSUME HInv, pc = "rehash", NEW k \in Keys
    PROVE  mask \in Nat /\ fresh \in [0..mask -> Slot] /\ Terminates(fresh, mask, k)
<1>1. /\ count \in Nat /\ capacity \in Nat \cup {-1} /\ idx \in Nat
      /\ capacity = -1 \/ capacity + 1 >= MapMin
      /\ mask = Grow(capacity + 1) - 1 /\ count = Cardinality(Used(fresh, mask))
      /\ count <= idx /\ idx <= capacity + 1 /\ fresh \in [0..mask -> Slot]
  BY DEF HInv, TypeOK, SetInv, CopyInv, Growing
<1>2. mask \in Nat /\ Cardinality(Used(fresh, mask)) <= mask
  BY <1>1, GrowType
<1> QED  BY <1>1, <1>2, RoomStopsProbes

-----------------------------------------------------------------------------
(* A tombstone in an occupied place keeps what the invariant says of the
   table.                                                                  *)
LEMMA BuryFacts ==
    ASSUME HInv, pc # "rehash", count # 0, NEW k \in Keys,
           entries[FindEntry(entries, capacity, k)].key # NoKey
    PROVE  LET i == FindEntry(entries, capacity, k)
               e == [entries EXCEPT ![i] = Tombstone]
           IN  /\ i \in 0..capacity /\ entries[i].key = k
               /\ e \in [0..capacity -> Slot]
               /\ FoundWhereStored(e, capacity)
               /\ count = Cardinality(Used(e, capacity))
<1> DEFINE i == FindEntry(entries, capacity, k)
           e == [entries EXCEPT ![i] = Tombstone]
<1>1. capacity \in Nat /\ entries \in [0..capacity -> Slot] /\ Terminates(entries, capacity, k)
  BY IdleProbesEnd
<1>2. i \in 0..capacity /\ entries[i].key = k
  BY <1>1, FindEntryType
<1> HIDE DEF i
<1>3. e \in [0..capacity -> Slot]
  BY <1>1, <1>2, SlotTypes
<1>4. FoundWhereStored(e, capacity)
  BY <1>1, <1>2, BuryKeepsFound DEF HInv
<1>5. entries[i] # Empty
  BY <1>1, <1>2, SlotTypes
<1>6. Cardinality(Used(e, capacity)) = Cardinality(Used(entries, capacity))
  BY <1>1, <1>2, <1>5, SlotTypes, UsedAfterStore
<1> QED  BY <1>2, <1>3, <1>4, <1>6 DEF HInv, i

LEMMA SetPreserves ==
    ASSUME HInv, NEW k \in Keys, NEW v \in Values, Set(k, v)
    PROVE  HInv'
<1>1. TypeOK /\ pc = "idle" /\ back = "idle" /\ white = {}
  BY DEF HInv, Set, WhiteInv
<1>2. CASE Full
  <2>1. pc' = "alloc" /\ mask' = Grow(capacity + 1) - 1 /\ key' = k /\ value' = v
    BY <1>2 DEF Set
  <2>2. UNCHANGED <<count, capacity, entries, back, fresh, idx, white, ret>>
    BY DEF Set, map
  <2>3. mask' \in Nat
    BY <2>1, GrowType DEF HInv, TypeOK
  <2>4. TypeOK'
    BY <1>1, <2>1, <2>2, <2>3 DEF TypeOK
  <2> QED  BY <1>1, <2>1, <2>2, <2>4 DEF HInv, SetInv, CopyInv, WhiteInv, Growing
<1>3. CASE ~Full
  <2>1. pc' = "place" /\ mask' = mask /\ key' = k /\ value' = v
    BY <1>3 DEF Set
  <2>2. UNCHANGED <<count, capacity, entries, back, fresh, idx, white, ret>>
    BY DEF Set, map
  <2>3. TypeOK'
    BY <1>1, <2>1, <2>2 DEF TypeOK
  <2>4. 4 * (count + 1) <= 3 * (capacity + 1)
    BY <1>1, <1>3 DEF Full, TypeOK
  <2> QED  BY <1>1, <2>1, <2>2, <2>3, <2>4 DEF HInv, SetInv, CopyInv, WhiteInv, Growing
<1> QED  BY <1>2, <1>3

LEMMA LookupPreserves ==
    ASSUME HInv, NEW k \in Keys, Lookup(k), ret' \in Values \cup {Missing} \cup BOOLEAN,
           \/ UNCHANGED entries
           \/ Found(k) /\ Bury(k)
    PROVE  HInv'
<1>1. /\ TypeOK /\ pc = "idle" /\ back = "idle" /\ white = {}
      /\ UNCHANGED <<count, capacity, pc, back, key, value, fresh, mask, idx, white>>
  BY DEF HInv, Lookup, grow, WhiteInv
<1>2. /\ entries' \in [0..capacity -> Slot] /\ FoundWhereStored(entries', capacity)
      /\ count = Cardinality(Used(entries', capacity))
  <2>1. CASE UNCHANGED entries
    BY <1>1, <2>1 DEF HInv, TypeOK
  <2>2. CASE Found(k) /\ Bury(k)
    BY <1>1, <2>2, BuryFacts DEF Found, Bury
  <2> QED  BY <2>1, <2>2
<1>3. TypeOK'
  BY <1>1, <1>2 DEF TypeOK
<1> QED  BY <1>1, <1>2, <1>3 DEF HInv, SetInv, CopyInv, WhiteInv, Growing

LEMMA FoundType ==
    ASSUME HInv, pc = "idle", NEW k \in Keys, Found(k)
    PROVE  entries[FindEntry(entries, capacity, k)].value \in Values
<1>1. capacity \in Nat /\ entries \in [0..capacity -> Slot] /\ Terminates(entries, capacity, k)
  BY IdleProbesEnd DEF Found
<1> QED  BY <1>1, FindEntryType DEF Slot

LEMMA GetPreserves ==
    ASSUME HInv, NEW k \in Keys, Get(k)
    PROVE  HInv'
BY FoundType, LookupPreserves DEF Get, Lookup

LEMMA PopPreserves ==
    ASSUME HInv, NEW k \in Keys, Pop(k)
    PROVE  HInv'
BY FoundType, LookupPreserves DEF Pop, Lookup

LEMMA DelPreserves ==
    ASSUME HInv, NEW k \in Keys, Del(k)
    PROVE  HInv'
<1>1. Found(k) \in BOOLEAN
  BY DEF Found
<1> QED  BY <1>1, LookupPreserves DEF Del

LEMMA FreePreserves ==
    ASSUME HInv, Free
    PROVE  HInv'
<1>1. /\ TypeOK /\ pc = "idle" /\ back = "idle" /\ white = {}
      /\ count' = 0 /\ capacity' = -1 /\ entries' = NoArray
      /\ UNCHANGED <<pc, back, key, value, fresh, mask, idx, white, ret>>
  BY DEF HInv, Free, grow, WhiteInv
<1>2. TypeOK'
  BY <1>1, NoArrayFacts DEF TypeOK
<1> QED  BY <1>1, <1>2, NoArrayFacts DEF HInv, SetInv, CopyInv, WhiteInv, Growing

LEMMA CollectPreserves ==
    ASSUME HInv, NEW w \in SUBSET Keys, Collect(w)
    PROVE  HInv'
<1>1. /\ TypeOK /\ pc \in {"idle", "alloc"} /\ pc' = "white" /\ white' = w /\ idx' = 0
      /\ back' = IF pc = "idle" THEN "idle" ELSE "collected"
      /\ UNCHANGED <<count, capacity, entries, key, value, fresh, mask, ret>>
  BY DEF HInv, Collect, map
<1>2. TypeOK'
  BY <1>1 DEF TypeOK
<1>3. 0 <= capacity + 1
  BY <1>1 DEF TypeOK
<1> QED  BY <1>1, <1>2, <1>3 DEF HInv, SetInv, CopyInv, WhiteInv, Growing

LEMMA AllocatedPreserves ==
    ASSUME HInv, Allocated
    PROVE  HInv'
<1>1. /\ TypeOK /\ pc \in {"alloc", "collected"} /\ back = "idle" /\ white = {}
      /\ fresh' = [i \in 0..mask |-> Empty] /\ count' = 0 /\ idx' = 0 /\ pc' = "rehash"
      /\ UNCHANGED <<capacity, entries, back, key, value, mask, white, ret>>
  BY DEF HInv, Allocated, WhiteInv
<1>2. mask \in Nat /\ key \in Keys /\ mask = Grow(capacity + 1) - 1
  BY <1>1, GrowType DEF HInv, TypeOK, SetInv, Growing
<1>3. fresh' \in [0..mask -> Slot]
  BY <1>1, SlotTypes
<1>4. TypeOK'
  BY <1>1, <1>3 DEF TypeOK
<1>5. \A j \in 0..mask : fresh'[j] = Empty /\ fresh'[j].key = NoKey
  BY <1>1 DEF Empty
<1>6. Used(fresh', mask) = {}
  BY <1>5 DEF Used
<1>7. FoundWhereStored(fresh', mask)
  BY <1>5 DEF FoundWhereStored
<1>8. CopyInv'
  <2>1. 0 <= capacity + 1
    BY <1>1 DEF TypeOK
  <2>2. count' = Cardinality(Used(fresh', mask'))
    <3>1. Cardinality(Used(fresh', mask)) = 0
      BY <1>6, FS_EmptySet
    <3> QED  BY <1>1, <3>1
  <2>3. count' <= idx' /\ idx' <= capacity' + 1
    BY <1>1, <2>1
  <2>4. \A m \in 0..(idx' - 1) : FALSE
    BY <1>1
  <2>5. FoundWhereStored(fresh', mask') /\ \A j \in 0..mask' : fresh'[j] = Empty
    BY <1>1, <1>5, <1>7
  <2> QED  BY <2>2, <2>3, <2>4, <2>5 DEF CopyInv
<1>9. SetInv' /\ WhiteInv'
  BY <1>1, <1>2 DEF SetInv, WhiteInv, Growing
<1> QED  BY <1>1, <1>4, <1>8, <1>9 DEF HInv

(* A slot of the old array that is copied fills an empty slot of the new
   one: no key is copied twice.                                            *)
LEMMA RehashFills ==
    ASSUME HInv, pc = "rehash", idx <= capacity, entries[idx].key # NoKey
    PROVE  LET i == FindEntry(fresh, mask, entries[idx].key)
           IN  i \in 0..mask /\ fresh[i] = Empty
<1> DEFINE k == entries[idx].key
           i == FindEntry(fresh, mask, k)
<1>1. capacity \in Nat /\ idx \in 0..capacity /\ entries \in [0..capacity -> Slot]
  BY DEF HInv, TypeOK
<1>2. k \in Keys
  BY <1>1 DEF Slot
<1>3. mask \in Nat /\ fresh \in [0..mask -> Slot] /\ i \in 0..mask /\ fresh[i].key \in {k, NoKey}
  BY <1>2, RehashProbeEnds, FindEntryType
<1> HIDE DEF i
<1>4. ASSUME fresh[i] # Empty
      PROVE  FALSE
  <2>1. PICK m \in 0..(idx - 1) : fresh[i] = entries[m] /\ entries[m].key # NoKey
    BY <1>3, <1>4 DEF HInv, CopyInv
  <2>2. entries[m].key = entries[idx].key
    BY <1>3, <2>1
  <2>3. m = idx
    BY <1>1, <2>1, <2>2 DEF HInv, FoundWhereStored
  <2> QED  BY <1>1, <2>1, <2>3
<1> QED  BY <1>3, <1>4 DEF i

LEMMA RehashPreserves ==
    ASSUME HInv, Rehash
    PROVE  HInv'
<1>1. /\ TypeOK /\ pc = "rehash" /\ pc' = "rehash" /\ idx <= capacity /\ idx' = idx + 1
      /\ UNCHANGED <<capacity, entries, back, key, value, mask, white, ret>>
  BY DEF HInv, Rehash
<1>2. /\ idx \in Nat /\ capacity \in Nat /\ idx' \in Nat /\ idx' <= capacity + 1 /\ count \in Nat
      /\ entries \in [0..capacity -> Slot] /\ fresh \in [0..mask -> Slot] /\ mask \in Nat
  BY <1>1, GrowType DEF TypeOK, HInv, SetInv, Growing
<1>3. 0..(idx' - 1) = 0..(idx - 1) \cup {idx}
  BY <1>1, <1>2
<1>4. /\ count = Cardinality(Used(fresh, mask)) /\ count <= idx
      /\ FoundWhereStored(fresh, mask)
      /\ \A j \in 0..mask : fresh[j] # Empty =>
              \E m \in 0..(idx - 1) : fresh[j] = entries[m] /\ entries[m].key # NoKey
      /\ \A m \in 0..(idx - 1) : entries[m].key # NoKey => \E j \in 0..mask : fresh[j] = entries[m]
  BY <1>1 DEF HInv, CopyInv
<1>5. SetInv' /\ WhiteInv'
  BY <1>1 DEF HInv, SetInv, WhiteInv, Growing
<1>6. CASE entries[idx].key = NoKey
  <2>1. UNCHANGED <<fresh, count>>
    BY <1>6 DEF Rehash
  <2>2. CopyInv'
    BY <1>1, <1>2, <1>3, <1>4, <1>6, <2>1 DEF CopyInv
  <2>3. TypeOK'
    BY <1>1, <1>2, <2>1 DEF TypeOK
  <2> QED  BY <1>1, <1>5, <2>2, <2>3 DEF HInv
<1>7. CASE entries[idx].key # NoKey
  <2> DEFINE k == entries[idx].key
             i == FindEntry(fresh, mask, k)
  <2>1. fresh' = [fresh EXCEPT ![i] = entries[idx]] /\ count' = count + 1
    BY <1>7 DEF Rehash
  <2>2. i \in 0..mask /\ fresh[i] = Empty
    BY <1>1, <1>7, RehashFills
  <2>3. entries[idx] \in Slot /\ k \in Keys /\ entries[idx] # Empty
    BY <1>1, <1>2, <1>7, SlotTypes DEF Slot
  <2>4. FoundWhereStored(fresh', mask)
    BY <1>1, <1>2, <1>4, <2>1, <2>3, RehashProbeEnds, StoreKeepsFound
  <2> HIDE DEF i, k
  <2>5. count' = Cardinality(Used(fresh', mask))
    BY <1>2, <1>4, <2>1, <2>2, <2>3, UsedAfterStore
  <2>6. fresh' \in [0..mask -> Slot] /\ fresh'[i] = entries[idx]
        /\ \A j \in 0..mask : j # i => fresh'[j] = fresh[j]
    BY <1>2, <2>1, <2>2, <2>3
  <2>7. \A j \in 0..mask : fresh'[j] # Empty =>
            \E m \in 0..(idx' - 1) : fresh'[j] = entries[m] /\ entries[m].key # NoKey
    BY <1>3, <1>4, <1>7, <2>6
  <2>8. \A m \in 0..(idx' - 1) : entries[m].key # NoKey => \E j \in 0..mask : fresh'[j] = entries[m]
    <3> SUFFICES ASSUME NEW m \in 0..(idx' - 1), entries[m].key # NoKey
                 PROVE  \E j \in 0..mask : fresh'[j] = entries[m]
      OBVIOUS
    <3>1. CASE m = idx
      BY <2>2, <2>6, <3>1
    <3>2. CASE m \in 0..(idx - 1)
      <4>1. PICK j \in 0..mask : fresh[j] = entries[m]
        BY <1>4, <3>2
      <4>2. j # i
        BY <2>2, <4>1 DEF Empty
      <4> QED  BY <2>6, <4>1, <4>2
    <3> QED  BY <1>3, <3>1, <3>2
  <2>9. CopyInv'
    BY <1>1, <1>2, <1>4, <2>1, <2>4, <2>5, <2>7, <2>8 DEF CopyInv
  <2>10. TypeOK'
    BY <1>1, <1>2, <2>1, <2>6 DEF TypeOK
  <2> QED  BY <1>1, <1>5, <2>9, <2>10 DEF HInv
<1> QED  BY <1>6, <1>7

LEMMA InstallPreserves ==
    ASSUME HInv, Install
    PROVE  HInv'
<1>1. /\ TypeOK /\ pc = "rehash" /\ pc' = "place" /\ idx > capacity
      /\ entries' = fresh /\ capacity' = mask /\ fresh' = NoArray /\ mask' = -1 /\ idx' = 0
      /\ UNCHANGED <<count, back, key, value, white, ret>>
  BY DEF HInv, Install
<1>2. /\ idx \in Nat /\ count \in Nat /\ capacity \in Nat \cup {-1}
      /\ capacity = -1 \/ capacity + 1 >= MapMin
      /\ mask = Grow(capacity + 1) - 1 /\ key \in Keys /\ back = "idle" /\ white = {}
      /\ idx <= capacity + 1 /\ count <= idx
      /\ count = Cardinality(Used(fresh, mask)) /\ FoundWhereStored(fresh, mask)
  BY <1>1 DEF HInv, TypeOK, SetInv, CopyInv, WhiteInv, Growing
<1>3. mask \in Nat /\ mask + 1 >= MapMin /\ 4 * (count + 1) <= 3 * (mask + 1) /\ MapMin \in Nat
  <2>1. mask \in Nat /\ 4 * (capacity + 2) <= 3 * (mask + 1)
    BY <1>2, GrowType
  <2>2. mask + 1 >= MapMin /\ MapMin \in Nat
    BY <1>2, HashmapAssumption DEF Grow
  <2> QED  BY <1>2, <2>1, <2>2
<1>4. TypeOK'
  BY <1>1, <1>3, NoArrayFacts DEF TypeOK
<1>5. 4 * count <= 3 * (mask + 1)
  BY <1>2, <1>3
<1> QED  BY <1>1, <1>2, <1>3, <1>4, <1>5 DEF HInv, SetInv, CopyInv, WhiteInv, Growing

LEMMA PlacePreserves ==
    ASSUME HInv, Place
    PROVE  HInv'
<1> DEFINE i == FindEntry(entries, capacity, key)
           s == [key |-> key, value |-> value]
<1>1. /\ TypeOK /\ pc = "place" /\ pc' = "idle" /\ key' = NoKey /\ value' = NoneVal
      /\ entries' = [entries EXCEPT ![i] = s] /\ ret' = (entries[i].key = NoKey)
      /\ count' = IF entries[i] = Empty THEN count + 1 ELSE count
      /\ UNCHANGED <<capacity, back, fresh, mask, idx, white>>
  BY DEF HInv, Place, grow
<1>2. /\ key \in Keys /\ 4 * (count + 1) <= 3 * (capacity + 1) /\ back = "idle" /\ white = {}
      /\ count = Cardinality(Used(entries, capacity)) /\ FoundWhereStored(entries, capacity)
  BY <1>1 DEF HInv, SetInv, WhiteInv
<1>3. capacity \in Nat /\ entries \in [0..capacity -> Slot] /\ Terminates(entries, capacity, key)
  BY <1>1, <1>2, PlaceProbeEnds
<1>4. i \in 0..capacity
  BY <1>2, <1>3, FindEntryType
<1>5. s \in Slot /\ s # Empty
  BY <1>1, <1>2, SlotTypes DEF TypeOK, Slot
<1>6. FoundWhereStored(entries', capacity)
  BY <1>1, <1>2, <1>3, <1>5, StoreKeepsFound
<1> HIDE DEF i, s
<1>7. count' = Cardinality(Used(entries', capacity))
  <2>1. Cardinality(Used([entries EXCEPT ![i] = s], capacity)) =
            IF entries[i] = Empty THEN Cardinality(Used(entries, capacity)) + 1
            ELSE Cardinality(Used(entries, capacity))
    BY <1>3, <1>4, <1>5, UsedAfterStore
  <2> QED  BY <1>1, <1>2, <2>1
<1>8. count' \in Nat /\ 4 * count' <= 3 * (capacity + 1)
  BY <1>1, <1>2, <1>3 DEF TypeOK
<1>9. entries' \in [0..capacity -> Slot]
  BY <1>1, <1>3, <1>4, <1>5
<1>10. TypeOK'
  BY <1>1, <1>8, <1>9 DEF TypeOK, Values
<1> QED  BY <1>1, <1>2, <1>6, <1>7, <1>8, <1>10 DEF HInv, SetInv, CopyInv, WhiteInv, Growing

(* The key the removal is at is found again where it is. *)
LEMMA WhiteIsBuried ==
    ASSUME HInv, pc = "white", idx <= capacity, entries[idx].key \in white
    PROVE  count # 0 /\ FindEntry(entries, capacity, entries[idx].key) = idx
<1>1. /\ capacity \in Nat /\ idx \in 0..capacity /\ entries \in [0..capacity -> Slot]
      /\ white \subseteq Keys
  BY DEF HInv, TypeOK
<1>2. entries[idx].key # NoKey /\ entries[idx] # Empty
  BY <1>1, HashmapAssumption, SlotTypes
<1>3. idx \in Used(entries, capacity)
  BY <1>1, <1>2 DEF Used
<1>4. count # 0
  BY <1>3, <1>1, UsedBound, FS_EmptySet DEF HInv
<1> QED  BY <1>1, <1>2, <1>4 DEF HInv, FoundWhereStored

LEMMA RemoveWhitePreserves ==
    ASSUME HInv, RemoveWhite
    PROVE  HInv'
<1>1. /\ TypeOK /\ pc = "white" /\ idx <= capacity /\ idx' = idx + 1
      /\ UNCHANGED <<count, capacity, pc, back, key, value, fresh, mask, white, ret>>
  BY DEF HInv, RemoveWhite
<1>2. /\ capacity \in Nat /\ idx \in 0..capacity /\ idx' \in Nat /\ idx' <= capacity + 1
      /\ entries \in [0..capacity -> Slot] /\ white \subseteq Keys
      /\ \A m \in 0..(idx - 1) : entries[m].key \notin white
  BY <1>1 DEF HInv, TypeOK, WhiteInv
<1>3. 0..(idx' - 1) = 0..(idx - 1) \cup {idx}
  BY <1>1, <1>2
<1>4. CASE entries[idx].key \in white
  <2>1. count # 0 /\ FindEntry(entries, capacity, entries[idx].key) = idx
    BY <1>1, <1>4, WhiteIsBuried
  <2>2. entries' = [entries EXCEPT ![idx] = Tombstone]
    BY <1>4, <2>1 DEF RemoveWhite, Bury
  <2>3. entries[idx].key \in Keys /\ entries[idx].key # NoKey
    BY <1>2, <1>4, HashmapAssumption
  <2>4. /\ entries' \in [0..capacity -> Slot] /\ FoundWhereStored(entries', capacity)
        /\ count = Cardinality(Used(entries', capacity))
    BY <1>1, <2>1, <2>2, <2>3, BuryFacts
  <2>5. \A m \in 0..(idx' - 1) : entries'[m].key \notin white
    <3>1. entries'[idx].key = NoKey
      BY <1>2, <2>2 DEF Tombstone
    <3>2. \A m \in 0..(idx - 1) : entries'[m] = entries[m]
      BY <1>2, <2>2
    <3> QED  BY <1>2, <1>3, <3>1, <3>2, HashmapAssumption
  <2>6. TypeOK'
    BY <1>1, <1>2, <2>4 DEF TypeOK
  <2> QED  BY <1>1, <1>2, <2>4, <2>5, <2>6 DEF HInv, SetInv, CopyInv, WhiteInv, Growing
<1>5. CASE entries[idx].key \notin white
  <2>1. UNCHANGED entries
    BY <1>5 DEF RemoveWhite
  <2>2. \A m \in 0..(idx' - 1) : entries'[m].key \notin white
    BY <1>2, <1>3, <1>5, <2>1
  <2>3. TypeOK'
    BY <1>1, <1>2, <2>1 DEF TypeOK
  <2> QED  BY <1>1, <1>2, <2>1, <2>2, <2>3 DEF HInv, SetInv, CopyInv, WhiteInv, Growing
<1> QED  BY <1>4, <1>5

LEMMA CollectedPreserves ==
    ASSUME HInv, Collected
    PROVE  HInv'
<1>1. /\ TypeOK /\ pc = "white" /\ pc' = back /\ back' = "idle" /\ white' = {} /\ idx' = 0
      /\ UNCHANGED <<count, capacity, entries, key, value, fresh, mask, ret>>
  BY DEF HInv, Collected, map
<1>2. TypeOK'
  BY <1>1 DEF TypeOK
<1> QED  BY <1>1, <1>2 DEF HInv, SetInv, CopyInv, WhiteInv, Growing, TypeOK

THEOREM HInvHolds == Spec => []HInv
<1>1. Init => HInv
  BY HInvInit
<1>2. HInv /\ [Next]_vars => HInv'
  <2> SUFFICES ASSUME HInv, [Next]_vars PROVE HInv'
    OBVIOUS
  <2>1. CASE Next
    BY <2>1, SetPreserves, GetPreserves, PopPreserves, DelPreserves, FreePreserves,
       CollectPreserves, AllocatedPreserves, RehashPreserves, InstallPreserves,
       PlacePreserves, RemoveWhitePreserves, CollectedPreserves DEF Next
  <2>2. CASE UNCHANGED vars
    BY <2>2 DEF vars, map, grow, HInv, TypeOK, SetInv, CopyInv, WhiteInv, Growing
  <2> QED  BY <2>1, <2>2
<1> QED  BY <1>1, <1>2, PTL DEF Spec

-----------------------------------------------------------------------------
(* The table keeps its types: the count a natural number, the arrays as long
   as the masks say.                                                       *)
THEOREM TypesHold == Spec => []TypeOK
<1>1. HInv => TypeOK
  BY DEF HInv
<1> QED  BY <1>1, HInvHolds, PTL

(* jml_hashmap_find_entry, whose loop has no bound, comes to an end whenever
   a call or a growth starts it, whatever was set and deleted before.      *)
THEOREM ProbesTerminate == Spec => []ProbeTerminates
<1>1. ASSUME HInv PROVE ProbeTerminates
  BY <1>1, IdleProbesEnd, PlaceProbeEnds, RehashProbeEnds DEF ProbeTerminates, HInv, SetInv
<1> QED  BY <1>1, HInvHolds, PTL

(* A key that is stored is found in its slot, in the array that is being
   filled too.                                                             *)
THEOREM KeysStayFound == Spec => []KeysAreFound
<1>1. HInv => KeysAreFound
  BY DEF HInv, CopyInv, KeysAreFound
<1> QED  BY <1>1, HInvHolds, PTL

(* `count` is the number of slots in use, tombstones included, and a table
   is never more than three quarters full between calls.                   *)
THEOREM CountsStayExact == Spec => []CountIsExact
<1>1. HInv => CountIsExact
  BY DEF HInv, CopyInv, CountIsExact
<1> QED  BY <1>1, HInvHolds, PTL

-----------------------------------------------------------------------------
(* The dictionary an array stands for. *)
ContentsOf(e, cap) ==
    [k \in Keys |->
        IF \E i \in 0..cap : e[i].key = k
        THEN e[CHOOSE i \in 0..cap : e[i].key = k].value
        ELSE Missing]

LEMMA ContentsAt ==
    ASSUME NEW e, NEW cap, KeysDistinct(e, cap), NEW i \in 0..cap, e[i].key \in Keys
    PROVE  ContentsOf(e, cap)[e[i].key] = e[i].value
<1> DEFINE k == e[i].key
           j == CHOOSE m \in 0..cap : e[m].key = k
<1>1. j \in 0..cap /\ e[j].key = k
  OBVIOUS
<1>2. j = i
  BY <1>1, HashmapAssumption DEF KeysDistinct
<1> QED  BY <1>2 DEF ContentsOf

LEMMA ContentsMissing ==
    ASSUME NEW e, NEW cap, NEW k \in Keys, \A i \in 0..cap : e[i].key # k
    PROVE  ContentsOf(e, cap)[k] = Missing
BY DEF ContentsOf

(* What a lookup finds is what the dictionary says. *)
LEMMA ContentsFound ==
    ASSUME NEW cap \in Nat, NEW e \in [0..cap -> Slot], FoundWhereStored(e, cap),
           NEW k \in Keys, Terminates(e, cap, k)
    PROVE  LET i == FindEntry(e, cap, k)
           IN  IF e[i].key = NoKey THEN ContentsOf(e, cap)[k] = Missing
               ELSE ContentsOf(e, cap)[k] = e[i].value /\ e[i].value # Missing
<1> DEFINE i == FindEntry(e, cap, k)
<1>1. i \in 0..cap /\ e[i].key \in {k, NoKey}
  BY FindEntryType
<1>2. KeysDistinct(e, cap)
  BY FoundIsPlaced
<1>3. CASE e[i].key = NoKey
  <2>1. \A j \in 0..cap : e[j].key # k
    BY <1>3, HashmapAssumption DEF FoundWhereStored
  <2> QED  BY <1>3, <2>1, ContentsMissing
<1>4. CASE e[i].key = k
  <2>1. e[i].value \in Values
    BY <1>1 DEF Slot
  <2> HIDE DEF i
  <2>2. ContentsOf(e, cap)[k] = e[i].value
    BY <1>1, <1>2, <1>4, ContentsAt
  <2> QED  BY <1>4, <2>1, <2>2, HashmapAssumption DEF i
<1> QED  BY <1>1, <1>3, <1>4

(* Storing s under its key, or a tombstone in place of it, changes the
   dictionary there and nowhere else.                                      *)
LEMMA ContentsStored ==
    ASSUME NEW cap \in Nat, NEW e \in [0..cap -> Slot], KeysDistinct(e, cap),
           NEW k \in Keys, NEW i \in 0..cap, e[i].key \in {k, NoKey},
           \A j \in 0..cap : e[j].key = k => j = i,
           NEW s \in Slot, s.key \in {k, NoKey},
           NEW f, f[i] = s, \A j \in 0..cap : j # i => f[j] = e[j], KeysDistinct(f, cap)
    PROVE  ContentsOf(f, cap) =
               [ContentsOf(e, cap) EXCEPT ![k] = IF s.key = k THEN s.value ELSE Missing]
<1>1. KeysDistinct(f, cap) /\ f[i] = s /\ \A j \in 0..cap : j # i => f[j] = e[j]
  OBVIOUS
<1>2. NoKey \notin Keys
  BY HashmapAssumption
<1>3. ASSUME NEW x \in Keys, x # k
      PROVE  ContentsOf(f, cap)[x] = ContentsOf(e, cap)[x]
  <2>1. \A j \in 0..cap : f[j].key = x => e[j] = f[j]
    BY <1>1, <1>2, <1>3
  <2>2. \A j \in 0..cap : e[j].key = x => f[j] = e[j]
    BY <1>1, <1>2, <1>3
  <2>3. CASE \E j \in 0..cap : e[j].key = x
    <3>1. PICK j \in 0..cap : e[j].key = x
      BY <2>3
    <3>2. f[j] = e[j] /\ f[j].key = x
      BY <2>2, <3>1
    <3> QED  BY <1>1, <3>1, <3>2, ContentsAt
  <2>4. CASE \A j \in 0..cap : e[j].key # x
    <3>1. \A j \in 0..cap : f[j].key # x
      BY <2>1, <2>4
    <3> QED  BY <2>4, <3>1, ContentsMissing
  <2> QED  BY <2>3, <2>4
<1>4. ContentsOf(f, cap)[k] = IF s.key = k THEN s.value ELSE Missing
  <2>1. CASE s.key = k
    <3>1. f[i].key = k /\ f[i].value = s.value
      BY <1>1, <2>1
    <3>2. ContentsOf(f, cap)[f[i].key] = f[i].value
      BY <1>1, <3>1, ContentsAt
    <3> QED  BY <2>1, <3>1, <3>2
  <2>2. CASE s.key # k
    <3>1. \A j \in 0..cap : f[j].key # k
      BY <1>1, <1>2, <2>2
    <3> QED  BY <2>2, <3>1, ContentsMissing
  <2> QED  BY <2>1, <2>2
<1>5. /\ ContentsOf(f, cap) = [x \in Keys |-> ContentsOf(f, cap)[x]]
      /\ ContentsOf(e, cap) = [x \in Keys |-> ContentsOf(e, cap)[x]]
  BY DEF ContentsOf
<1> QED  BY <1>3, <1>4, <1>5

-----------------------------------------------------------------------------
(* Every step of the table is a step of the dictionary or none at all. *)

LEMMA ContentsIs ==
    /\ Contents = ContentsOf(entries, capacity)
    /\ Contents' = ContentsOf(entries', capacity')
BY DEF Contents, ContentsOf

LEMMA LookupRefines ==
    ASSUME HInv, NEW k \in Keys, Lookup(k)
    PROVE  /\ white = {} /\ UNCHANGED <<capacity, white>>
           /\ IF Found(k)
              THEN /\ Contents[k] = entries[FindEntry(entries, capacity, k)].value
                   /\ Contents[k] # Missing
                   /\ Bury(k) => Contents' = [Contents EXCEPT ![k] = Missing]
              ELSE Contents = [Contents EXCEPT ![k] = Missing] /\ Contents[k] = Missing
<1> DEFINE i == FindEntry(entries, capacity, k)
<1>1. /\ pc = "idle" /\ white = {} /\ UNCHANGED <<capacity, white>>
      /\ FoundWhereStored(entries, capacity) /\ count = Cardinality(Used(entries, capacity))
      /\ capacity \in Nat \cup {-1} /\ entries \in [0..capacity -> Slot]
  BY DEF HInv, TypeOK, Lookup, WhiteInv
<1>2. CASE count = 0
  <2>1. ~Found(k)
    BY <1>2 DEF Found
  <2>2. Used(entries, capacity) = {}
    BY <1>1, <1>2, UsedBound, FS_EmptySet
  <2>3. \A j \in 0..capacity : entries[j].key # k
    BY <2>2, HashmapAssumption DEF Used, Empty
  <2>4. Contents[k] = Missing
    BY <2>3, ContentsMissing, ContentsIs
  <2>5. Contents = [Contents EXCEPT ![k] = Missing]
    BY <2>4 DEF Contents
  <2> QED  BY <1>1, <2>1, <2>4, <2>5
<1>3. CASE count # 0
  <2>1. capacity \in Nat /\ Terminates(entries, capacity, k)
    BY <1>1, <1>3, IdleProbesEnd
  <2>2. IF entries[i].key = NoKey THEN Contents[k] = Missing
        ELSE Contents[k] = entries[i].value /\ entries[i].value # Missing
    BY <1>1, <2>1, ContentsFound, ContentsIs
  <2>3. Found(k) <=> entries[i].key # NoKey
    BY <1>3 DEF Found
  <2>4. CASE ~Found(k)
    <3>1. Contents = [Contents EXCEPT ![k] = Missing]
      BY <2>2, <2>3, <2>4 DEF Contents
    <3> QED  BY <1>1, <2>2, <2>3, <2>4, <3>1
  <2>5. CASE Found(k)
    <3>1. ASSUME Bury(k)
          PROVE  Contents' = [Contents EXCEPT ![k] = Missing]
      <4>1. i \in 0..capacity /\ entries[i].key = k /\ FoundWhereStored(entries', capacity)
            /\ entries' = [entries EXCEPT ![i] = Tombstone] /\ entries' \in [0..capacity -> Slot]
        BY <1>1, <1>3, <2>3, <2>5, <3>1, BuryFacts DEF Bury
      <4>2. KeysDistinct(entries, capacity) /\ KeysDistinct(entries', capacity)
        BY <1>1, <2>1, <4>1, FoundIsPlaced
      <4> HIDE DEF i
      <4>3. \A j \in 0..capacity : entries[j].key = k => j = i
        BY <4>1, <4>2, HashmapAssumption DEF KeysDistinct
      <4>4. Tombstone.key = NoKey /\ NoKey # k
        BY HashmapAssumption DEF Tombstone
      <4>5. ContentsOf(entries', capacity) = [ContentsOf(entries, capacity) EXCEPT ![k] = Missing]
        <5>1. Tombstone.key \in {k, NoKey} /\ entries[i].key \in {k, NoKey}
          BY <4>1, <4>4
        <5>2. entries'[i] = Tombstone /\ \A j \in 0..capacity : j # i => entries'[j] = entries[j]
          BY <1>1, <4>1
        <5>3. ContentsOf(entries', capacity) =
                  [ContentsOf(entries, capacity) EXCEPT
                      ![k] = IF Tombstone.key = k THEN Tombstone.value ELSE Missing]
          <6>1. capacity \in Nat /\ entries \in [0..capacity -> Slot] /\ Tombstone \in Slot
            BY <1>1, <2>1, SlotTypes
          <6>2. i \in 0..capacity /\ k \in Keys
            BY <4>1
          <6> QED  BY <4>2, <4>3, <5>1, <5>2, <6>1, <6>2, ContentsStored
        <5> QED  BY <4>4, <5>3
      <4> QED  BY <1>1, <4>5, ContentsIs
    <3> QED  BY <1>1, <2>2, <2>3, <2>5, <3>1
  <2> QED  BY <2>4, <2>5
<1> QED  BY <1>1, <1>2, <1>3

LEMMA CallsRefine ==
    ASSUME HInv, NEW k \in Keys, Get(k) \/ Pop(k) \/ Del(k)
    PROVE  Dict!Get(k) \/ Dict!Pop(k) \/ Dict!Del(k)
<1>1. Lookup(k)
  BY DEF Get, Pop, Del
<1>2. white = {} /\ UNCHANGED white
  BY <1>1, LookupRefines
<1>3. CASE Get(k)
  <2>1. UNCHANGED Contents
    BY <1>1, <1>3, LookupRefines, ZenonT(30) DEF Get, Contents
  <2>2. ret' = Contents[k]
    BY <1>1, <1>3, LookupRefines DEF Get
  <2> QED  BY <1>2, <2>1, <2>2 DEF Dict!Get, Dict!Call
<1>4. CASE ~Found(k) /\ (Pop(k) \/ Del(k))
  <2>1. UNCHANGED <<entries, capacity>>
    BY <1>1, <1>4 DEF Pop, Del, Lookup
  <2>2. UNCHANGED Contents
    BY <2>1 DEF Contents
  <2>3. Contents[k] = Missing /\ Contents' = [Contents EXCEPT ![k] = Missing]
    BY <1>1, <1>4, <2>2, LookupRefines
  <2>4. CASE Pop(k)
    BY <1>2, <1>4, <2>3, <2>4 DEF Pop, Dict!Pop, Dict!Call
  <2>5. CASE Del(k)
    <3>1. ret' = FALSE
      BY <1>4, <2>5 DEF Del, Found
    <3> QED  BY <1>2, <2>3, <3>1 DEF Dict!Del, Dict!Call
  <2> QED  BY <1>4, <2>4, <2>5
<1>5. CASE Found(k) /\ (Pop(k) \/ Del(k))
  <2>1. Bury(k)
    BY <1>5 DEF Pop, Del
  <2>2. /\ Contents' = [Contents EXCEPT ![k] = Missing] /\ Contents[k] # Missing
        /\ Contents[k] = entries[FindEntry(entries, capacity, k)].value
    BY <1>1, <1>5, <2>1, LookupRefines
  <2> QED  BY <1>2, <1>5, <2>2 DEF Pop, Del, Dict!Pop, Dict!Del, Dict!Call
<1> QED  BY <1>3, <1>4, <1>5

LEMMA PlaceRefines ==
    ASSUME HInv, Place
    PROVE  key \in Keys /\ value \in Values /\ Dict!Set(key, value)
<1> DEFINE i == FindEntry(entries, capacity, key)
           s == [key |-> key, value |-> value]
<1>1. /\ value \in Values /\ pc = "place" /\ UNCHANGED <<capacity, white>>
      /\ entries' = [entries EXCEPT ![i] = s] /\ ret' = (entries[i].key = NoKey)
  BY DEF HInv, TypeOK, Place
<1>2. key \in Keys /\ white = {} /\ FoundWhereStored(entries, capacity)
  BY <1>1 DEF HInv, SetInv, WhiteInv
<1>3. capacity \in Nat /\ entries \in [0..capacity -> Slot] /\ Terminates(entries, capacity, key)
  BY <1>1, <1>2, PlaceProbeEnds
<1>4. i \in 0..capacity /\ entries[i].key \in {key, NoKey} /\ NoKey \notin Keys
  BY <1>2, <1>3, FindEntryType, HashmapAssumption
<1>5. s \in Slot /\ s.key = key /\ s.value = value
  BY <1>1, <1>2 DEF Slot
<1>6. FoundWhereStored(entries', capacity) /\ entries' \in [0..capacity -> Slot]
  BY <1>1, <1>2, <1>3, <1>4, <1>5, StoreKeepsFound
<1>7. ret' = (Contents[key] = Missing)
  BY <1>1, <1>2, <1>3, ContentsFound, ContentsIs
<1>8. \A j \in 0..capacity : entries[j].key = key => j = i
  BY <1>2, <1>4 DEF FoundWhereStored
<1> HIDE DEF i, s
<1>9. KeysDistinct(entries, capacity) /\ KeysDistinct(entries', capacity)
  BY <1>2, <1>3, <1>6, FoundIsPlaced
<1>10. entries'[i] = s /\ \A j \in 0..capacity : j # i => entries'[j] = entries[j]
  BY <1>1, <1>3, <1>4
<1>11. ContentsOf(entries', capacity) =
           [ContentsOf(entries, capacity) EXCEPT ![key] = IF s.key = key THEN s.value ELSE Missing]
  <2>1. s.key \in {key, NoKey}
    BY <1>5
  <2> QED  BY <1>2, <1>3, <1>4, <1>5, <1>8, <1>9, <1>10, <2>1, ContentsStored
<1>12. Contents' = [Contents EXCEPT ![key] = value]
  BY <1>1, <1>5, <1>11, ContentsIs
<1> QED  BY <1>1, <1>2, <1>7, <1>12 DEF Dict!Set, Dict!Call

(* The new array stands for the same dictionary: it has the old keys, and
   the tombstones it does not have stand for nothing.                      *)
LEMMA InstallRefines ==
    ASSUME HInv, Install
    PROVE  UNCHANGED <<Contents, white, ret>>
<1>1. /\ pc = "rehash" /\ idx > capacity /\ entries' = fresh /\ capacity' = mask
      /\ UNCHANGED <<white, ret>>
  BY DEF Install
<1>2. /\ capacity \in Nat \cup {-1} /\ idx \in Nat /\ idx <= capacity + 1
      /\ entries \in [0..capacity -> Slot] /\ mask \in Nat /\ fresh \in [0..mask -> Slot]
  BY <1>1, GrowType DEF HInv, TypeOK, CopyInv, SetInv, Growing
<1>3. 0..(idx - 1) = 0..capacity
  BY <1>1, <1>2
<1>4. KeysDistinct(entries, capacity) /\ KeysDistinct(fresh, mask)
  BY <1>1 DEF HInv, CopyInv, FoundWhereStored, KeysDistinct
<1>5. \A k \in Keys : ContentsOf(fresh, mask)[k] = ContentsOf(entries, capacity)[k]
  <2> SUFFICES ASSUME NEW k \in Keys
               PROVE  ContentsOf(fresh, mask)[k] = ContentsOf(entries, capacity)[k]
    OBVIOUS
  <2>1. \A j \in 0..mask : fresh[j].key = k => \E m \in 0..capacity : entries[m] = fresh[j]
    <3> SUFFICES ASSUME NEW j \in 0..mask, fresh[j].key = k
                 PROVE  \E m \in 0..capacity : entries[m] = fresh[j]
      OBVIOUS
    <3>1. fresh[j] # Empty
      BY HashmapAssumption DEF Empty
    <3>2. PICK m \in 0..(idx - 1) : fresh[j] = entries[m] /\ entries[m].key # NoKey
      BY <1>1, <3>1 DEF HInv, CopyInv
    <3> QED  BY <1>3, <3>2
  <2>2. \A m \in 0..capacity : entries[m].key = k => \E j \in 0..mask : fresh[j] = entries[m]
    BY <1>1, <1>3, HashmapAssumption DEF HInv, CopyInv
  <2>3. CASE \E m \in 0..capacity : entries[m].key = k
    <3>1. PICK m \in 0..capacity : entries[m].key = k
      BY <2>3
    <3>2. PICK j \in 0..mask : fresh[j] = entries[m]
      BY <2>2, <3>1
    <3>3. ContentsOf(entries, capacity)[entries[m].key] = entries[m].value
      BY <1>4, <3>1, ContentsAt
    <3>4. ContentsOf(fresh, mask)[fresh[j].key] = fresh[j].value
      BY <1>4, <3>1, <3>2, ContentsAt
    <3> QED  BY <3>1, <3>2, <3>3, <3>4
  <2>4. CASE \A m \in 0..capacity : entries[m].key # k
    <3>1. \A j \in 0..mask : fresh[j].key # k
      BY <2>1, <2>4
    <3> QED  BY <2>4, <3>1, ContentsMissing
  <2> QED  BY <2>3, <2>4
<1>6. /\ ContentsOf(fresh, mask) = [x \in Keys |-> ContentsOf(fresh, mask)[x]]
      /\ ContentsOf(entries, capacity) = [x \in Keys |-> ContentsOf(entries, capacity)[x]]
  BY DEF ContentsOf
<1>7. Contents' = Contents
  BY <1>1, <1>5, <1>6, ContentsIs
<1> QED  BY <1>1, <1>7

LEMMA RemoveWhiteRefines ==
    ASSUME HInv, RemoveWhite
    PROVE  (\E k \in Keys : Dict!Evict(k)) \/ UNCHANGED <<Contents, white, ret>>
<1> DEFINE k == entries[idx].key
<1>1. /\ pc = "white" /\ idx <= capacity /\ UNCHANGED <<capacity, white, ret>>
      /\ FoundWhereStored(entries, capacity)
  BY DEF HInv, RemoveWhite
<1>2. /\ capacity \in Nat /\ idx \in 0..capacity /\ entries \in [0..capacity -> Slot]
      /\ white \subseteq Keys
  BY <1>1 DEF HInv, TypeOK
<1>3. CASE k \notin white
  <2>1. UNCHANGED <<entries, capacity>>
    BY <1>1, <1>3 DEF RemoveWhite
  <2> QED  BY <1>1, <2>1 DEF Contents
<1>4. CASE k \in white
  <2>1. count # 0 /\ FindEntry(entries, capacity, k) = idx
    BY <1>1, <1>4, WhiteIsBuried
  <2>2. k \in Keys /\ k # NoKey
    BY <1>2, <1>4, HashmapAssumption
  <2>3. entries' = [entries EXCEPT ![idx] = Tombstone]
    BY <1>4, <2>1 DEF RemoveWhite, Bury
  <2>4. FoundWhereStored(entries', capacity) /\ entries' \in [0..capacity -> Slot]
    BY <1>1, <2>1, <2>2, <2>3, BuryFacts
  <2>5. \A j \in 0..capacity : entries[j].key = k => j = idx
    BY <1>1, <1>2, <2>2 DEF FoundWhereStored
  <2>6. KeysDistinct(entries, capacity) /\ KeysDistinct(entries', capacity)
    BY <1>1, <1>2, <2>4, FoundIsPlaced
  <2>7. entries'[idx] = Tombstone /\ \A j \in 0..capacity : j # idx => entries'[j] = entries[j]
    BY <1>2, <2>3
  <2>8. Tombstone \in Slot /\ Tombstone.key = NoKey
    BY SlotTypes DEF Tombstone
  <2>9. entries[idx].key \in {k, NoKey} /\ Tombstone.key \in {k, NoKey}
    BY <2>8
  <2> HIDE DEF k
  <2>10. ContentsOf(entries', capacity) =
             [ContentsOf(entries, capacity) EXCEPT
                 ![k] = IF Tombstone.key = k THEN Tombstone.value ELSE Missing]
    BY <1>2, <2>2, <2>5, <2>6, <2>7, <2>8, <2>9, ContentsStored
  <2>11. Contents' = [Contents EXCEPT ![k] = Missing]
    BY <1>1, <2>2, <2>8, <2>10, ContentsIs
  <2> QED  BY <1>1, <1>4, <2>2, <2>11 DEF Dict!Evict
<1> QED  BY <1>3, <1>4

(* When the removal is over the dictionary has no unmarked key left. *)
LEMMA CollectedRefines ==
    ASSUME HInv, Collected
    PROVE  Dict!Collected
<1>1. /\ pc = "white" /\ idx > capacity /\ white' = {} /\ UNCHANGED <<entries, capacity, ret>>
  BY DEF Collected, map
<1>2. /\ capacity \in Nat \cup {-1} /\ idx \in Nat /\ idx <= capacity + 1 /\ white \subseteq Keys
      /\ \A m \in 0..(idx - 1) : entries[m].key \notin white
  BY <1>1 DEF HInv, TypeOK, WhiteInv
<1>3. 0..(idx - 1) = 0..capacity
  BY <1>1, <1>2
<1>4. \A k \in white : Contents[k] = Missing
  BY <1>2, <1>3, ContentsMissing, ContentsIs
<1>5. UNCHANGED Contents
  BY <1>1 DEF Contents
<1> QED  BY <1>1, <1>4, <1>5 DEF Dict!Collected

LEMMA FreeRefines ==
    ASSUME HInv, Free
    PROVE  Dict!Free
<1>1. white = {} /\ UNCHANGED <<white, ret>> /\ capacity' = -1
  BY DEF HInv, WhiteInv, Free
<1>2. 0..-1 = {}
  OBVIOUS
<1>3. Contents' = [k \in Keys |-> Missing]
  BY <1>1, <1>2 DEF Contents
<1> QED  BY <1>1, <1>3 DEF Dict!Free, Dict!Call

LEMMA InitRefines == Init => Dict!Init
<1> SUFFICES ASSUME Init PROVE Dict!Init
  OBVIOUS
<1>1. capacity = -1 /\ white = {} /\ ret = Missing /\ 0..-1 = {}
  BY DEF Init
<1>2. Contents = [k \in Keys |-> Missing]
  BY <1>1 DEF Contents
<1> QED  BY <1>1, <1>2 DEF Dict!Init

LEMMA StutterRefines ==
    ASSUME UNCHANGED <<entries, capacity>>
    PROVE  UNCHANGED Contents
BY DEF Contents

LEMMA CollectRefines ==
    ASSUME HInv, NEW w \in SUBSET Keys, Collect(w)
    PROVE  Dict!Collect(w)
<1>1. white = {} /\ white' = w /\ UNCHANGED <<entries, capacity, ret>>
  BY DEF HInv, WhiteInv, Collect, map
<1> QED  BY <1>1, StutterRefines DEF Dict!Collect

LEMMA StepRefines ==
    ASSUME HInv, [Next]_vars
    PROVE  [Dict!Next]_<<Contents, white, ret>>
<1>1. CASE \E k \in Keys : Get(k) \/ Pop(k) \/ Del(k)
  <2>1. PICK k \in Keys : Get(k) \/ Pop(k) \/ Del(k)
    BY <1>1
  <2>2. Dict!Get(k) \/ Dict!Pop(k) \/ Dict!Del(k)
    BY <2>1, CallsRefine
  <2> QED  BY <2>2 DEF Dict!Next
<1>2. CASE \E k \in Keys : \E v \in Values : Set(k, v)
  <2>1. UNCHANGED <<entries, capacity, white, ret>>
    BY <1>2 DEF Set, map
  <2> QED  BY <2>1, StutterRefines
<1>3. CASE \E w \in SUBSET Keys : Collect(w)
  BY <1>3, CollectRefines DEF Dict!Next
<1>4. CASE Free
  BY <1>4, FreeRefines DEF Dict!Next
<1>5. CASE Allocated \/ Rehash \/ UNCHANGED vars
  <2>1. UNCHANGED <<entries, capacity, white, ret>>
    BY <1>5 DEF Allocated, Rehash, vars, map
  <2> QED  BY <2>1, StutterRefines
<1>6. CASE Install
  BY <1>6, InstallRefines
<1>7. CASE Place
  BY <1>7, PlaceRefines DEF Dict!Next
<1>8. CASE RemoveWhite
  BY <1>8, RemoveWhiteRefines DEF Dict!Next
<1>9. CASE Collected
  BY <1>9, CollectedRefines DEF Dict!Next
<1> QED  BY <1>1, <1>2, <1>3, <1>4, <1>5, <1>6, <1>7, <1>8, <1>9 DEF Next

(* The table implements the dictionary: what get, pop, del and set answer is
   what a dictionary answers, whatever the collisions, the tombstones and
   the growth, and a collection takes out the unmarked keys and no other.  *)
THEOREM TableImplementsDict == Spec => ImplementsDict
<1>1. Init => Dict!Init
  BY InitRefines
<1>2. HInv /\ [Next]_vars => [Dict!Next]_<<Contents, white, ret>>
  BY StepRefines
<1>3. HInv /\ [Next]_vars => [Dict!Next]_Dict!dvars
  BY <1>2 DEF Dict!dvars
<1> QED  BY <1>1, <1>3, HInvHolds, PTL DEF Spec, ImplementsDict, Dict!Spec
=============================================================================
