----------------------------- MODULE JmlHashmap -----------------------------
(***************************************************************************)
(* The open-addressing hash table of src/src/jml_value.c, which holds the  *)
(* globals, the modules, the fields and the methods of a program, and the  *)
(* interned strings.  A slot is empty (no key, value none), a tombstone    *)
(* (no key, value true) or occupied.  `count` counts the occupied slots    *)
(* and the tombstones; growing the table drops the tombstones.             *)
(*                                                                         *)
(* The loops of the code that write are steps here: growing copies one     *)
(* slot of the old array per step (pc "rehash"), and the collector, which  *)
(* runs when the new array is allocated, removes the unmarked keys of the  *)
(* table of strings one slot per step (pc "white").                        *)
(***************************************************************************)
EXTENDS Integers, FiniteSets

CONSTANTS Keys,      \* interned strings
          Data,      \* values other than none and true
          NoneVal,   \* NONE_VAL
          TrueVal,   \* TRUE_VAL, the value of a tombstone
          NoKey,     \* the NULL key of a free slot
          Missing,   \* what a failed lookup answers
          Hash,      \* jml_obj_string_t.hash
          MapMin     \* the first capacity of GROW_CAPACITY, 8 in the code

Values == Data \cup {NoneVal, TrueVal}

ASSUME HashmapAssumption ==
    /\ Hash \in [Keys -> Nat]
    /\ MapMin \in Nat /\ MapMin >= 2
    /\ NoKey \notin Keys
    /\ NoneVal # TrueVal
    /\ Missing \notin Values
    /\ Missing \notin BOOLEAN

VARIABLES count, capacity, entries,   \* jml_hashmap_t; capacity is a mask
          pc, back,                   \* where the call is, where to resume
          key, value,                 \* the arguments of jml_hashmap_set
          fresh, mask, idx,           \* jml_hashmap_adjust_capacity's locals
          white,                      \* the keys this collection left white
          ret                         \* the answer of the last call

map   == <<count, capacity, entries>>
grow  == <<fresh, mask, idx>>
vars  == <<map, pc, back, key, value, grow, white, ret>>

Slot      == [key : Keys \cup {NoKey}, value : Values]
Empty     == [key |-> NoKey, value |-> NoneVal]
EmptyAgain == [key |-> NoKey, value |-> NoneVal]   \* mutant
Tombstone == [key |-> NoKey, value |-> TrueVal]
NoArray   == [i \in 0..-1 |-> Empty]

(* GROW_CAPACITY of src/include/jml/jml_gc.h *)
Grow(n) == IF n < MapMin THEN MapMin ELSE 2 * n

(* The d-th index a probe for k visits: hash & capacity, then one further
   at a time, wrapping at the mask (capacity + 1 is a power of two).       *)
Home(k, cap) == Hash[k] % (cap + 1)

Probe(k, cap, d) ==
    LET i == Home(k, cap) + d IN IF i <= cap THEN i ELSE i - (cap + 1)

Stops(e, cap, k, d) == e[Probe(k, cap, d)].key = k \/ e[Probe(k, cap, d)] = Empty

StopsFirst(e, cap, k, d) ==
    /\ Stops(e, cap, k, d)
    /\ \A c \in 0..(d - 1) : ~Stops(e, cap, k, c)

(* The loop of jml_hashmap_find_entry has no other way out. *)
Terminates(e, cap, k) == \E d \in 0..cap : Stops(e, cap, k, d)

Graves(e, cap, k, d) == {c \in 0..(d - 1) : e[Probe(k, cap, c)].key = NoKey}

(* mutant: the first free slot ends the search. *)
FindEager(e, cap, k) ==
    LET Ends(d) == e[Probe(k, cap, d)].key \in {k, NoKey}
    IN  Probe(k, cap, CHOOSE n \in 0..cap : Ends(n) /\ \A c \in 0..(n - 1) : ~Ends(c))

FindEntry(e, cap, k) ==
    LET d == CHOOSE n \in 0..cap : StopsFirst(e, cap, k, n)
        g == Graves(e, cap, k, d)
    IN  IF e[Probe(k, cap, d)].key = k \/ g = {}
        THEN Probe(k, cap, d)
        ELSE Probe(k, cap, CHOOSE c \in g : \A b \in g : c <= b)

-----------------------------------------------------------------------------
Init ==
    /\ count = 0 /\ capacity = -1 /\ entries = NoArray
    /\ pc = "idle" /\ back = "idle"
    /\ key = NoKey /\ value = NoneVal
    /\ fresh = NoArray /\ mask = -1 /\ idx = 0
    /\ white = {}
    /\ ret = Missing

(* The load check of jml_hashmap_set, with MAP_LOAD_MAX = 0.75; the mutant
   grows the table when it is full.                                        *)
FullLate == count > capacity
Full     == 4 * (count + 1) > 3 * (capacity + 1)

Set(k, v) ==
    /\ pc = "idle"
    /\ key' = k /\ value' = v
    /\ IF Full
       THEN pc' = "alloc" /\ mask' = Grow(capacity + 1) - 1
       ELSE pc' = "place" /\ UNCHANGED mask
    /\ UNCHANGED <<map, back, fresh, idx, white, ret>>

(* jml_hashmap_adjust_capacity: the array is there, all its slots empty. *)
Allocated ==
    /\ pc \in {"alloc", "collected"}
    /\ fresh' = [i \in 0..mask |-> Empty]
    /\ count' = 0 /\ idx' = 0
    /\ pc' = "rehash"
    /\ UNCHANGED <<capacity, entries, back, key, value, mask, white, ret>>

Rehash ==
    /\ pc = "rehash" /\ idx <= capacity
    /\ idx' = idx + 1
    /\ IF entries[idx].key = NoKey
       THEN UNCHANGED <<fresh, count>>
       ELSE /\ Terminates(fresh, mask, entries[idx].key)
            /\ fresh' = [fresh EXCEPT ![FindEntry(fresh, mask, entries[idx].key)] = entries[idx]]
            /\ count' = count + 1
    /\ UNCHANGED <<capacity, entries, pc, back, key, value, mask, white, ret>>

(* The old array is freed and the new one takes its place. *)
Install ==
    /\ pc = "rehash" /\ idx > capacity
    /\ entries' = fresh /\ capacity' = mask
    /\ fresh' = NoArray /\ mask' = -1 /\ idx' = 0
    /\ pc' = "place"
    /\ UNCHANGED <<count, back, key, value, white, ret>>

(* The second half of jml_hashmap_set. *)
Place ==
    /\ pc = "place"
    /\ Terminates(entries, capacity, key)
    /\ LET i == FindEntry(entries, capacity, key) IN
       /\ count' = IF entries[i] = Empty THEN count + 1 ELSE count
       /\ ret' = (entries[i].key = NoKey)
       /\ entries' = [entries EXCEPT ![i] = [key |-> key, value |-> value]]
    /\ pc' = "idle" /\ key' = NoKey /\ value' = NoneVal
    /\ UNCHANGED <<capacity, back, grow, white>>

(* What jml_hashmap_get, _pop and _del have in common: a table whose count
   is 0 has no array to probe, and a free slot is no answer.               *)
FoundByValue(k) == count # 0 /\ entries[FindEntry(entries, capacity, k)].value # NoneVal   \* mutant
Found(k) == count # 0 /\ entries[FindEntry(entries, capacity, k)].key # NoKey

Lookup(k) ==
    /\ pc = "idle"
    /\ count # 0 => Terminates(entries, capacity, k)
    /\ UNCHANGED <<count, capacity, pc, back, key, value, grow, white>>

Bury(k) == entries' = [entries EXCEPT ![FindEntry(entries, capacity, k)] = Tombstone]

Get(k) ==
    /\ Lookup(k)
    /\ ret' = IF Found(k) THEN entries[FindEntry(entries, capacity, k)].value ELSE Missing
    /\ UNCHANGED entries

Pop(k) ==
    /\ Lookup(k)
    /\ IF Found(k)
       THEN ret' = entries[FindEntry(entries, capacity, k)].value /\ Bury(k)
       ELSE ret' = Missing /\ UNCHANGED entries

Del(k) ==
    /\ Lookup(k)
    /\ ret' = Found(k)
    /\ IF Found(k) THEN Bury(k) ELSE UNCHANGED entries

(* mutant: the array is freed, the pointer stays. *)
FreeKeeps ==
    /\ pc = "idle"
    /\ count' = 0 /\ capacity' = -1
    /\ UNCHANGED <<entries, pc, back, key, value, grow, white, ret>>

(* jml_hashmap_free *)
Free ==
    /\ pc = "idle"
    /\ count' = 0 /\ capacity' = -1 /\ entries' = NoArray
    /\ UNCHANGED <<pc, back, key, value, grow, white, ret>>

(* A collection starts: by itself between two calls, or inside the
   allocation of the new array, when the key being set is exempt.          *)
Collect(w) ==
    /\ pc \in {"idle", "alloc"}
    /\ pc = "alloc" => key \notin w
    /\ white' = w /\ idx' = 0
    /\ back' = IF pc = "idle" THEN "idle" ELSE "collected"
    /\ pc' = "white"
    /\ UNCHANGED <<map, key, value, fresh, mask, ret>>

(* jml_hashmap_remove_white deletes through jml_hashmap_del, which probes
   for the key again.                                                      *)
RemoveWhite ==
    /\ pc = "white" /\ idx <= capacity
    /\ idx' = idx + 1
    /\ IF entries[idx].key \in white /\ count # 0
       THEN /\ Terminates(entries, capacity, entries[idx].key)
            /\ Bury(entries[idx].key)
       ELSE UNCHANGED entries
    /\ UNCHANGED <<count, capacity, pc, back, key, value, fresh, mask, white, ret>>

(* mutant: the allocation is tried again. *)
CollectedRetry ==
    /\ pc = "white" /\ idx > capacity
    /\ pc' = (IF back = "idle" THEN "idle" ELSE "alloc") /\ back' = "idle"
    /\ white' = {} /\ idx' = 0
    /\ UNCHANGED <<map, key, value, fresh, mask, ret>>

Collected ==
    /\ pc = "white" /\ idx > capacity
    /\ pc' = back /\ back' = "idle"
    /\ white' = {} /\ idx' = 0
    /\ UNCHANGED <<map, key, value, fresh, mask, ret>>

Next ==
    \/ \E k \in Keys : \/ Get(k) \/ Pop(k) \/ Del(k)
                       \/ \E v \in Values : Set(k, v)
    \/ \E w \in SUBSET Keys : Collect(w)
    \/ Free
    \/ Allocated \/ Rehash \/ Install \/ Place \/ RemoveWhite \/ Collected

Spec == Init /\ [][Next]_vars

(* The loops run to their end: nothing preempts the interpreter. *)
FairSpec == Spec /\ WF_vars(Allocated \/ Rehash \/ Install \/ Place \/ RemoveWhite \/ Collected)
-----------------------------------------------------------------------------
TypeOK ==
    /\ count \in Nat
    /\ capacity \in Nat \cup {-1}
    /\ entries \in [0..capacity -> Slot]
    /\ pc \in {"idle", "alloc", "collected", "rehash", "place", "white"}
    /\ back \in {"idle", "collected"}
    /\ key \in Keys \cup {NoKey} /\ value \in Values
    /\ mask \in Nat \cup {-1}
    /\ fresh \in [0..(IF pc = "rehash" THEN mask ELSE -1) -> Slot]
    /\ idx \in Nat
    /\ white \in SUBSET Keys
    /\ ret \in Values \cup {Missing} \cup BOOLEAN

Used(e, cap) == {i \in 0..cap : e[i] # Empty}

(* jml_hashmap_find_entry never spins: whenever the table is probed, for
   whichever key, some slot stops the probe.  The loop has no bound of its
   own, so this rests on `count` counting the tombstones too.              *)
ProbeTerminates ==
    /\ pc \in {"idle", "place"} /\ count # 0 =>
          \A k \in Keys : Terminates(entries, capacity, k)
    /\ pc = "place" => Terminates(entries, capacity, key)
    /\ pc = "rehash" => \A k \in Keys : Terminates(fresh, mask, k)

(* A key is in one slot, and a probe for it ends there: no tombstone that
   was reused, and no growth, left a second copy or cut a probe short.     *)
FoundWhereStored(e, cap) ==
    \A i \in 0..cap : e[i].key # NoKey =>
        /\ \A j \in 0..cap : e[j].key = e[i].key => j = i
        /\ FindEntry(e, cap, e[i].key) = i

KeysAreFound ==
    /\ FoundWhereStored(entries, capacity)
    /\ pc = "rehash" => FoundWhereStored(fresh, mask)

(* Between calls `count` is the number of slots that are not empty, at most
   three quarters of the array.                                            *)
CountIsExact ==
    /\ pc \in {"idle", "alloc", "collected", "place", "white"} =>
          count = Cardinality(Used(entries, capacity))
    /\ pc = "rehash" => count = Cardinality(Used(fresh, mask))
    /\ pc = "idle" => 4 * count <= 3 * (capacity + 1)

(* The dictionary the array stands for, in the middle of a call too. *)
Contents ==
    [k \in Keys |->
        IF \E i \in 0..capacity : entries[i].key = k
        THEN entries[CHOOSE i \in 0..capacity : entries[i].key = k].value
        ELSE Missing]

Dict == INSTANCE JmlDict WITH dict <- Contents

(* The table implements the dictionary: probing, tombstones and growing
   are invisible to its callers, and a collection takes out every unmarked
   key and no other, also one that runs while the table is growing.        *)
ImplementsDict == Dict!Spec

(* Every call returns, whatever the order of growth and collection. *)
CallsReturn == pc # "idle" ~> pc = "idle"
=============================================================================
