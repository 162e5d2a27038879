------------------------------ MODULE JmlDict ------------------------------
(***************************************************************************)
(* What jml_hashmap_t promises its callers (src/include/jml/jml_value.h):  *)
(* a dictionary from interned strings to values.  `dict` is its contents,  *)
(* `ret` what the last completed call returned, and `white` the keys that  *)
(* the collection in progress must take out (the table of strings holds    *)
(* its keys weakly).  JmlHashmap, the open-addressing table of             *)
(* src/src/jml_value.c, implements it.                                     *)
(***************************************************************************)
CONSTANTS Keys,      \* interned strings: compared by address
          Values,    \* every jml_value_t a caller may store
          Missing    \* "not in the table", which is no value

VARIABLES dict, white, ret

dvars == <<dict, white, ret>>

Init == /\ dict = [k \in Keys |-> Missing]
        /\ white = {}
        /\ ret = Missing

Call == white = {} /\ UNCHANGED white

(* jml_hashmap_set answers whether the key was new. *)
Set(k, v) == /\ Call
             /\ dict' = [dict EXCEPT ![k] = v]
             /\ ret' = (dict[k] = Missing)

Get(k) == /\ Call
          /\ ret' = dict[k]
          /\ UNCHANGED dict

(* jml_hashmap_pop removes the key and hands its value to the caller. *)
Pop(k) == /\ Call
          /\ ret' = dict[k]
          /\ dict' = [dict EXCEPT ![k] = Missing]

Del(k) == /\ Call
          /\ ret' = (dict[k] # Missing)
          /\ dict' = [dict EXCEPT ![k] = Missing]

Free == /\ Call
        /\ dict' = [k \in Keys |-> Missing]
        /\ UNCHANGED ret

Collect(w) == /\ white = {} /\ white' = w
              /\ UNCHANGED <<dict, ret>>

Evict(k) == /\ k \in white
            /\ dict' = [dict EXCEPT ![k] = Missing]
            /\ UNCHANGED <<white, ret>>

(* A collection ends when no unmarked key is left: their strings are freed
   by the sweep that follows.                                              *)
Collected == /\ \A k \in white : dict[k] = Missing
             /\ white' = {}
             /\ UNCHANGED <<dict, ret>>

Next == \/ \E k \in Keys : \/ Get(k) \/ Pop(k) \/ Del(k) \/ Evict(k)
                           \/ \E v \in Values : Set(k, v)
        \/ \E w \in SUBSET Keys : Collect(w)
        \/ Collected
        \/ Free

Spec == Init /\ [][Next]_dvars
=============================================================================
