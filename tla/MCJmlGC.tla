------------------------------ MODULE MCJmlGC ------------------------------
(***************************************************************************)
(* JmlGC twice, a run is of one of the two.  "exact": a few addresses,     *)
(* which are interchangeable, and destructors that succeed.  "ends":       *)
(* other addresses, destructors that fail and may leave an exception, and  *)
(* a thread that goes on collecting.                                       *)
(***************************************************************************)
EXTENDS JmlGC, TLC

CONSTANTS Others

Symmetry == Permutations(Objs)

VARIABLES
    part,       \* "exact" or "ends"
    heap_, list_, content_, refs_, strings_, roots_, exempt_, marked_, gray_, phase_, pos_, prev_, pc_, args_, hand_
vars_ == <<heap_, list_, content_, refs_, strings_, roots_, exempt_, marked_, gray_, phase_, pos_, prev_, pc_, args_, hand_>>

Ends == INSTANCE JmlGC WITH Objs <- Others, Failing <- TRUE, MaxRefs <- 1, MaxExempt <- 1, MaxHand <- 1,
    heap <- heap_, list <- list_, content <- content_, refs <- refs_, strings <- strings_, roots <- roots_,
    exempt <- exempt_, marked <- marked_, gray <- gray_, phase <- phase_, pos <- pos_, prev <- prev_,
    pc <- pc_, args <- args_, hand <- hand_

MCInit == part \in {"exact", "ends"} /\ Init /\ Ends!Init
Exact == part = "exact" /\ Next /\ UNCHANGED <<part, vars_>>
CollectsWithFailures == part = "ends" /\ Ends!Next /\ UNCHANGED <<part, vars>>
MCSpec == /\ MCInit /\ [][Exact \/ CollectsWithFailures]_<<part, vars, vars_>>
          /\ WF_vars_(Ends!Gc /\ phase_ # "run" /\ UNCHANGED <<part, vars>>)

(* Every collection ends, also one whose destructors make objects: the     *)
(* sweep does not chase what it adds (jml_gc_trace_refs, jml_gc_sweep).    *)
(* The addresses of this part are not interchanged by Symmetry.            *)
CollectionsEnd == Ends!CollectionEnds
=============================================================================
