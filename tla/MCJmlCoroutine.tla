--------------------------- MODULE MCJmlCoroutine ---------------------------
(***************************************************************************)
(* JmlCoroutine on small stacks, three times; a run is of one of them.     *)
(* "calls": three nested calls, values, temporaries, one captured variable.*)
(* "sharing": two calls and two upvalues.  "nesting": two calls on each of *)
(* two coroutines, one of which runs on top of the other.  The properties  *)
(* are those of JmlCoroutine, whose constants bound all three.             *)
(***************************************************************************)
EXTENDS JmlCoroutine

CONSTANT SharedVars

VARIABLE part

Sharing == INSTANCE JmlCoroutine WITH
    Data <- {}, FramesMax <- 2, MaxTemps <- 1, MaxVars <- SharedVars
Nesting == INSTANCE JmlCoroutine WITH
    StackMin <- 5, FramesMax <- 2, MaxTemps <- 1, MaxVars <- 2

Alone == saved' = <<>>
OneUpvalue == InUse' \subseteq {1}

MCInit == \/ part = "calls" /\ Init
          \/ part = "sharing" /\ Sharing!Init
          \/ part = "nesting" /\ Nesting!Init
MCNext == /\ \/ part = "calls" /\ Next /\ Alone /\ OneUpvalue
             \/ part = "sharing" /\ Sharing!Next /\ Alone
             \/ part = "nesting" /\ Nesting!Next /\ OneUpvalue
          /\ UNCHANGED part
MCSpec == MCInit /\ [][MCNext]_<<part, vars>>
=============================================================================
