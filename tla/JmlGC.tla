------------------------------- MODULE JmlGC -------------------------------
(***************************************************************************)
(* The mark-and-sweep collector of src/src/jml_gc.c and the operations of  *)
(* src/src/jml_type.c that allocate.  An allocation may start a collection *)
(* before it answers, so an operation that allocates twice runs with the   *)
(* collector in between.  What is on the exempt stack or a root it keeps;  *)
(* what only the locals of C functions hold, an operand taken off the      *)
(* stack or a result not stored yet, it frees.  The table of interned      *)
(* strings holds its keys weakly.  The sweep is a walk over the list of    *)
(* all objects, during which destructors run.                              *)
(***************************************************************************)
EXTENDS Integers, Sequences, FiniteSets

CONSTANTS Objs,        \* addresses an object may have
          Contents,    \* what strings say
          None,        \* the content of what is not a string
          Failing,     \* whether a destructor may answer an exception
          MaxExempt,   \* EXEMPT_MAX, 16 in the code
          MaxRefs,     \* bounds the pointers in an object
          MaxHand      \* bounds what the locals of C functions hold

ASSUME GCAssumption == None \notin Contents /\ Failing \in BOOLEAN
                       /\ MaxExempt \in Nat \ {0} /\ MaxRefs \in Nat /\ MaxHand \in Nat

VARIABLES heap,      \* the objects that are allocated
          list,      \* vm->objects, newest first
          content,   \* what an object says, if it is a string
          refs,      \* the pointers that jml_gc_blacken_obj follows
          strings,   \* the keys of vm->strings
          roots,     \* what jml_gc_mark_roots marks, exempt stack aside
          exempt,    \* vm->exempt_stack
          hand,      \* what locals of the C functions that run hold
          marked,    \* the objects whose `marked` is set
          gray,      \* vm->gray_stack; its order is left open
          phase,     \* what the collector does
          pos, prev, \* jml_gc_sweep: the place in the list, previous # NULL
          pc, args   \* the operation that allocates, and what it works on

mutator   == <<content, refs, strings, roots, exempt>>
collector == <<marked, gray, phase, pos, prev>>
operation == <<pc, args, hand>>
vars      == <<heap, list, mutator, collector, operation>>

Elements(s) == {s[i] : i \in DOMAIN s}
Strings     == {o \in Objs : content[o] # None}

(* What the collector keeps. *)
Roots == roots \cup Elements(exempt)

Closed(S) == \A o \in S : refs[o] \subseteq S
From(R)   == {o \in Objs : \A S \in SUBSET Objs : R \subseteq S /\ Closed(S) => o \in S}
Reach     == From(Roots)

(* What the program can still get at: an operation that makes an object or
   stores one has it or its operands in hand as well.                      *)
InHand == hand \cup (IF pc \in {"new", "push"} THEN args ELSE {})
Near   == From(Roots \cup InHand)

Init == /\ heap = {} /\ list = <<>>
        /\ content = [o \in Objs |-> None] /\ refs = [o \in Objs |-> {}]
        /\ strings = {} /\ roots = {} /\ exempt = <<>>
        /\ marked = {} /\ gray = {} /\ phase = "run" /\ pos = 1 /\ prev = FALSE
        /\ pc = "idle" /\ args = {} /\ hand = {}
-----------------------------------------------------------------------------
Idle == phase = "run" /\ pc = "idle"

(* The program stores a pointer or drops one. *)
Link(x, y) == /\ Idle /\ {x, y} \subseteq Near /\ x \notin Strings
              /\ Cardinality(refs[x] \cup {y}) <= MaxRefs
              /\ refs' = [refs EXCEPT ![x] = @ \cup {y}]
              /\ UNCHANGED <<heap, list, content, strings, roots, exempt, collector, operation>>

Unlink(x, y) == /\ Idle /\ x \in Near /\ y \in refs[x]
                /\ refs' = [refs EXCEPT ![x] = @ \ {y}]
                /\ UNCHANGED <<heap, list, content, strings, roots, exempt, collector, operation>>

(* A local of a C function takes an object (OP_ARRAY, OP_MAP and the call of
   a variadic function lower stack_top and go on with what lies above it),
   or its function returns.                                                *)
Take(x) == /\ Idle /\ x \in Near \ hand /\ Cardinality(hand) < MaxHand
           /\ hand' = hand \cup {x}
           /\ UNCHANGED <<heap, list, mutator, collector, pc, args>>

Release(x) == /\ Idle /\ x \in hand
              /\ hand' = hand \ {x}
              /\ UNCHANGED <<heap, list, mutator, collector, pc, args>>

(* jml_vm_push makes the stack grow before it stores the value, which is a
   root from then on.  A value is popped, a global dropped.                *)
Root(x) == /\ Idle /\ x \in Near \ roots
           /\ pc' = "push" /\ args' = {x}
           /\ UNCHANGED <<heap, list, mutator, collector, hand>>

Push == /\ phase = "run" /\ pc = "push"
        /\ roots' = roots \cup args
        /\ pc' = "idle" /\ args' = {}
        /\ UNCHANGED <<heap, list, content, refs, strings, exempt, collector, hand>>

Unroot(x) == /\ Idle /\ x \in roots
             /\ roots' = roots \ {x}
             /\ UNCHANGED <<heap, list, content, refs, strings, exempt, collector, operation>>

(* jml_gc_exempt_push and jml_gc_exempt_pop.  The array has no check of its
   bound: the last place is left to the operations that allocate.          *)
Exempt(x) == /\ Idle /\ x \in Near /\ Len(exempt) + 1 < MaxExempt
             /\ exempt' = <<x>> \o exempt
             /\ UNCHANGED <<heap, list, content, refs, strings, roots, collector, operation>>

Unexempt == /\ Idle /\ exempt # <<>>
            /\ exempt' = Tail(exempt)
            /\ UNCHANGED <<heap, list, content, refs, strings, roots, collector, operation>>

(* An array or a table grows (jml_value_array_write, jml_hashmap_set), or
   characters are allocated for a message.                                 *)
Grow == /\ Idle /\ pc' = "grow"
        /\ UNCHANGED <<heap, list, mutator, collector, args, hand>>

Grown == /\ phase = "run" /\ pc = "grow" /\ pc' = "idle"
         /\ UNCHANGED <<heap, list, mutator, collector, args, hand>>

(* jml_obj_allocate, after the collection if there was one *)
Allocate(o, c, ys) ==
    /\ o \notin heap
    /\ heap' = heap \cup {o} /\ list' = <<o>> \o list
    /\ content' = [content EXCEPT ![o] = c]
    /\ refs' = [refs EXCEPT ![o] = ys]

(* An operation that makes an object out of operands: a closure of its
   function, a bound method, an instance, an exception, an array.          *)
New(ys) == /\ Idle /\ ys \subseteq Near /\ Cardinality(ys) <= MaxRefs
           /\ Cardinality(hand \ ys) < MaxHand
           /\ pc' = "new" /\ args' = ys /\ hand' = hand \ ys
           /\ UNCHANGED <<heap, list, mutator, collector>>

Made(o) == /\ phase = "run" /\ pc = "new"
           /\ Allocate(o, None, args)
           /\ pc' = "idle" /\ args' = {} /\ hand' = hand \cup {o}
           /\ UNCHANGED <<strings, roots, exempt, collector>>

(* jml_obj_string_copy and jml_obj_string_take: the interned string, if
   there is one, or a new one.                                             *)
Intern(c) ==
    /\ Idle /\ Cardinality(hand) < MaxHand
    /\ IF \E s \in strings : content[s] = c
       THEN /\ \E s \in strings : content[s] = c /\ hand' = hand \cup {s}
            /\ UNCHANGED <<pc, args>>
       ELSE pc' = "string" /\ args' = {c} /\ UNCHANGED hand
    /\ UNCHANGED <<heap, list, mutator, collector>>

(* The characters are allocated, then the object, which is exempt while the
   table may grow: jml_obj_string_copy, jml_obj_string_allocate.           *)
String(o) == /\ phase = "run" /\ pc = "string"
             /\ \E c \in args : Allocate(o, c, {})
             /\ exempt' = <<o>> \o exempt
             /\ pc' = "table" /\ args' = {o}
             /\ UNCHANGED <<strings, roots, collector, hand>>

(* mutant: pushes where the code pops. *)
TablePush == /\ phase = "run" /\ pc = "table"
             /\ strings' = strings \cup args
             /\ \E o \in args : exempt' = <<o>> \o exempt
             /\ pc' = "idle" /\ args' = {} /\ hand' = hand \cup args
             /\ UNCHANGED <<heap, list, content, refs, roots, collector>>

Table == /\ phase = "run" /\ pc = "table"
         /\ strings' = strings \cup args
         /\ exempt' = Tail(exempt)
         /\ pc' = "idle" /\ args' = {} /\ hand' = hand \cup args
         /\ UNCHANGED <<heap, list, content, refs, roots, collector>>
-----------------------------------------------------------------------------
(* jml_reallocate found vm->allocated > vm->next_gc. *)
Allocating == pc \in {"new", "string", "table", "push", "grow"}

(* jml_gc_collect starts with jml_gc_mark_roots.  The mutants forget the
   exempt stack, or make the table of strings hold its keys strongly.      *)
Mark(R) == /\ phase = "run" /\ Allocating
           /\ marked' = marked \cup R
           /\ gray' = R \ marked
           /\ phase' = "trace"
           /\ UNCHANGED <<heap, list, mutator, pos, prev, operation>>
CollectRoots  == Mark(roots)
CollectStrong == Mark(Roots \cup strings)

Collect == Mark(Roots)

(* mutant: an object that is marked already becomes gray again. *)
BlackenAgain(o) == /\ phase = "trace" /\ o \in gray
                   /\ marked' = marked \cup refs[o]
                   /\ gray' = (gray \ {o}) \cup refs[o]
                   /\ UNCHANGED <<heap, list, mutator, phase, pos, prev, operation>>

(* jml_gc_trace_refs *)
Blacken(o) == /\ phase = "trace" /\ o \in gray
              /\ marked' = marked \cup refs[o]
              /\ gray' = (gray \ {o}) \cup (refs[o] \ marked)
              /\ UNCHANGED <<heap, list, mutator, phase, pos, prev, operation>>

(* jml_hashmap_remove_white(&vm->strings), whose loop is in JmlHashmap.  If
   the sweep is about to free what the operation has in hand, the operation
   goes on with freed memory once the collection is over: what it does then
   is not modelled.  The mutant makes the table lose what is marked.       *)
SweepStrings(kept) ==
    /\ phase = "trace" /\ gray = {}
    /\ strings' = kept
    /\ phase' = "sweep" /\ pos' = 1 /\ prev' = FALSE
    /\ IF InHand \subseteq marked THEN UNCHANGED operation
       ELSE pc' = "lost" /\ args' = (IF pc = "table" THEN args ELSE {}) /\ hand' = {}
    /\ UNCHANGED <<heap, list, content, refs, roots, exempt, marked, gray>>
RemoveBlack == SweepStrings(strings \ marked)

RemoveWhite == SweepStrings(strings \cap marked)

(* mutant: the mark stays. *)
KeepMarked == /\ phase = "sweep" /\ pos <= Len(list) /\ list[pos] \in marked
              /\ pos' = pos + 1 /\ prev' = TRUE
              /\ UNCHANGED <<heap, list, mutator, marked, gray, phase, operation>>

Keep == /\ phase = "sweep" /\ pos <= Len(list) /\ list[pos] \in marked
        /\ marked' = marked \ {list[pos]}
        /\ pos' = pos + 1 /\ prev' = TRUE
        /\ UNCHANGED <<heap, list, mutator, gray, phase, operation>>

Forget(o) == /\ content' = [content EXCEPT ![o] = None]
             /\ refs' = [refs EXCEPT ![o] = {}]

(* What the sweep has left of the list before its place: it unlinks through
   `previous` or, if that is still NULL, by making vm->objects the rest.
   The mutant forgets that something was kept.                             *)
BeforeNothing == <<>>

Before == IF prev THEN SubSeq(list, 1, pos - 1) ELSE <<>>
After  == SubSeq(list, pos + 1, Len(list))

(* A destructor may fail (closing a file that is closed, in std/fs.c) and
   then makes an exception, which nobody will look at.                     *)
Fails(o) == Failing /\ content[o] = None

(* jml_gc_sweep unlinks the object and then frees it; an exception of its
   destructor becomes the head of the list in between.  That this may start
   a collection within the collection is left out.                         *)
SweepOne ==
    /\ phase = "sweep" /\ pos <= Len(list) /\ list[pos] \notin marked
    /\ Forget(list[pos])
    /\ \/ /\ heap' = heap \ {list[pos]}
          /\ list' = Before \o After /\ pos' = Len(Before) + 1
       \/ /\ Fails(list[pos])
          /\ \E e \in Objs \ heap :
                /\ heap' = (heap \ {list[pos]}) \cup {e}
                /\ list' = <<e>> \o (Before \o After) /\ pos' = Len(Before) + 2
    /\ UNCHANGED <<strings, roots, exempt, marked, gray, phase, prev, operation>>

SweepDone == /\ phase = "sweep" /\ pos > Len(list)
             /\ phase' = "run" /\ pos' = 1 /\ prev' = FALSE
             /\ UNCHANGED <<heap, list, mutator, marked, gray, operation>>

(* jml_vm_free: the tables go, then every object that is in the list when
   jml_gc_free_objs begins.                                                *)
VmFree == /\ Idle
          /\ \/ heap' = heap \ Elements(list)
             \/ \E o \in Elements(list), e \in Objs \ heap :
                   Fails(o) /\ heap' = (heap \ Elements(list)) \cup {e}
          /\ list' = <<>>
          /\ content' = [o \in Objs |-> None] /\ refs' = [o \in Objs |-> {}]
          /\ strings' = {} /\ roots' = {} /\ exempt' = <<>> /\ hand' = {}
          /\ phase' = "freed"
          /\ UNCHANGED <<marked, gray, pos, prev, pc, args>>

Mutate == \/ \E x, y \in Objs : Link(x, y) \/ Unlink(x, y)
          \/ \E x \in Objs : Take(x) \/ Release(x) \/ Root(x) \/ Unroot(x) \/ Exempt(x)
          \/ \E o \in Objs : Made(o) \/ String(o)
          \/ \E ys \in SUBSET Objs : New(ys)
          \/ \E c \in Contents : Intern(c)
          \/ Push \/ Unexempt \/ Grow \/ Grown \/ Table

Gc == Collect \/ (\E o \in Objs : Blacken(o)) \/ RemoveWhite \/ Keep \/ SweepOne \/ SweepDone

Next == Mutate \/ Gc \/ VmFree

Spec == Init /\ [][Next]_vars

(* One thread: a collection that has started is not interrupted. *)
FairSpec == Spec /\ WF_vars(Gc /\ phase # "run")
-----------------------------------------------------------------------------
TypeOK ==
    /\ heap \in SUBSET Objs /\ list \in Seq(Objs)
    /\ content \in [Objs -> Contents \cup {None}] /\ refs \in [Objs -> SUBSET Objs]
    /\ strings \in SUBSET Objs /\ roots \in SUBSET Objs /\ exempt \in Seq(Objs)
    /\ Len(exempt) <= MaxExempt
    /\ marked \in SUBSET Objs /\ gray \in SUBSET Objs
    /\ phase \in {"run", "trace", "sweep", "freed"} /\ pos \in Nat \ {0} /\ prev \in BOOLEAN
    /\ pc \in {"idle", "new", "string", "table", "push", "grow", "lost"}
    /\ hand \in SUBSET Objs
    /\ args \subseteq Objs \/ args \subseteq Contents

(* Whatever the program can still get at is allocated, in the middle of an
   operation, of a collection and of a sweep too: what is reachable from a
   root or an exempt object always, what an operation has in hand until a
   collection finds it nowhere else.  So are the keys of the table of
   strings and, while the table grows, the string it is about to get.      *)
NothingLiveIsFreed ==
    /\ Near \subseteq heap /\ strings \subseteq heap
    /\ pc = "table" => args \subseteq heap

(* Strings are compared by address: the table never holds two strings that
   say the same, and no string in the program's hands is missing from it,
   whatever was collected between two interns of the same characters.      *)
InternedOnce ==
    /\ \A s, t \in strings : content[s] = content[t] => s = t
    /\ \A s \in Near \cap Strings : s \in strings \/ (pc \in {"table", "lost"} /\ s \in args)

(* While tracing, what a black object points at is marked; when no gray
   object is left everything reachable is.  Between collections no mark is
   left over: the next one would not look behind it.                       *)
TriColor ==
    /\ phase = "trace" =>
          /\ Roots \subseteq marked /\ gray \subseteq marked
          /\ \A o \in marked \ gray : refs[o] \subseteq marked
    /\ phase = "run" => marked = {} /\ gray = {}

(* vm->objects holds every allocated object once: one that drops out of the
   list is never freed, and one that is in it twice is freed twice.        *)
ListIsHeap ==
    /\ heap = Elements(list)
    /\ \A i, j \in DOMAIN list : list[i] = list[j] => i = j

(* A collection keeps what is reachable and nothing else, and an operation
   loses what it works on only if that is not all reachable.               *)
CollectionIsExact == [][ /\ SweepDone => heap = Reach
                         /\ pc' = "lost" /\ pc # "lost" => ~(InHand \subseteq Reach) ]_vars

(* Every collection ends. *)
CollectionEnds == phase = "sweep" \/ phase = "trace" ~> phase = "run"

(* jml_vm_free asserts that nothing is left allocated.  A destructor that
   fails then leaves its exception.                                        *)
NothingIsLeft == phase = "freed" => heap = {}

(* What an operation has in hand survives it.  The collector cannot see it:
   OP_ARRAY takes its items off the stack before it allocates the array.   *)
NothingInHandIsFreed == pc # "lost"
=============================================================================
