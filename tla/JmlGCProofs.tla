---------------------------- MODULE JmlGCProofs ----------------------------
(***************************************************************************)
(* Proofs about the collector, for every set of addresses, every heap and  *)
(* every interleaving of allocating operations and collections, whether    *)
(* destructors fail or not.  A collection may fall into every allocation,  *)
(* also where an operation holds an object that nothing protects.          *)
(***************************************************************************)
EXTENDS JmlGC, SequenceTheorems, TLAPS

(* What there is to start from, and what can be got at from a set of
   objects through given pointers.                                         *)
Held == Roots \cup InHand
Closure(R, f) ==
    {o \in Objs : \A S \in SUBSET Objs : R \subseteq S /\ (\A x \in S : f[x] \subseteq S) => o \in S}

(* What a collection must not free: what the program can get at, unless it
   is lost, and the strings of the table that it does not take out.        *)
Needed == Near \cup strings

Distinct == \A i, j \in DOMAIN list : list[i] = list[j] => i = j

(* A string has no pointers, and the table holds nothing but strings. *)
StringsAreLeaves ==
    /\ \A o \in Objs : content[o] # None => refs[o] = {}
    /\ strings \subseteq Strings

(* What the operation in progress works on, and that the exempt stack has
   room for what the next one pushes                                       *)
OperationInv ==
    /\ pc \notin {"table", "lost"} => Len(exempt) < MaxExempt
    /\ pc \in {"new", "push"} => args \subseteq Objs
    /\ pc = "lost" => hand = {}
    /\ pc = "string" =>
          args \subseteq Contents /\ \A s \in strings : content[s] \notin args
    /\ pc = "table" =>
          /\ exempt # <<>> /\ args = {exempt[1]}
          /\ content[exempt[1]] # None
          /\ \A s \in strings : content[s] # content[exempt[1]]

TraceInv ==
    phase = "trace" =>
        /\ Roots \subseteq marked /\ gray \subseteq marked /\ marked \subseteq Reach
        /\ \A o \in marked \ gray : refs[o] \subseteq marked

SweepInv ==
    phase = "sweep" =>
        /\ pos <= Len(list) + 1
        /\ gray = {}
        /\ marked \subseteq {list[i] : i \in pos..Len(list)}
        /\ \A i \in pos..Len(list) : list[i] \in Needed => list[i] \in marked
        /\ ~prev => \A i \in 1..(pos - 1) : list[i] \notin Needed

IInv ==
    /\ TypeOK
    /\ Distinct
    /\ Elements(list) \subseteq heap
    /\ Needed \subseteq Elements(list)
    /\ InternedOnce
    /\ StringsAreLeaves
    /\ OperationInv
    /\ TraceInv
    /\ SweepInv
    /\ phase \in {"run", "freed"} => marked = {} /\ gray = {}
    /\ phase = "freed" => pc = "idle"
-----------------------------------------------------------------------------
(* A closure holds what it starts from and is closed, ... *)
LEMMA ClosureIsClosed ==
    ASSUME NEW f \in [Objs -> SUBSET Objs], NEW R \in SUBSET Objs
    PROVE  /\ R \subseteq Closure(R, f) /\ Closure(R, f) \subseteq Objs
           /\ \A x \in Closure(R, f) : f[x] \subseteq Closure(R, f)
<1>1. ASSUME NEW o \in Closure(R, f), NEW x \in f[o] PROVE x \in Closure(R, f)
  <2>1. x \in Objs /\ o \in Objs
    BY DEF Closure
  <2>2. ASSUME NEW S \in SUBSET Objs, R \subseteq S, \A y \in S : f[y] \subseteq S PROVE x \in S
    BY <2>2 DEF Closure
  <2> QED
    BY <2>1, <2>2 DEF Closure
<1> QED
  BY <1>1 DEF Closure

(* ... is inside every set that does and is, ... *)
LEMMA ClosureIsLeast ==
    ASSUME NEW f, NEW R, NEW T \in SUBSET Objs, R \subseteq T, \A x \in T : f[x] \subseteq T
    PROVE  Closure(R, f) \subseteq T
BY DEF Closure

(* ... and does not change with the pointers of what is outside. *)
LEMMA ClosureWithout ==
    ASSUME NEW f \in [Objs -> SUBSET Objs], NEW g \in [Objs -> SUBSET Objs], NEW R \in SUBSET Objs,
           NEW a \in Objs, a \notin Closure(R, f), \A x \in Objs \ {a} : g[x] = f[x]
    PROVE  Closure(R, g) = Closure(R, f)
<1>1. /\ R \subseteq Closure(R, f) /\ Closure(R, f) \in SUBSET Objs
      /\ \A x \in Closure(R, f) : f[x] \subseteq Closure(R, f) /\ g[x] = f[x]
  BY ClosureIsClosed
<1>2. Closure(R, g) \subseteq Closure(R, f)
  BY <1>1, ClosureIsLeast
<1>3. /\ R \subseteq Closure(R, g) /\ Closure(R, g) \in SUBSET Objs
      /\ \A x \in Closure(R, g) : g[x] \subseteq Closure(R, g)
  BY ClosureIsClosed
<1>4. \A x \in Closure(R, g) : f[x] \subseteq Closure(R, g)
  BY <1>1, <1>2, <1>3
<1>5. Closure(R, f) \subseteq Closure(R, g)
  BY <1>3, <1>4, ClosureIsLeast
<1> QED
  BY <1>2, <1>5

LEMMA Closures ==
    /\ Reach = Closure(Roots, refs) /\ Near = Closure(Held, refs)
    /\ Reach' = Closure(Roots', refs') /\ Near' = Closure(Held', refs')
BY DEF Reach, Near, From, Closed, Closure, Held

LEMMA NearIsClosed ==
    ASSUME IInv
    PROVE  /\ Roots \subseteq Reach /\ Reach \subseteq Near /\ Near \subseteq Objs
           /\ Held \subseteq Near
           /\ \A x \in Reach : refs[x] \subseteq Reach
           /\ \A x \in Near : refs[x] \subseteq Near
<1>1. Roots \subseteq Objs /\ InHand \subseteq Objs /\ refs \in [Objs -> SUBSET Objs]
  BY DEF IInv, TypeOK, OperationInv, Roots, InHand, Elements
<1>2. /\ Roots \subseteq Reach /\ Reach \subseteq Objs /\ Held \subseteq Near /\ Near \subseteq Objs
      /\ \A x \in Reach : refs[x] \subseteq Reach
      /\ \A x \in Near : refs[x] \subseteq Near
  BY <1>1, ClosureIsClosed, Closures DEF Held
<1>3. Reach \subseteq Near
  BY <1>2, ClosureIsLeast, Closures DEF Held
<1> QED
  BY <1>2, <1>3

(* Putting an element in front of a list *)
LEMMA Cons ==
    ASSUME NEW S, NEW s \in Seq(S), NEW e \in S
    PROVE  /\ <<e>> \o s \in Seq(S)
           /\ Len(<<e>> \o s) = Len(s) + 1
           /\ (<<e>> \o s)[1] = e
           /\ \A i \in 1..Len(s) : (<<e>> \o s)[i + 1] = s[i]
           /\ Elements(<<e>> \o s) = {e} \cup Elements(s)
<1>1. /\ <<e>> \o s \in Seq(S) /\ Len(<<e>> \o s) = Len(s) + 1
      /\ \A i \in 1..(Len(s) + 1) : (<<e>> \o s)[i] = IF i = 1 THEN e ELSE s[i - 1]
  OBVIOUS
<1>2. \A i \in 1..Len(s) : (<<e>> \o s)[i + 1] = s[i]
  BY <1>1
<1>3. (<<e>> \o s)[1] = e
  BY <1>1
<1>4. Elements(<<e>> \o s) = {e} \cup Elements(s)
  <2>1. ASSUME NEW i \in DOMAIN (<<e>> \o s) PROVE (<<e>> \o s)[i] \in {e} \cup Elements(s)
    BY <1>1 DEF Elements
  <2>2. ASSUME NEW i \in DOMAIN s PROVE s[i] \in Elements(<<e>> \o s)
    BY <1>1, <1>2, i + 1 \in DOMAIN (<<e>> \o s) DEF Elements
  <2>3. e \in Elements(<<e>> \o s)
    BY <1>1, <1>3, 1 \in DOMAIN (<<e>> \o s) DEF Elements
  <2> QED
    BY <2>1, <2>2, <2>3 DEF Elements
<1> QED
  BY <1>1, <1>2, <1>3, <1>4

LEMMA TailElements ==
    ASSUME NEW S, NEW s \in Seq(S), s # <<>>
    PROVE  /\ Tail(s) \in Seq(S) /\ Len(Tail(s)) = Len(s) - 1
           /\ Elements(s) = {s[1]} \cup Elements(Tail(s))
<1>1. /\ Tail(s) \in Seq(S) /\ Len(Tail(s)) = Len(s) - 1 /\ Len(s) >= 1
      /\ \A i \in 1..(Len(s) - 1) : Tail(s)[i] = s[i + 1]
  OBVIOUS
<1>2. ASSUME NEW i \in DOMAIN s PROVE s[i] \in {s[1]} \cup Elements(Tail(s))
  <2>1. CASE i = 1
    BY <2>1
  <2>2. CASE i # 1
    BY <1>1, <2>2, i - 1 \in DOMAIN Tail(s), Tail(s)[i - 1] = s[i] DEF Elements
  <2> QED
    BY <2>1, <2>2
<1>3. ASSUME NEW i \in DOMAIN Tail(s) PROVE Tail(s)[i] \in Elements(s)
  BY <1>1, i + 1 \in DOMAIN s DEF Elements
<1>4. s[1] \in Elements(s)
  BY <1>1 DEF Elements
<1> QED
  BY <1>1, <1>2, <1>3, <1>4 DEF Elements
-----------------------------------------------------------------------------
LEMMA InitInv == Init => IInv
<1> SUFFICES ASSUME Init PROVE IInv
  OBVIOUS
<1> USE DEF Init
<1>1. Held = {}
  BY DEF Held, Roots, InHand, Elements
<1>2. Near = {}
  BY <1>1, Closures, ClosureIsLeast
<1>3. TypeOK
  <2>1. content \in [Objs -> Contents \cup {None}] /\ refs \in [Objs -> SUBSET Objs]
    OBVIOUS
  <2>2. list \in Seq(Objs) /\ exempt \in Seq(Objs)
    OBVIOUS
  <2>3. heap \subseteq Objs /\ strings \subseteq Objs /\ roots \subseteq Objs /\ hand \subseteq Objs
        /\ marked \subseteq Objs /\ gray \subseteq Objs /\ args \subseteq Objs
    OBVIOUS
  <2>4. pos \in Nat \ {0}
    OBVIOUS
  <2>5. prev \in BOOLEAN
    BY Zenon
  <2>6. phase = "run" /\ pc = "idle"
    OBVIOUS
  <2>7. Len(exempt) <= MaxExempt
    BY GCAssumption
  <2> HIDE DEF Init
  <2> QED
    BY <2>1, <2>2, <2>3, <2>4, <2>5, <2>6, <2>7 DEF TypeOK
<1>4. Elements(list) = {} /\ Distinct
  BY DEF Elements, Distinct
<1>5. OperationInv
  BY GCAssumption DEF OperationInv
<1> QED
  BY <1>2, <1>3, <1>4, <1>5 DEF IInv, Needed, InternedOnce, StringsAreLeaves, Strings,
     TraceInv, SweepInv

(* A step of the program between collections that allocates nothing and
   brings no object within reach but interned strings.                     *)
LEMMA QuietStep ==
    ASSUME IInv, TypeOK', phase = "run", pc \notin {"table", "lost"},
           UNCHANGED <<heap, list, content, strings, collector>>,
           Near' \subseteq Needed, StringsAreLeaves', OperationInv'
    PROVE  IInv'
<1> USE DEF IInv, collector
<1>1. Needed' \subseteq Needed
  BY DEF Needed
<1>2. InternedOnce'
  BY DEF InternedOnce, Needed, Strings
<1>3. Distinct' /\ Elements(list)' \subseteq heap' /\ Needed' \subseteq Elements(list)'
  BY <1>1 DEF Distinct, Elements
<1> QED
  BY <1>2, <1>3 DEF TraceInv, SweepInv

LEMMA LinkInv == ASSUME IInv, NEW x \in Objs, NEW y \in Objs, Link(x, y) \/ Unlink(x, y) PROVE IInv'
<1> USE DEF IInv, Link, Unlink, Idle, operation
<1>1. TypeOK'
  BY DEF TypeOK, collector
<1>2. Held' = Held /\ \A o \in Near : refs'[o] \subseteq Near
  BY NearIsClosed DEF Held, Roots, InHand, TypeOK
<1>3. Near' \subseteq Near
  BY <1>2, NearIsClosed, Closures, ClosureIsLeast
<1>4. StringsAreLeaves' /\ OperationInv'
  BY DEF StringsAreLeaves, OperationInv, Strings, TypeOK
<1> QED
  BY <1>1, <1>3, <1>4, QuietStep DEF Needed

(* Changing only what there is to start from, within what is needed *)
LEMMA HeldStep ==
    ASSUME IInv, TypeOK', phase = "run", pc \notin {"table", "lost"},
           UNCHANGED <<heap, list, content, refs, strings, collector>>,
           Held' \subseteq Needed, OperationInv'
    PROVE  IInv'
<1> USE DEF IInv
<1>1. Needed \in SUBSET Objs
  BY NearIsClosed DEF Needed, TypeOK
<1>2. \A o \in Needed : refs'[o] \subseteq Needed
  BY NearIsClosed DEF Needed, StringsAreLeaves, Strings
<1>3. Near' \subseteq Needed
  BY <1>1, <1>2, Closures, ClosureIsLeast
<1>4. StringsAreLeaves'
  BY DEF StringsAreLeaves, Strings
<1> QED
  BY <1>3, <1>4, QuietStep

LEMMA TakeInv == ASSUME IInv, NEW x \in Objs, Take(x) \/ Release(x) \/ Root(x) \/ Unroot(x) PROVE IInv'
<1> USE DEF IInv, Take, Release, Root, Unroot, Idle, operation, mutator
<1>1. TypeOK'
  BY DEF TypeOK, collector
<1>2. Held' \subseteq Needed
  BY NearIsClosed DEF Held, Roots, InHand, Needed
<1>3. OperationInv'
  BY DEF OperationInv
<1> QED
  BY <1>1, <1>2, <1>3, HeldStep

LEMMA PushInv == ASSUME IInv, Push PROVE IInv'
<1> USE DEF IInv, Push
<1>1. TypeOK' /\ OperationInv'
  BY DEF TypeOK, OperationInv, collector
<1>2. Held' \subseteq Needed
  BY NearIsClosed DEF Held, Roots, InHand, Needed
<1> QED
  BY <1>1, <1>2, HeldStep

LEMMA ExemptInv == ASSUME IInv, NEW x \in Objs, Exempt(x) PROVE IInv'
<1> USE DEF IInv, Exempt, Idle, operation
<1>1. /\ exempt' \in Seq(Objs) /\ Elements(exempt') = {x} \cup Elements(exempt)
      /\ Len(exempt') = Len(exempt) + 1 /\ Len(exempt') < MaxExempt
  BY Cons DEF TypeOK
<1>2. TypeOK'
  BY <1>1, GCAssumption DEF TypeOK, collector
<1>3. Held' \subseteq Needed
  BY <1>1, NearIsClosed DEF Held, Roots, InHand, Needed
<1>4. OperationInv'
  BY <1>1 DEF OperationInv
<1> QED
  BY <1>2, <1>3, <1>4, HeldStep

LEMMA UnexemptInv == ASSUME IInv, Unexempt PROVE IInv'
<1> USE DEF IInv, Unexempt, Idle, operation
<1>1. /\ exempt' \in Seq(Objs) /\ Elements(exempt') \subseteq Elements(exempt)
      /\ Len(exempt') = Len(exempt) - 1 /\ Len(exempt) < MaxExempt
  BY TailElements DEF TypeOK, OperationInv
<1>2. TypeOK'
  BY <1>1, GCAssumption DEF TypeOK, collector
<1>3. Held' \subseteq Needed
  BY <1>1, NearIsClosed DEF Held, Roots, InHand, Needed
<1>4. OperationInv'
  BY <1>1, GCAssumption DEF OperationInv
<1> QED
  BY <1>2, <1>3, <1>4, HeldStep

LEMMA GrowInv == ASSUME IInv, Grow \/ Grown PROVE IInv'
<1> USE DEF IInv, Grow, Grown, Idle, mutator
<1>1. TypeOK' /\ OperationInv'
  BY DEF TypeOK, OperationInv, collector
<1>2. Held' \subseteq Needed
  BY NearIsClosed DEF Held, Roots, InHand, Needed
<1> QED
  BY <1>1, <1>2, HeldStep

LEMMA NewInv == ASSUME IInv, NEW ys \in SUBSET Objs, New(ys) PROVE IInv'
<1> USE DEF IInv, New, Idle, mutator
<1>1. TypeOK' /\ OperationInv'
  BY DEF TypeOK, OperationInv, collector
<1>2. Held' \subseteq Needed
  BY NearIsClosed DEF Held, Roots, InHand, Needed
<1> QED
  BY <1>1, <1>2, HeldStep

LEMMA InternInv == ASSUME IInv, NEW c \in Contents, Intern(c) PROVE IInv'
<1> USE DEF IInv, Intern, Idle, mutator
<1>1. CASE \E s \in strings : content[s] = c
  <2>1. PICK s \in strings : hand' = hand \cup {s}
    BY <1>1
  <2>2. TypeOK' /\ OperationInv'
    BY <1>1, <2>1 DEF TypeOK, OperationInv, collector
  <2>3. Held' \subseteq Needed
    BY <1>1, <2>1, NearIsClosed DEF Held, Roots, InHand, Needed
  <2> QED
    BY <2>2, <2>3, HeldStep
<1>2. CASE ~\E s \in strings : content[s] = c
  <2>1. TypeOK' /\ OperationInv'
    BY <1>2 DEF TypeOK, OperationInv, collector
  <2>2. Held' \subseteq Needed
    BY <1>2, NearIsClosed DEF Held, Roots, InHand, Needed
  <2> QED
    BY <2>1, <2>2, HeldStep
<1> QED
  BY <1>1, <1>2

(* An object that has just been allocated: nothing pointed to it. *)
LEMMA AllocateStep ==
    ASSUME IInv, phase = "run", NEW o \in Objs, NEW c, NEW ys \in SUBSET Near,
           Allocate(o, c, ys), Held' \subseteq Held \cup {o}
    PROVE  /\ o \notin Near /\ Near' \subseteq Near \cup {o}
           /\ Distinct' /\ Elements(list)' \subseteq heap'
           /\ Elements(list)' = {o} \cup Elements(list)
           /\ list' \in Seq(Objs)
<1> USE DEF IInv, Allocate
<1>1. o \notin Near /\ o \notin Elements(list)
  BY DEF Needed
<1>2. \A x \in Near \cup {o} : refs'[x] \subseteq Near \cup {o}
  BY <1>1, NearIsClosed DEF TypeOK
<1>3. Held' \subseteq Near \cup {o} /\ Near \cup {o} \in SUBSET Objs
  BY NearIsClosed
<1>4. Near' \subseteq Near \cup {o}
  BY <1>2, <1>3, Closures, ClosureIsLeast
<1>7. /\ list' \in Seq(Objs) /\ Len(list') = Len(list) + 1 /\ list'[1] = o
      /\ \A i \in 1..Len(list) : list'[i + 1] = list[i]
      /\ Elements(list') = {o} \cup Elements(list)
  BY Cons DEF TypeOK
<1>8. ASSUME NEW i \in DOMAIN list', NEW j \in DOMAIN list', list'[i] = list'[j] PROVE i = j
  <2>1. ASSUME NEW k \in DOMAIN list', k # 1
        PROVE  /\ k - 1 \in DOMAIN list /\ list'[k] = list[k - 1]
               /\ list'[k] \in Elements(list) /\ list'[k] # o
    <3>1. k - 1 \in 1..Len(list) /\ k = (k - 1) + 1
      BY <1>7, <2>1 DEF TypeOK
    <3> QED
      BY <1>1, <1>7, <3>1 DEF Elements, TypeOK
  <2>2. CASE i = 1 \/ j = 1
    BY <1>7, <1>8, <2>1, <2>2
  <2>3. CASE i # 1 /\ j # 1
    BY <1>7, <1>8, <2>1, <2>3 DEF Distinct, TypeOK
  <2> QED
    BY <2>2, <2>3
<1> QED
  BY <1>1, <1>4, <1>7, <1>8 DEF Distinct, Elements

LEMMA MadeInv == ASSUME IInv, NEW o \in Objs, Made(o) PROVE IInv'
<1> USE DEF IInv, Made, Allocate, collector
<1>1. args \subseteq Near /\ Held' \subseteq Held \cup {o}
  BY NearIsClosed DEF Held, Roots, InHand
<1>3. /\ o \notin Near /\ Near' \subseteq Near \cup {o}
      /\ Distinct' /\ Elements(list)' \subseteq heap'
      /\ Elements(list)' = {o} \cup Elements(list) /\ list' \in Seq(Objs)
  BY <1>1, AllocateStep
<1>4. TypeOK'
  BY <1>1, <1>3, NearIsClosed DEF TypeOK
<1>5. Needed' \subseteq Elements(list)'
  BY <1>3 DEF Needed
<1>6. o \notin strings /\ content'[o] = None /\ (\A x \in Objs \ {o} : content'[x] = content[x])
  BY DEF Needed, TypeOK
<1>7. InternedOnce'
  BY <1>3, <1>6 DEF InternedOnce, Strings, TypeOK
<1>8. StringsAreLeaves'
  BY <1>6 DEF StringsAreLeaves, Strings, TypeOK
<1>9. OperationInv'
  BY DEF OperationInv
<1> QED
  BY <1>3, <1>4, <1>5, <1>7, <1>8, <1>9 DEF TraceInv, SweepInv

LEMMA StringInv == ASSUME IInv, NEW o \in Objs, String(o) PROVE IInv'
<1> USE DEF IInv, String, Allocate, collector
<1>1. PICK c \in args : Allocate(o, c, {})
  OBVIOUS
<1>2. /\ c \in Contents /\ c # None
      /\ \A s \in strings : content[s] # c
  BY GCAssumption DEF OperationInv
<1>3. /\ exempt' \in Seq(Objs) /\ exempt' # <<>> /\ exempt'[1] = o
      /\ Elements(exempt') = {o} \cup Elements(exempt)
      /\ Len(exempt') = Len(exempt) + 1 /\ Len(exempt) < MaxExempt
  BY Cons DEF TypeOK, OperationInv
<1>4. Held' \subseteq Held \cup {o}
  BY <1>3 DEF Held, Roots, InHand
<1>5. /\ o \notin Near /\ Near' \subseteq Near \cup {o}
      /\ Distinct' /\ Elements(list)' \subseteq heap'
      /\ Elements(list)' = {o} \cup Elements(list) /\ list' \in Seq(Objs)
  BY <1>1, <1>4, AllocateStep
<1>6. TypeOK'
  BY <1>1, <1>2, <1>3, <1>5, GCAssumption DEF TypeOK
<1>7. Needed' \subseteq Elements(list)'
  BY <1>5 DEF Needed
<1>8. o \notin strings /\ content'[o] = c /\ (\A x \in Objs \ {o} : content'[x] = content[x])
  BY <1>1 DEF Needed, TypeOK
<1>9. InternedOnce'
  BY <1>5, <1>8 DEF InternedOnce, Strings, TypeOK
<1>10. StringsAreLeaves'
  BY <1>1, <1>8 DEF StringsAreLeaves, Strings, TypeOK
<1>11. OperationInv'
  BY <1>2, <1>3, <1>8 DEF OperationInv, TypeOK
<1> QED
  BY <1>5, <1>6, <1>7, <1>9, <1>10, <1>11 DEF TraceInv, SweepInv

LEMMA TableInv == ASSUME IInv, Table PROVE IInv'
<1> USE DEF IInv, Table, collector
<1>1. PICK o \in Objs : /\ args = {o} /\ exempt # <<>> /\ exempt[1] = o /\ content[o] # None
                        /\ \A s \in strings : content[s] # content[o]
  BY DEF OperationInv, TypeOK
<1>2. /\ Tail(exempt) \in Seq(Objs) /\ Elements(exempt) = {o} \cup Elements(Tail(exempt))
      /\ Len(Tail(exempt)) = Len(exempt) - 1 /\ Len(exempt) <= MaxExempt
  BY <1>1, TailElements DEF TypeOK
<1>3. TypeOK'
  BY <1>1, <1>2, GCAssumption DEF TypeOK
<1>4. o \in Held /\ Held' \subseteq Held
  BY <1>1, <1>2 DEF Held, Roots, InHand
<1>5. Near' \subseteq Near /\ o \in Near
  BY <1>4, NearIsClosed, Closures, ClosureIsLeast
<1>6. Needed' \subseteq Elements(list)' /\ Elements(list)' \subseteq heap' /\ Distinct'
  BY <1>1, <1>5 DEF Needed, Elements, Distinct
<1>7. InternedOnce'
  BY <1>1, <1>5 DEF InternedOnce, Strings
<1>8. StringsAreLeaves'
  BY <1>1 DEF StringsAreLeaves, Strings
<1>9. OperationInv'
  BY <1>2, GCAssumption DEF OperationInv, TypeOK
<1> QED
  BY <1>3, <1>6, <1>7, <1>8, <1>9 DEF TraceInv, SweepInv
-----------------------------------------------------------------------------
(* Most steps of a collection leave what is needed and the operation in
   progress alone.                                                         *)
LEMMA GcStep ==
    ASSUME IInv, TypeOK', UNCHANGED <<content, refs, strings, roots, exempt, operation>>
    PROVE  /\ Roots' = Roots /\ Reach' = Reach /\ Needed' = Needed
           /\ InternedOnce' /\ StringsAreLeaves' /\ OperationInv'
<1> USE DEF IInv, operation
<1>1. Roots' = Roots /\ Held' = Held
  BY DEF Held, Roots, InHand
<1>2. Reach' = Reach /\ Near' = Near
  BY <1>1, Closures
<1> QED
  BY <1>1, <1>2 DEF Needed, InternedOnce, StringsAreLeaves, OperationInv, Strings

LEMMA CollectInv == ASSUME IInv, Collect PROVE IInv'
<1> USE DEF IInv, Collect, Mark, mutator
<1>1. marked = {} /\ Roots \subseteq Reach /\ Roots \subseteq Objs
  BY NearIsClosed
<1>2. TypeOK'
  BY <1>1 DEF TypeOK, operation
<1>3. /\ Roots' = Roots /\ Reach' = Reach /\ Needed' = Needed
      /\ InternedOnce' /\ StringsAreLeaves' /\ OperationInv'
  BY <1>2, GcStep
<1>4. TraceInv'
  BY <1>1, <1>3 DEF TraceInv
<1> QED
  BY <1>2, <1>3, <1>4 DEF SweepInv, Distinct, Elements

LEMMA BlackenInv == ASSUME IInv, NEW o \in Objs, Blacken(o) PROVE IInv'
<1> USE DEF IInv, Blacken, mutator
<1>1. o \in Reach /\ refs[o] \subseteq Reach /\ Reach \subseteq Objs
  BY NearIsClosed DEF TraceInv
<1>2. TypeOK'
  BY <1>1 DEF TypeOK, operation
<1>3. /\ Roots' = Roots /\ Reach' = Reach /\ Needed' = Needed
      /\ InternedOnce' /\ StringsAreLeaves' /\ OperationInv'
  BY <1>2, GcStep
<1>4. TraceInv'
  BY <1>1, <1>3 DEF TraceInv
<1> QED
  BY <1>2, <1>3, <1>4 DEF SweepInv, Distinct, Elements

LEMMA AllMarked == ASSUME IInv, phase = "trace", gray = {} PROVE marked = Reach
<1>1. marked \in SUBSET Objs /\ Roots \subseteq marked /\ \A x \in marked : refs[x] \subseteq marked
  BY DEF IInv, TraceInv, TypeOK
<1> QED
  BY <1>1, Closures, ClosureIsLeast DEF IInv, TraceInv

(* What an operation has in hand is marked, or forgotten: what can be got
   at then is what is marked.                                              *)
LEMMA RemoveWhiteInv == ASSUME IInv, RemoveWhite PROVE IInv'
<1> USE DEF IInv, RemoveWhite, SweepStrings
<1>1. marked = Reach /\ UNCHANGED <<refs, content>>
  BY AllMarked
<1>2. Roots' = Roots /\ Held' \subseteq Reach /\ Roots' \subseteq Held'
  BY <1>1, NearIsClosed DEF Roots, Held, InHand, operation
<1>3. Near' = marked
  <2>1. Near' \subseteq Reach
    BY <1>1, <1>2, NearIsClosed, Closures, ClosureIsLeast
  <2>2. Held' \in SUBSET Objs /\ refs' \in [Objs -> SUBSET Objs]
    BY <1>1, <1>2, NearIsClosed DEF TypeOK
  <2>3. Held' \subseteq Near' /\ (\A x \in Near' : refs'[x] \subseteq Near') /\ Near' \in SUBSET Objs
    BY <2>2, Closures, ClosureIsClosed
  <2>4. Reach \subseteq Near'
    BY <1>1, <1>2, <2>3, Closures, ClosureIsLeast
  <2> QED
    BY <1>1, <2>1, <2>4
<1>4. TypeOK'
  <2>1. prev' \in BOOLEAN
    BY Zenon
  <2>2. pos' \in Nat \ {0} /\ phase' \in {"run", "sweep"} /\ strings' \subseteq Objs
    BY DEF TypeOK
  <2>3. hand' \subseteq Objs /\ pc' \in {pc, "lost"} /\ args' \in {args, {}}
    BY DEF TypeOK, operation
  <2> QED
    BY <2>1, <2>2, <2>3 DEF TypeOK
<1>5. Needed' = marked /\ marked \subseteq Near /\ marked \subseteq Elements(list)
  BY <1>1, <1>3, NearIsClosed DEF Needed
<1>6. InternedOnce'
  <2>1. /\ strings' = strings \cap marked /\ Strings' = Strings /\ content' = content
        /\ Near' \subseteq Near \cap marked
    BY <1>1, <1>3, <1>5 DEF Strings
  <2>2. CASE InHand \subseteq marked
    BY <2>1, <2>2 DEF InternedOnce, operation
  <2>3. CASE ~(InHand \subseteq marked)
    <3>1. pc # "lost" /\ pc' = "lost" /\ (pc = "table" => args' = args)
      BY <2>3 DEF OperationInv, InHand
    <3> QED
      BY <2>1, <3>1 DEF InternedOnce
  <2> QED
    BY <2>2, <2>3
<1>7. StringsAreLeaves' /\ OperationInv'
  BY <1>1 DEF StringsAreLeaves, Strings, OperationInv, operation
<1>8. SweepInv'
  BY <1>4, <1>5 DEF SweepInv, Elements, TypeOK
<1> QED
  BY <1>4, <1>5, <1>6, <1>7, <1>8 DEF TraceInv, Distinct, Elements

LEMMA KeepInv == ASSUME IInv, Keep PROVE IInv'
<1> USE DEF IInv, Keep, mutator
<1>1. TypeOK'
  BY DEF TypeOK, operation
<1>2. /\ Roots' = Roots /\ Reach' = Reach /\ Needed' = Needed
      /\ InternedOnce' /\ StringsAreLeaves' /\ OperationInv'
  BY <1>1, GcStep
<1>4. /\ pos \in Nat /\ Len(list) \in Nat /\ pos \in DOMAIN list
      /\ \A i \in (pos + 1)..Len(list) : i \in DOMAIN list /\ i \in pos..Len(list) /\ i # pos
  BY DEF TypeOK
<1>5. \A i \in (pos + 1)..Len(list) : list[i] # list[pos]
  BY <1>4 DEF Distinct
<1>6. ASSUME NEW x \in marked' PROVE x \in {list[i] : i \in (pos + 1)..Len(list)}
  <2>1. PICK i \in pos..Len(list) : x = list[i]
    BY DEF SweepInv
  <2> QED
    BY <1>4, <2>1
<1>7. SweepInv'
  BY <1>2, <1>4, <1>5, <1>6 DEF SweepInv
<1> QED
  BY <1>1, <1>2, <1>7 DEF TraceInv, Distinct, Elements

LEMMA SweepDoneInv == ASSUME IInv, SweepDone PROVE IInv'
<1> USE DEF IInv, SweepDone, mutator
<1>1. TypeOK'
  <2>1. prev' \in BOOLEAN
    BY Zenon
  <2>2. pos' \in Nat \ {0} /\ phase' \in {"run", "sweep"} /\ strings' \subseteq Objs
    BY DEF TypeOK
  <2> QED
    BY <2>1, <2>2, Zenon DEF TypeOK, operation
<1>2. /\ Roots' = Roots /\ Reach' = Reach /\ Needed' = Needed
      /\ InternedOnce' /\ StringsAreLeaves' /\ OperationInv'
  BY <1>1, GcStep
<1>3. marked = {} /\ gray = {}
  BY DEF SweepInv, TypeOK
<1> QED
  BY <1>1, <1>2, <1>3 DEF TraceInv, SweepInv, Distinct, Elements

LEMMA VmFreeInv == ASSUME IInv, VmFree PROVE IInv'
<1> USE DEF IInv, VmFree, Idle
<1>1. content' = [o \in Objs |-> None] /\ refs' = [o \in Objs |-> {}] /\ heap' \subseteq Objs
  BY DEF TypeOK
<1>2. Held' = {} /\ Elements(list)' = {}
  BY DEF Held, Roots, InHand, Elements
<1>3. Near' = {}
  BY <1>2, Closures, ClosureIsLeast
<1>4. content' \in [Objs -> Contents \cup {None}] /\ refs' \in [Objs -> SUBSET Objs]
  BY <1>1
<1>5. TypeOK' /\ OperationInv'
  BY <1>1, <1>4, GCAssumption DEF TypeOK, OperationInv
<1> QED
  BY <1>2, <1>3, <1>5 DEF TraceInv, SweepInv, Distinct, Needed, InternedOnce,
     StringsAreLeaves, Strings
-----------------------------------------------------------------------------
(* A list without the elements from m + 1 to n *)
LEMMA Without ==
    ASSUME NEW S, NEW s \in Seq(S), NEW n \in 1..Len(s), NEW m \in 0..(n - 1)
    PROVE  LET r == SubSeq(s, 1, m) \o SubSeq(s, n + 1, Len(s)) IN
           /\ r \in Seq(S) /\ Len(r) = m + (Len(s) - n)
           /\ DOMAIN r = 1..Len(r) /\ Len(r) \in Nat
           /\ \A i \in 1..m : r[i] = s[i]
           /\ \A i \in (m + 1)..Len(r) : r[i] = s[i + (n - m)]
<1> DEFINE a == SubSeq(s, 1, m)
           b == SubSeq(s, n + 1, Len(s))
           r == a \o b
<1>1. /\ a \in Seq(S) /\ Len(a) = m
      /\ \A i \in 1..m : a[i] = s[i]
  OBVIOUS
<1>2. /\ b \in Seq(S) /\ Len(b) = Len(s) - n
      /\ \A i \in 1..(Len(s) - n) : b[i] = s[n + i]
  OBVIOUS
<1>3. Len(s) \in Nat /\ n \in Nat /\ m \in Nat
  OBVIOUS
<1> HIDE DEF a, b
<1>4. /\ r \in Seq(S) /\ Len(r) = m + (Len(s) - n)
      /\ \A i \in 1..Len(r) : r[i] = IF i <= m THEN a[i] ELSE b[i - m]
  <2>1. /\ r \in Seq(S) /\ Len(r) = Len(a) + Len(b)
        /\ \A i \in 1..(Len(a) + Len(b)) : r[i] = IF i <= Len(a) THEN a[i] ELSE b[i - Len(a)]
    BY <1>1, <1>2, ConcatProperties, Zenon
  <2> QED
    BY <1>1, <1>2, <2>1
<1> HIDE DEF r
<1>5. ASSUME NEW i \in 1..m PROVE r[i] = s[i]
  BY <1>1, <1>3, <1>4
<1>6. ASSUME NEW i \in (m + 1)..Len(r) PROVE r[i] = s[i + (n - m)]
  <2>1. i - m \in 1..(Len(s) - n) /\ r[i] = b[i - m] /\ n + (i - m) = i + (n - m)
    BY <1>3, <1>4
  <2> QED
    BY <1>2, <2>1
<1>7. DOMAIN r = 1..Len(r) /\ Len(r) \in Nat
  BY <1>4
<1> QED
  BY <1>4, <1>5, <1>6, <1>7 DEF a, b, r

(* Clearing an object that is not needed changes nothing that is. *)
LEMMA ForgetStep ==
    ASSUME IInv, NEW f \in Objs, f \notin Needed, Forget(f),
           UNCHANGED <<strings, roots, exempt, operation>>
    PROVE  /\ Roots' = Roots /\ Reach' = Reach /\ Needed' = Needed
           /\ InternedOnce' /\ StringsAreLeaves' /\ OperationInv'
           /\ content' \in [Objs -> Contents \cup {None}] /\ refs' \in [Objs -> SUBSET Objs]
<1> USE DEF IInv, Forget, operation
<1>1. /\ \A x \in Objs \ {f} : content'[x] = content[x] /\ refs'[x] = refs[x]
      /\ content'[f] = None /\ refs'[f] = {}
      /\ content' \in [Objs -> Contents \cup {None}] /\ refs' \in [Objs -> SUBSET Objs]
  BY DEF TypeOK
<1>2. Roots' = Roots /\ Held' = Held
  BY DEF Roots, Held, InHand
<1>3. f \notin strings /\ f \notin Near /\ f \notin Reach
  BY NearIsClosed DEF Needed
<1>4. /\ Roots \in SUBSET Objs /\ Held \in SUBSET Objs
      /\ refs \in [Objs -> SUBSET Objs] /\ strings \subseteq Objs
  BY NearIsClosed DEF TypeOK
<1>5. Reach' = Reach
  BY <1>1, <1>2, <1>3, <1>4, Closures, ClosureWithout
<1>6. Near' = Near
  BY <1>1, <1>2, <1>3, <1>4, Closures, ClosureWithout
<1>7. Needed' = Needed
  BY <1>6 DEF Needed
<1>8. InternedOnce'
  BY <1>1, <1>3, <1>4, <1>6 DEF InternedOnce, Strings
<1>9. StringsAreLeaves'
  BY <1>1, <1>3, <1>4 DEF StringsAreLeaves, Strings
<1>10. pc = "table" => exempt[1] \in Objs \ {f}
  <2> SUFFICES ASSUME pc = "table" PROVE exempt[1] \in Objs \ {f}
    OBVIOUS
  <2>1. 1 \in DOMAIN exempt
    BY DEF OperationInv, TypeOK
  <2>2. exempt[1] \in Roots
    BY <2>1 DEF Roots, Elements
  <2> QED
    BY <1>3, <2>2, NearIsClosed
<1>11. OperationInv'
  BY <1>1, <1>3, <1>4, <1>10 DEF OperationInv
<1> QED
  BY <1>1, <1>2, <1>5, <1>7, <1>8, <1>9, <1>11

LEMMA SweepOneInv == ASSUME IInv, SweepOne PROVE IInv'
<1> DEFINE f == list[pos]
           m == IF prev THEN pos - 1 ELSE 0
           r == SubSeq(list, 1, m) \o SubSeq(list, pos + 1, Len(list))
<1> USE DEF IInv
<1>1. /\ pos \in 1..Len(list) /\ Len(list) \in Nat /\ m \in 0..(pos - 1)
      /\ list \in Seq(Objs) /\ f \in Objs
  BY DEF SweepOne, TypeOK
<1>2. f \notin marked /\ f \notin Needed
  BY <1>1 DEF SweepOne, SweepInv
<1>3. /\ Roots' = Roots /\ Reach' = Reach /\ Needed' = Needed
      /\ InternedOnce' /\ StringsAreLeaves' /\ OperationInv'
      /\ content' \in [Objs -> Contents \cup {None}] /\ refs' \in [Objs -> SUBSET Objs]
  BY <1>1, <1>2, ForgetStep DEF SweepOne
<1>4. Before = SubSeq(list, 1, m) /\ Len(Before) = m
  BY <1>1 DEF Before
<1>5. /\ r \in Seq(Objs) /\ Len(r) = m + (Len(list) - pos)
      /\ DOMAIN r = 1..Len(r) /\ Len(r) \in Nat
      /\ \A i \in 1..m : r[i] = list[i]
      /\ \A i \in (m + 1)..Len(r) : r[i] = list[i + (pos - m)]
  BY <1>1, Without, ZenonT(30)
<1>6. Before \o After = r
  BY <1>4 DEF After
<1> HIDE DEF m, r, f
(* What is left is what there was, without f and what is not needed. *)
<1>7. \A i, j \in DOMAIN r : r[i] = r[j] => i = j
  <2> SUFFICES ASSUME NEW i \in DOMAIN r, NEW j \in DOMAIN r, r[i] = r[j] PROVE i = j
    OBVIOUS
  <2> DEFINE g(k) == IF k <= m THEN k ELSE k + (pos - m)
  <2>1. ASSUME NEW k \in DOMAIN r PROVE g(k) \in DOMAIN list /\ r[k] = list[g(k)]
    <3>1. CASE k <= m
      BY <1>1, <1>5, <3>1
    <3>2. CASE k > m
      <4>1. k \in (m + 1)..Len(r) /\ k + (pos - m) \in 1..Len(list)
        BY <1>1, <1>5, <3>2
      <4>2. g(k) = k + (pos - m)
        BY <1>1, <1>5, <3>2
      <4> QED
        BY <1>1, <1>5, <4>1, <4>2
    <3> QED
      BY <1>1, <1>5, <3>1, <3>2
  <2>2. g(i) = g(j)
    BY <2>1 DEF Distinct
  <2> QED
    BY <1>1, <1>5, <2>2
<1>8. Elements(r) \subseteq Elements(list) \ {f}
  <2> SUFFICES ASSUME NEW i \in DOMAIN r PROVE r[i] \in Elements(list) /\ r[i] # f
    BY DEF Elements
  <2>1. PICK k \in DOMAIN list : r[i] = list[k] /\ k # pos
    <3>1. CASE i <= m
      BY <1>1, <1>5, <3>1
    <3>2. CASE i > m
      BY <1>1, <1>5, <3>2, i + (pos - m) \in DOMAIN list
    <3> QED
      BY <1>1, <1>5, <3>1, <3>2
  <2> QED
    BY <1>1, <2>1 DEF Distinct, Elements, f
<1>9. ASSUME NEW j \in (pos + 1)..Len(list)
      PROVE  j - (pos - m) \in (m + 1)..Len(r) /\ r[j - (pos - m)] = list[j]
  BY <1>1, <1>5
<1>10. Needed \subseteq Elements(r)
  <2> SUFFICES ASSUME NEW x \in Needed PROVE x \in Elements(r)
    OBVIOUS
  <2>1. PICK j \in DOMAIN list : x = list[j]
    BY DEF Elements
  <2>2. j # pos
    BY <1>2, <2>1 DEF f
  <2>3. CASE j < pos
    <3>1. prev
      BY <1>1, <2>1, <2>3 DEF SweepInv, SweepOne
    <3>2. m = pos - 1 /\ j \in 1..m
      BY <1>1, <2>3, <3>1 DEF m
    <3>3. j \in DOMAIN r /\ r[j] = x
      BY <1>1, <1>5, <2>1, <3>2
    <3> QED
      BY <3>3 DEF Elements
  <2>4. CASE j > pos
    <3>1. j \in (pos + 1)..Len(list)
      BY <1>1, <2>4
    <3>2. j - (pos - m) \in DOMAIN r /\ r[j - (pos - m)] = x
      BY <1>1, <1>5, <1>9, <2>1, <3>1
    <3> QED
      BY <3>2 DEF Elements
  <2> QED
    BY <1>1, <2>2, <2>3, <2>4
<1>11. marked \subseteq {r[i] : i \in (m + 1)..Len(r)}
  <2> SUFFICES ASSUME NEW x \in marked PROVE x \in {r[i] : i \in (m + 1)..Len(r)}
    OBVIOUS
  <2>1. PICK j \in pos..Len(list) : x = list[j]
    BY DEF SweepInv, SweepOne
  <2>2. j \in (pos + 1)..Len(list)
    BY <1>1, <1>2, <2>1 DEF f
  <2> QED
    BY <1>9, <2>1, <2>2
<1>12. \A i \in (m + 1)..Len(r) : r[i] \in Needed => r[i] \in marked
  <2> SUFFICES ASSUME NEW i \in (m + 1)..Len(r), r[i] \in Needed PROVE r[i] \in marked
    OBVIOUS
  <2>1. i + (pos - m) \in pos..Len(list) /\ r[i] = list[i + (pos - m)]
    BY <1>1, <1>5
  <2> QED
    BY <2>1 DEF SweepInv, SweepOne
<1>13. ~prev => m = 0
  BY DEF m
<1>14. CASE heap' = heap \ {f} /\ list' = r /\ pos' = m + 1
  <2>1. TypeOK'
    BY <1>1, <1>3, <1>5, <1>14 DEF TypeOK, SweepOne, operation
  <2>2. Distinct' /\ Elements(list)' \subseteq heap' /\ Needed' \subseteq Elements(list)'
    BY <1>3, <1>7, <1>8, <1>10, <1>14 DEF Distinct, Elements
  <2>3. SweepInv'
    BY <1>1, <1>3, <1>5, <1>11, <1>12, <1>13, <1>14 DEF SweepInv, SweepOne
  <2> QED
    BY <1>3, <2>1, <2>2, <2>3 DEF TraceInv, SweepOne
<1>15. ASSUME NEW e \in Objs \ heap, heap' = (heap \ {f}) \cup {e},
              list' = <<e>> \o r, pos' = m + 2
       PROVE  IInv'
  <2>1. /\ list' \in Seq(Objs) /\ Len(list') = Len(r) + 1 /\ list'[1] = e
        /\ \A i \in 1..Len(r) : list'[i + 1] = r[i]
        /\ DOMAIN list' = 1..Len(list') /\ Elements(list') = {e} \cup Elements(r)
    BY <1>5, <1>15, Cons
  <2>2. e \notin Elements(list) /\ e \notin Needed /\ e # f
    BY <1>1 DEF Elements, f
  <2>3. TypeOK'
    BY <1>1, <1>3, <1>5, <1>15, <2>1 DEF TypeOK, SweepOne, operation
  <2>4. \A i \in 2..Len(list') : i - 1 \in DOMAIN r /\ list'[i] = r[i - 1] /\ list'[i] # e
    <3> SUFFICES ASSUME NEW i \in 2..Len(list')
                 PROVE  i - 1 \in DOMAIN r /\ list'[i] = r[i - 1] /\ list'[i] # e
      OBVIOUS
    <3>1. i - 1 \in 1..Len(r) /\ (i - 1) + 1 = i
      BY <1>5, <2>1
    <3>2. list'[i] = r[i - 1]
      BY <2>1, <3>1
    <3>3. r[i - 1] \in Elements(r)
      BY <1>5, <3>1 DEF Elements
    <3> QED
      BY <1>5, <1>8, <2>2, <3>1, <3>2, <3>3
  <2>5. Distinct'
    <3> SUFFICES ASSUME NEW i \in DOMAIN list', NEW j \in DOMAIN list', list'[i] = list'[j]
                 PROVE  i = j
      BY DEF Distinct
    <3>1. CASE i = 1 \/ j = 1
      BY <2>1, <2>4, <3>1
    <3>2. CASE i # 1 /\ j # 1
      <4>1. i \in 2..Len(list') /\ j \in 2..Len(list')
        BY <1>5, <2>1, <3>2
      <4>2. i - 1 = j - 1
        BY <1>7, <2>4, <4>1
      <4> QED
        BY <4>1, <4>2
    <3> QED
      BY <3>1, <3>2
  <2>6. Elements(list)' \subseteq heap' /\ Needed' \subseteq Elements(list)'
    BY <1>3, <1>8, <1>10, <1>15, <2>1
  <2>7. SweepInv'
    <3>1. pos' <= Len(list') + 1 /\ gray' = {} /\ marked' = marked
      BY <1>1, <1>5, <1>15, <2>1 DEF SweepInv, SweepOne
    <3>2. marked \subseteq {list'[i] : i \in (m + 2)..Len(list')}
      <4> SUFFICES ASSUME NEW x \in marked PROVE x \in {list'[i] : i \in (m + 2)..Len(list')}
        OBVIOUS
      <4>1. PICK i \in (m + 1)..Len(r) : x = r[i]
        BY <1>11
      <4>2. i + 1 \in (m + 2)..Len(list') /\ list'[i + 1] = x
        BY <1>1, <1>5, <2>1, <4>1
      <4> QED
        BY <4>2
    <3>3. ASSUME NEW i \in (m + 2)..Len(list'), list'[i] \in Needed PROVE list'[i] \in marked
      BY <1>1, <1>5, <1>12, <2>1, <2>4, <3>3, i - 1 \in (m + 1)..Len(r)
    <3>4. ~prev => \A i \in 1..(m + 1) : list'[i] \notin Needed
      BY <1>13, <2>1, <2>2
    <3> QED
      <4>1. pos' = m + 2 /\ pos' - 1 = m + 1 /\ prev' = prev /\ Needed' = Needed
        BY <1>1, <1>3, <1>15 DEF SweepOne
      <4> QED
        BY <3>1, <3>2, <3>3, <3>4, <4>1 DEF SweepInv
  <2> QED
    BY <1>3, <2>3, <2>5, <2>6, <2>7 DEF TraceInv, SweepOne
<1> QED
  BY <1>4, <1>6, <1>14, <1>15 DEF SweepOne, f, m, r

-----------------------------------------------------------------------------
LEMMA NextInv == IInv /\ [Next]_vars => IInv'
<1> SUFFICES ASSUME IInv, [Next]_vars PROVE IInv'
  OBVIOUS
<1>1. CASE UNCHANGED vars
  <2> USE <1>1 DEF vars, mutator, collector
  <2>1. TypeOK' = TypeOK
    BY DEF TypeOK, operation
  <2>2. /\ IInv => Roots' = Roots /\ Reach' = Reach /\ Needed' = Needed
        /\ IInv => InternedOnce' /\ StringsAreLeaves' /\ OperationInv'
    BY <2>1, GcStep DEF IInv
  <2>3. TraceInv' /\ SweepInv' /\ Distinct' /\ Elements(list)' = Elements(list)
    BY <2>2 DEF IInv, TraceInv, SweepInv, Distinct, Elements
  <2> QED
    BY <2>1, <2>2, <2>3 DEF IInv, operation
<1>2. CASE Mutate
  BY <1>2, LinkInv, TakeInv, PushInv, ExemptInv, UnexemptInv, GrowInv, NewInv, MadeInv,
     InternInv, StringInv, TableInv DEF Mutate
<1>3. CASE Gc
  BY <1>3, CollectInv, BlackenInv, RemoveWhiteInv, KeepInv, SweepOneInv, SweepDoneInv DEF Gc
<1>4. CASE VmFree
  BY <1>4, VmFreeInv
<1> QED
  BY <1>1, <1>2, <1>3, <1>4 DEF Next

(* The strengthening from which the properties follow *)
THEOREM IInvHolds == Spec => []IInv
<1>1. IInv /\ [Next]_vars => IInv'
  BY NextInv
<1> QED
  BY <1>1, InitInv, PTL DEF Spec

(* Objects, lists, marks and the state of the collector keep their types. *)
THEOREM TypesHold == Spec => []TypeOK
<1>1. IInv => TypeOK
  BY DEF IInv
<1> QED
  BY <1>1, IInvHolds, PTL

(* No collection, whenever it starts and wherever it stands, frees what is
   reachable from a root or an exempt object, nor what an operation has in
   hand before one finds it nowhere else; nor does it leave a freed string
   in the table of strings or free the one that is about to get into it.   *)
THEOREM LiveObjectsSurvive == Spec => []NothingLiveIsFreed
<1>1. IInv => NothingLiveIsFreed
  <2> SUFFICES ASSUME IInv PROVE NothingLiveIsFreed
    OBVIOUS
  <2>1. Roots \subseteq Near /\ Near \subseteq heap /\ strings \subseteq heap
    BY NearIsClosed DEF IInv, Needed
  <2>2. pc = "table" => exempt[1] \in Roots
    <3> SUFFICES ASSUME pc = "table" PROVE exempt[1] \in Roots
      OBVIOUS
    <3>1. 1 \in DOMAIN exempt
      BY DEF IInv, OperationInv, TypeOK
    <3> QED
      BY <3>1 DEF Roots, Elements
  <2> QED
    BY <2>1, <2>2 DEF IInv, OperationInv, NothingLiveIsFreed
<1> QED
  BY <1>1, IInvHolds, PTL

(* Two strings in the hands of the program that say the same are one object,
   although the table of strings does not keep its keys alive.              *)
THEOREM StringsAreInternedOnce == Spec => []InternedOnce
<1>1. IInv => InternedOnce
  BY DEF IInv
<1> QED
  BY <1>1, IInvHolds, PTL

(* The marker keeps its colours apart, and a sweep leaves no mark behind. *)
THEOREM MarkingIsTriColor == Spec => []TriColor
<1>1. IInv => TriColor
  BY DEF IInv, TraceInv, TriColor
<1> QED
  BY <1>1, IInvHolds, PTL

-----------------------------------------------------------------------------
(* Where no destructor fails the list holds all that is allocated, and what
   the sweep has passed is what is reachable.                              *)
ExactInv ==
    /\ heap = Elements(list)
    /\ phase = "sweep" =>
          /\ strings \subseteq Reach /\ marked \subseteq Reach
          /\ \A i \in 1..(pos - 1) : list[i] \in Reach
          /\ ~prev => pos = 1

LEMMA SweepOneExact ==
    ASSUME ~Failing, IInv, ExactInv, SweepOne
    PROVE  ExactInv'
<1> DEFINE f == list[pos]
           m == IF prev THEN pos - 1 ELSE 0
           r == SubSeq(list, 1, m) \o SubSeq(list, pos + 1, Len(list))
<1> USE DEF IInv
<1>1. /\ pos \in 1..Len(list) /\ Len(list) \in Nat /\ m = pos - 1 /\ m \in 0..(pos - 1)
      /\ list \in Seq(Objs) /\ f \in Objs
  BY DEF SweepOne, TypeOK, ExactInv
<1>2. f \notin Needed
  BY <1>1 DEF SweepOne, SweepInv
<1>3. Reach' = Reach
  BY <1>1, <1>2, ForgetStep DEF SweepOne
<1>4. /\ r \in Seq(Objs) /\ Len(r) = m + (Len(list) - pos)
      /\ DOMAIN r = 1..Len(r) /\ Len(r) \in Nat
      /\ \A i \in 1..m : r[i] = list[i]
      /\ \A i \in (m + 1)..Len(r) : r[i] = list[i + (pos - m)]
  <2>1. pos \in 1..Len(list) /\ m \in 0..(pos - 1) /\ list \in Seq(Objs)
    BY <1>1
  <2> QED
    BY <2>1, Without, ZenonT(30)
<1>5. Before \o After = r /\ Len(Before) = m
  <2>1. Before = SubSeq(list, 1, m) /\ Len(Before) = m
    BY <1>1 DEF Before
  <2> QED
    BY <2>1 DEF After
<1>6. heap' = heap \ {f} /\ list' = r /\ pos' = m + 1
  BY <1>5 DEF SweepOne, Fails
<1> HIDE DEF m, r
<1>7. Elements(r) \subseteq Elements(list) \ {f}
  <2> SUFFICES ASSUME NEW i \in DOMAIN r PROVE r[i] \in Elements(list) /\ r[i] # f
    BY DEF Elements
  <2>1. PICK k \in DOMAIN list : r[i] = list[k] /\ k # pos
    <3>1. CASE i <= m
      BY <1>1, <1>4, <3>1
    <3>2. CASE i > m
      <4>1. i \in (m + 1)..Len(r) /\ i + (pos - m) \in DOMAIN list /\ i + (pos - m) # pos
        BY <1>1, <1>4, <3>2
      <4> QED
        BY <1>4, <4>1
    <3> QED
      BY <1>1, <1>4, <3>1, <3>2
  <2> QED
    BY <1>1, <2>1 DEF Distinct, Elements
<1>8. Elements(list) \ {f} \subseteq Elements(r)
  <2> SUFFICES ASSUME NEW j \in DOMAIN list, list[j] # f PROVE list[j] \in Elements(r)
    BY DEF Elements
  <2>1. PICK i \in DOMAIN r : r[i] = list[j]
    <3>1. CASE j < pos
      <4>1. j \in 1..m /\ j \in DOMAIN r
        BY <1>1, <1>4, <3>1
      <4> QED
        BY <1>4, <4>1
    <3>2. CASE j > pos
      <4>1. j - (pos - m) \in (m + 1)..Len(r) /\ (j - (pos - m)) + (pos - m) = j
        BY <1>1, <1>4, <3>2
      <4> QED
        BY <1>1, <1>4, <4>1
    <3>3. j # pos /\ j \in Nat
      BY <1>1 DEF f
    <3> QED
      BY <1>1, <3>1, <3>2, <3>3
  <2> QED
    BY <2>1 DEF Elements
<1>9. \A i \in 1..(pos' - 1) : list'[i] \in Reach
  BY <1>1, <1>4, <1>6 DEF ExactInv, SweepOne
<1>10. ~prev => pos' = 1
  BY <1>1, <1>6 DEF ExactInv, SweepOne
<1>11. Elements(list)' = Elements(r) /\ heap = Elements(list)
  BY <1>6 DEF Elements, ExactInv
<1>12. phase' = "sweep" /\ strings' = strings /\ marked' = marked /\ prev' = prev
       /\ strings \subseteq Reach /\ marked \subseteq Reach
  BY DEF SweepOne, ExactInv
<1> QED
  BY <1>3, <1>6, <1>7, <1>8, <1>9, <1>10, <1>11, <1>12 DEF ExactInv

LEMMA NextExact == ASSUME ~Failing PROVE IInv /\ ExactInv /\ [Next]_vars => ExactInv'
<1> SUFFICES ASSUME IInv, ExactInv, [Next]_vars PROVE ExactInv'
  OBVIOUS
<1>1. CASE UNCHANGED vars
  BY <1>1 DEF vars, mutator, collector, ExactInv, Elements, Reach, From, Closed, Roots
<1>2. CASE UNCHANGED <<heap, list>> /\ phase' # "sweep"
  BY <1>2 DEF ExactInv, Elements
<1>3. ASSUME NEW o \in Objs, Made(o) \/ String(o) PROVE ExactInv'
  <2>1. heap' = heap \cup {o} /\ list' = <<o>> \o list /\ phase' # "sweep"
    BY <1>3 DEF Made, String, Allocate, collector
  <2>2. Elements(list') = {o} \cup Elements(list)
    BY <2>1, Cons DEF IInv, TypeOK
  <2> QED
    BY <2>1, <2>2 DEF ExactInv, Elements
<1>4. CASE Mutate
  BY <1>2, <1>3, <1>4 DEF Mutate, Link, Unlink, Take, Release, Root, Unroot, Push, Exempt, Unexempt,
     Grow, Grown, New, Intern, Table, Idle, collector
<1>5. CASE RemoveWhite
  <2>1. Reach' = Reach /\ marked \subseteq Reach
    BY <1>5 DEF RemoveWhite, SweepStrings, IInv, TraceInv, Reach, From, Closed, Roots
  <2> QED
    BY <1>5, <2>1 DEF RemoveWhite, SweepStrings, ExactInv, Elements
<1>6. CASE Keep
  <2>1. Reach' = Reach
    BY <1>6 DEF Keep, mutator, Reach, From, Closed, Roots
  <2>2. \A i \in 1..pos : list[i] \in Reach
    BY <1>6 DEF Keep, ExactInv, IInv, TypeOK
  <2>3. pos' - 1 = pos
    BY <1>6 DEF Keep, IInv, TypeOK
  <2>4. strings' \subseteq Reach /\ marked' \subseteq Reach /\ prev' /\ list' = list /\ heap' = heap
    BY <1>6 DEF Keep, ExactInv, mutator
  <2> QED
    BY <2>1, <2>2, <2>3, <2>4 DEF ExactInv, Elements
<1>7. CASE SweepOne
  BY <1>7, SweepOneExact
<1>8. CASE Gc
  BY <1>2, <1>5, <1>6, <1>7, <1>8 DEF Gc, Collect, Mark, Blacken, SweepDone
<1>9. CASE VmFree
  <2>1. heap' = {} /\ phase' = "freed" /\ list' = <<>>
    BY <1>9 DEF VmFree, Fails, ExactInv
  <2> QED
    BY <2>1 DEF ExactInv, Elements
<1> QED
  BY <1>1, <1>4, <1>8, <1>9 DEF Next

(* Together the two invariants are inductive. *)
THEOREM ExactInvHolds == ASSUME ~Failing PROVE Spec => [](IInv /\ ExactInv)
<1>1. Init => ExactInv
  BY DEF Init, ExactInv, Elements
<1>2. IInv /\ ExactInv /\ [Next]_vars => IInv' /\ ExactInv'
  BY NextInv, NextExact
<1> QED
  BY <1>1, <1>2, InitInv, PTL DEF Spec

(* No allocated object drops out of vm->objects or is in it twice. *)
THEOREM ListHoldsTheHeap == ASSUME ~Failing PROVE Spec => []ListIsHeap
<1>1. IInv /\ ExactInv => ListIsHeap
  BY DEF IInv, ExactInv, Distinct, ListIsHeap
<1> QED
  BY <1>1, ExactInvHolds, PTL

(* When a collection ends, what is allocated is what can be reached, and an
   operation has lost what it works on only if that could not be.          *)
THEOREM CollectionsAreExact == ASSUME ~Failing PROVE Spec => CollectionIsExact
<1>1. IInv /\ ExactInv /\ SweepDone => heap = Reach
  <2> SUFFICES ASSUME IInv, ExactInv, SweepDone PROVE heap = Reach
    OBVIOUS
  <2>1. \A i \in DOMAIN list : list[i] \in Reach
    BY DEF IInv, ExactInv, SweepDone, TypeOK
  <2>2. Reach \subseteq Elements(list)
    BY NearIsClosed DEF IInv, Needed
  <2> QED
    BY <2>1, <2>2 DEF ExactInv, Elements
<1>2. IInv /\ [Next]_vars /\ pc' = "lost" /\ pc # "lost" => ~(InHand \subseteq Reach)
  <2> SUFFICES ASSUME IInv, [Next]_vars, pc' = "lost", pc # "lost" PROVE ~(InHand \subseteq Reach)
    OBVIOUS
  <2>1. RemoveWhite
    BY DEF Next, Mutate, Gc, VmFree, vars, operation, Link, Unlink, Take, Release, Root, Unroot,
       Push, Exempt, Unexempt, Grow, Grown, New, Made, Intern, String, Table, Collect, Mark,
       Blacken, Keep, SweepOne, SweepDone
  <2>2. marked = Reach
    BY <2>1, AllMarked DEF RemoveWhite, SweepStrings
  <2> QED
    BY <2>1, <2>2 DEF RemoveWhite, SweepStrings, operation
<1>3. IInv /\ ExactInv /\ [Next]_vars =>
         [ /\ SweepDone => heap = Reach
           /\ pc' = "lost" /\ pc # "lost" => ~(InHand \subseteq Reach) ]_vars
  BY <1>1, <1>2
<1> QED
  BY <1>3, ExactInvHolds, PTL DEF Spec, CollectionIsExact
=============================================================================
