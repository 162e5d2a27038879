------------------------- MODULE JmlCoroutineProofs -------------------------
(***************************************************************************)
(* What holds of every program on every coroutine, whatever the bounds:    *)
(* the stacks are tiled by the frames (StacksAreSound), a variable has one *)
(* cell (UpvaluesAreExact), a caught exception lands where it is expected  *)
(* (CaughtWhereTried), and only an assignment changes what a variable      *)
(* holds (VariablesAreKept).                                               *)
(*                                                                         *)
(* IInv, of JmlCoroutineFacts, is inductive: each action is taken as what  *)
(* it does to the running coroutine and to the upvalues (a World), shown   *)
(* to fit the rest of the state and to leave the frames on the stack.      *)
(***************************************************************************)
EXTENDS JmlCoroutineFacts

-----------------------------------------------------------------------------
(* Closures. *)

(* No more is held when nothing new names an upvalue. *)
LEMMA HeldSame ==
    ASSUME NEW cs, NEW ds, NEW up, NEW more, NEW g,
           \A d \in Coros : ds[d].frames = cs[d].frames /\ ds[d].open = cs[d].open,
           \A d \in Coros : \A i \in DOMAIN ds[d].stack :
               \/ Names(ds[d].stack[i].val) = {}
               \/ i \in DOMAIN cs[d].stack /\ ds[d].stack[i] = cs[d].stack[i],
           \A u \in Upvalues : more[u].val = up[u].val
    PROVE  Held(ds, more, g) \subseteq Held(cs, up, g)
<1> SUFFICES ASSUME NEW u \in Held(ds, more, g) PROVE u \in Held(cs, up, g)
  OBVIOUS
<1>0. u \in Upvalues
  BY DEF Held
<1>1. CASE u \in Names(g)
  BY <1>0, <1>1 DEF Held
<1>2. CASE \E t \in Upvalues : u \in Names(more[t].val)
  BY <1>0, <1>2 DEF Held
<1>3. CASE \E d \in Coros : \/ \E i \in DOMAIN ds[d].frames : Contains(ds[d].frames[i].ups, u)
                            \/ Contains(ds[d].open, u)
  BY <1>0, <1>3 DEF Held
<1>4. CASE \E d \in Coros : \E i \in DOMAIN ds[d].stack : u \in Names(ds[d].stack[i].val)
  <2>1. PICK d \in Coros : \E i \in DOMAIN ds[d].stack : u \in Names(ds[d].stack[i].val)
    BY <1>4
  <2>2. PICK i \in DOMAIN ds[d].stack : u \in Names(ds[d].stack[i].val)
    BY <2>1
  <2>3. i \in DOMAIN cs[d].stack /\ u \in Names(cs[d].stack[i].val)
    BY <2>2
  <2> QED  BY <1>0, <2>3 DEF Held
<1> QED  BY <1>1, <1>2, <1>3, <1>4 DEF Held

(* Pushing a slot with nothing in it uses up no upvalue. *)
LEMMA PushUnused ==
    ASSUME running \in Coros, NEW U, NEW w \in Worlds(U), coro \in [Coros -> CoroOf(U)],
           NEW s \in SlotOf(U), s.val = None
    PROVE  Unused(w) \subseteq Unused(Push(w, s))
<1>1. PICK v \in Worlds(U) : /\ v = Push(w, s) /\ Alike(v, w)
                             /\ v.co.stack = Append(w.co.stack, s)
  BY PushEffect
<1>2. w.co \in CoroOf(U) /\ v.co \in CoroOf(U) /\ w.co.stack \in Seq(SlotOf(U))
  BY DEF Worlds, CoroOf
<1> DEFINE cs == [coro EXCEPT ![running] = w.co]
           ds == [coro EXCEPT ![running] = v.co]
<1>3. /\ cs[running] = w.co /\ ds[running] = v.co
      /\ \A d \in Coros : d # running => cs[d] = coro[d] /\ ds[d] = coro[d]
  BY <1>2, PutCoro
<1> HIDE DEF cs, ds
<1>4. \A d \in Coros : ds[d].frames = cs[d].frames /\ ds[d].open = cs[d].open
  BY <1>1, <1>3 DEF Alike
<1>5. ASSUME NEW d \in Coros, NEW i \in DOMAIN ds[d].stack
      PROVE  \/ Names(ds[d].stack[i].val) = {}
             \/ i \in DOMAIN cs[d].stack /\ ds[d].stack[i] = cs[d].stack[i]
  <2>1. CASE d # running
    BY <1>3, <2>1
  <2>2. CASE d = running
    <3>1. i \in 1..(Len(w.co.stack) + 1) /\ DOMAIN w.co.stack = 1..Len(w.co.stack)
          /\ Len(w.co.stack) \in Nat
      BY <1>1, <1>2, <1>3, <2>2
    <3>2. CASE i = Len(w.co.stack) + 1
      <4>1. ds[d].stack[i] = s
        BY <1>1, <1>2, <1>3, <2>2, <3>2, AppendProperties
      <4> QED  BY <4>1 DEF Names, IsClosure
    <3>3. CASE i # Len(w.co.stack) + 1
      <4>1. i \in 1..Len(w.co.stack)
        BY <3>1, <3>3
      <4>2. v.co.stack[i] = w.co.stack[i]
        BY <1>1, <1>2, <4>1, AppendProperties
      <4> QED  BY <1>3, <2>2, <3>1, <4>1, <4>2
    <3> QED  BY <3>2, <3>3
  <2> QED  BY <2>1, <2>2
<1>6. \A u \in Upvalues : v.up[u].val = w.up[u].val
  BY <1>1 DEF Alike
<1>7. Held(ds, v.up, global) \subseteq Held(cs, w.up, global)
  BY <1>4, <1>5, <1>6, HeldSame
<1> QED  BY <1>1, <1>7 DEF Unused, cs, ds

(* The slot L on top of the stack of w, right above the locals co's function
   f has, is a named one.                                                  *)
Declares(co, f, w, L) ==
    /\ f = Last(co.frames) /\ f.locals < MaxLocals
    /\ w.co.frames = co.frames /\ w.co.caller = co.caller
    /\ L = Len(w.co.stack) /\ L = End(f) /\ L <= Len(co.stack) + 1
    /\ \A j \in 1..(L - 1) : w.co.stack[j].var = co.stack[j].var
    /\ w.co.stack[L].var # 0
    /\ L < w.co.cap /\ Len(w.co.frames) < w.co.framecap

(* Such a slot is counted as one of the locals. *)
LEMMA DeclareShape ==
    ASSUME NEW U, NEW co \in CoroOf(U), NEW temps, Shaped(co, temps),
           NEW f, NEW W, NEW w \in Worlds(W), NEW L \in Nat, Declares(co, f, w, L),
           NEW v, v = Declared(w, 1), NEW more \in Nat
    PROVE  /\ v \in Worlds(W) /\ OnlyFrames(v, w) /\ Shaped(v.co, more) /\ v.co.caller = co.caller
<1> USE DEF Declares
<1> DEFINE n == Len(co.frames)
<1>1. /\ n \in Nat \ {0} /\ f = co.frames[n] /\ f.try = -1
      /\ Len(co.stack) \in Nat
  BY FrameFacts
<1>2. /\ f.slots \in 1..Len(co.stack)
      /\ \A j \in 1..Len(co.stack) : f.slots <= j => (co.stack[j].var # 0 <=> f.slots < j /\ j < End(f))
  BY TopOfStack
<1>3. f \in FrameOf(W)
  BY <1>1, SMTT(30) DEF Worlds, CoroOf
<1>4. f.slots \in Nat \ {0} /\ f.locals \in Nat \ {0} /\ f.slots < End(f) /\ End(f) \in Nat
  BY <1>3, FrameEnd
<1>5. PICK k \in Nat \ {0}, i \in Int : k = n /\ i = 1 /\ k = Len(w.co.frames)
  BY <1>1
<1>6. f.locals + i \in 1..MaxLocals /\ MaxLocals \in Nat
  <2>1. MaxLocals \in Nat
    BY CoroutineAssumption
  <2> QED  BY <1>4, <1>5, <2>1
<1> HIDE DEF n
<1>7. /\ v \in Worlds(W) /\ OnlyFrames(v, w) /\ Len(v.co.frames) = k
      /\ \A j \in 1..(k - 1) : v.co.frames[j] = w.co.frames[j]
      /\ v.co.frames[k] \in FrameOf(W) /\ v.co.frames[k].try = f.try
      /\ v.co.frames[k].slots = f.slots /\ End(v.co.frames[k]) = End(f) + i
  <2>1. f = w.co.frames[k] /\ v = Declared(w, i)
    BY <1>1, <1>5
  <2> QED  BY ONLY <1>3, <1>5, <1>6, <2>1, w \in Worlds(W), k \in Nat \ {0}, i \in Int, DeclaredEffect, SMTT(30)
<1>8. /\ v.co.stack = w.co.stack /\ v.co.cap = w.co.cap /\ v.co.framecap = w.co.framecap
      /\ v.co.caller = co.caller /\ v.co \in CoroOf(W)
  BY <1>7 DEF OnlyFrames, Worlds
<1>9. k \in 1..Len(co.frames)
  BY <1>5 DEF n
<1>10. Retops(v.co.frames, co.frames, k)
  <2>1. \A j \in 1..k : j = k \/ j \in 1..(k - 1)
    BY <1>5
  <2>2. \A j \in 1..k : v.co.frames[j].slots = co.frames[j].slots
    BY <1>1, <1>5, <1>7, <2>1
  <2> QED  BY <1>1, <1>7, <2>2 DEF Retops
<1>11. NamedAs(v.co.stack, co.stack, v.co.frames[k])
  <2>1. ASSUME NEW j \in 1..L
        PROVE  IF j <= f.slots THEN w.co.stack[j].var # 0 <=> co.stack[j].var # 0
               ELSE w.co.stack[j].var # 0 <=> j < End(f) + 1
    <3>1. CASE j = L
      <4>1. w.co.stack[j].var # 0 /\ ~(j <= f.slots) /\ j < End(f) + 1
        BY <1>4, <3>1
      <4> QED  BY ONLY <4>1
    <3>2. CASE j # L
      <4>1. j \in 1..(L - 1) /\ j \in 1..Len(co.stack) /\ j < End(f) + 1 /\ j < End(f) /\ j \in Nat
        BY <1>1, <3>2
      <4>2. w.co.stack[j].var = co.stack[j].var
        BY <4>1
      <4>3. ~(j <= f.slots) => co.stack[j].var # 0
        <5>1. f.slots <= j => (co.stack[j].var # 0 <=> f.slots < j /\ j < End(f))
          BY <1>2, <4>1
        <5> QED  BY <1>4, <4>1, <5>1
      <4> QED  BY ONLY <4>1, <4>2, <4>3
    <3> QED  BY <3>1, <3>2
  <2>2. f.slots <= Len(co.stack)
    BY <1>2
  <2> QED  BY <1>5, <1>7, <1>8, <2>1, <2>2, ZenonT(30) DEF NamedAs
<1>12. /\ End(v.co.frames[k]) <= Len(v.co.stack) + 1
       /\ Len(v.co.stack) < End(v.co.frames[k]) + more
       /\ Len(v.co.stack) < v.co.cap /\ Len(v.co.frames) < v.co.framecap
  <2>1. /\ End(v.co.frames[k]) = L + 1 /\ Len(v.co.stack) = L
        /\ v.co.cap = w.co.cap /\ v.co.framecap = w.co.framecap /\ Len(v.co.frames) = Len(w.co.frames)
    BY <1>5, <1>7, <1>8
  <2>2. L + 1 <= L + 1 /\ L < L + 1 + more
    OBVIOUS
  <2> QED  BY <2>1, <2>2
<1>13. Shaped(v.co, more)
  BY ONLY <1>8, <1>9, <1>10, <1>11, <1>12, co \in CoroOf(U), Shaped(co, temps), ShapedAgain
<1> QED  BY <1>7, <1>8, <1>13

(* What OP_CLOSURE captures is there: a local of the function, or, when a
   declaration has named the new slot, that slot; an upvalue of F.         *)
LEMMA CapturesAreThere ==
    ASSUME IInv, Running, NEW decl \in BOOLEAN, NEW c \in Captures(decl),
           NEW w, NEW s, w.co.stack = Append(Co.stack, s),
           decl = TRUE => Temps(F, Co) = 0 /\ s.var # 0
    PROVE  CanCapture(c, w)
<1> DEFINE U == Used(upvalues)
           L == Len(Co.stack)
<1>1. /\ Co.stack \in Seq(SlotOf(U)) /\ L \in Nat
      /\ F.slots \in Nat \ {0} /\ F.locals \in Nat \ {0} /\ End(F) = F.slots + F.locals
      /\ Temps(F, Co) = L + 1 - End(F)
      /\ \A i \in Locals : F.slots + i \in 1..L /\ Co.stack[F.slots + i].var # 0
  BY Function
<1>2. /\ Len(w.co.stack) = L + 1 /\ w.co.stack[L + 1] = s
      /\ \A j \in 1..L : w.co.stack[j] = Co.stack[j]
  BY <1>1, AppendProperties
<1>3. \/ c.local = TRUE /\ c.index \in 1..(F.locals - (IF decl THEN 0 ELSE 1))
      \/ c.local = FALSE /\ c.index \in DOMAIN F.ups
  BY DEF Captures
<1>4. CASE c.local = FALSE
  BY <1>3, <1>4 DEF CanCapture
<1>5. CASE c.local = TRUE
  <2>1. PICK k, l, a \in Nat : k = c.index /\ l = F.locals /\ a = F.slots
    BY <1>1, <1>3, <1>5
  <2>2. CASE k \in 1..(l - 1)
    <3>1. a + k \in 1..L /\ Co.stack[a + k].var # 0
      BY <1>1, <2>1, <2>2 DEF Locals
    <3>2. a + k \in 1..Len(w.co.stack) /\ w.co.stack[a + k] = Co.stack[a + k]
      BY <1>1, <1>2, <3>1
    <3> QED  BY <1>5, <2>1, <3>1, <3>2 DEF CanCapture
  <2>3. CASE k \notin 1..(l - 1)
    <3>1. k \in 1..(l - (IF decl THEN 0 ELSE 1))
      BY <1>3, <1>5, <2>1
    <3>2. decl = TRUE /\ k = l
      BY <1>1, <2>1, <2>3, <3>1
    <3>3. a + k = L + 1
      <4>1. L + 1 - (a + l) = 0
        BY <1>1, <2>1, <3>2
      <4> HIDE DEF L
      <4> QED  BY ONLY <1>1, <3>2, <4>1, a \in Nat, l \in Nat
    <3>4. a + k \in 1..Len(w.co.stack) /\ w.co.stack[a + k].var # 0
      BY <1>1, <1>2, <3>2, <3>3
    <3> QED  BY <1>5, <2>1, <3>4 DEF CanCapture
  <2> QED  BY <2>2, <2>3
<1> QED  BY <1>3, <1>4, <1>5

(* The closure, once it has its upvalues, in the slot it was pushed to. *)
Filled(a, w0) == [a.w EXCEPT !.co.stack[Len(w0.co.stack)].val = Closure(a.us)]

(* OP_CLOSURE *)
LEMMA MakeClosureKeeps ==
    ASSUME IInv, Running, NEW decl \in BOOLEAN, NEW n \in 0..MaxCaptures,
           NEW caps \in [1..n -> Captures(decl)], MakeClosure(caps, decl)
    PROVE  IInv'
<1> DEFINE U == Used(upvalues)
           L == Len(Co.stack)
<1>1. PICK x, s, w0, w1, w2 :
        /\ x = (IF decl THEN NewVar ELSE 0) /\ s = Slot(x, None)
        /\ w0 = Push(World, s) /\ w1 = CaptureAll(w0, caps)
        /\ w2 = Filled(w1, w0)
        /\ IF decl THEN Temps(F, Co) = 0 /\ F.locals < MaxLocals /\ NewVars # {} ELSE Room
        /\ Cardinality({k \in DOMAIN caps : caps[k].local}) <= Cardinality(Unused(World))
        /\ Become(IF w0.ok /\ decl THEN Declared(w2, 1) ELSE w2, global)
  BY DEF MakeClosure, Filled
<1>2. /\ World \in Worlds(U) /\ Fits(coro, running, World, global) /\ running \in Coros
      /\ World.co = Co /\ World.up = upvalues /\ Shaped(Co, MaxTemps) /\ Co \in CoroOf(U)
      /\ coro \in [Coros -> CoroOf(U)]
  BY Alive
<1>3. /\ F = Last(Co.frames) /\ F \in FrameOf(U) /\ F.try = -1
      /\ Co.stack \in Seq(SlotOf(U)) /\ L \in Nat /\ F.slots \in Nat \ {0} /\ F.locals \in Nat \ {0}
      /\ End(F) \in Nat /\ Temps(F, Co) = L + 1 - End(F) /\ Temps(F, Co) \in Nat
      /\ End(F) <= L + 1 /\ MaxTemps \in Nat
  BY Function
<1>4. /\ s \in SlotOf(U) /\ s.var = x /\ s.val = None
      /\ IsNew(s.var, [coro EXCEPT ![running] = World.co], World.up)
      /\ decl = TRUE => x # 0
      /\ decl = FALSE => x = 0
  <2>1. None \in Values(U) /\ 0 \in 0..MaxVars
    BY CoroutineAssumption DEF Values
  <2>2. [coro EXCEPT ![running] = World.co] = coro /\ World.up = upvalues
    BY <1>2 DEF Co
  <2>3. x \in 0..MaxVars /\ IsNew(x, coro, upvalues) /\ (decl = TRUE => x # 0) /\ (decl = FALSE => x = 0)
    <3>1. CASE decl = TRUE
      <4>1. x = NewVar /\ NewVars # {}
        BY <1>1, <3>1
      <4>2. NewVar \in 1..MaxVars /\ IsNew(NewVar, coro, upvalues) /\ MaxVars \in Nat
        BY <4>1, Fresh, CoroutineAssumption
      <4> QED  BY <3>1, <4>1, <4>2
    <3>2. CASE decl = FALSE
      BY <1>1, <2>1, <3>2 DEF IsNew
    <3> QED  BY <3>1, <3>2
  <2>4. s = [var |-> x, val |-> None]
    BY <1>1 DEF Slot
  <2> QED  BY <2>1, <2>2, <2>3, <2>4 DEF SlotOf
<1>5. /\ w0 \in Worlds(U) /\ Alike(w0, World) /\ w0.co.stack = Append(Co.stack, s)
      /\ w0.ok = TRUE => L + 1 < w0.co.cap
      /\ Fits(coro, running, w0, global) /\ Used(w0.up) = U
  <2>0. s \in SlotOf(Used(World.up)) /\ w0 = Push(World, s)
    BY <1>1, <1>2, <1>4
  <2>1. Fits(coro, running, w0, global) /\ Used(w0.up) = U
    <3>1. PICK w : w = World
      OBVIOUS
    <3>2. running \in Coros /\ Fits(coro, running, w, global) /\ s \in SlotOf(Used(w.up))
          /\ IsNew(s.var, [coro EXCEPT ![running] = w.co], w.up)
      BY <1>2, <1>4, <2>0, <3>1
    <3>3. Fits(coro, running, Push(w, s), global) /\ Used(Push(w, s).up) = Used(w.up)
      BY ONLY <3>2, PushFits
    <3> QED  BY <1>2, <2>0, <3>1, <3>3
  <2>2. L < Co.cap
    BY <1>2 DEF Shaped
  <2>3. /\ w0 \in Worlds(U) /\ Alike(w0, World) /\ w0.co.stack = Append(World.co.stack, s)
        /\ w0.ok = TRUE /\ Len(World.co.stack) < World.co.cap
              => Len(World.co.stack) + 1 < w0.co.cap
    BY <1>2, <1>4, <2>0, PushEffect
  <2> QED  BY <1>2, <2>1, <2>2, <2>3
<1>6. /\ w0.co \in CoroOf(U) /\ w0.co.frames = Co.frames /\ w0.co.framecap = Co.framecap
      /\ w0.co.caller = Co.caller /\ w0.co.stack \in Seq(SlotOf(U))
      /\ Len(w0.co.stack) = L + 1 /\ w0.co.stack[L + 1] = s
      /\ \A j \in 1..L : w0.co.stack[j] = Co.stack[j]
  <2>1. w0.co \in CoroOf(U) /\ w0.co.frames = Co.frames /\ w0.co.framecap = Co.framecap
        /\ w0.co.caller = Co.caller
    BY <1>2, <1>5 DEF Worlds, Alike
  <2>2. w0.co.stack \in Seq(SlotOf(U))
    BY <2>1 DEF CoroOf
  <2> QED  BY <1>3, <1>4, <1>5, <2>1, <2>2, AppendProperties
<1>7. caps \in Seq(Captures(decl)) /\ Len(caps) = n /\ DOMAIN caps = 1..n /\ n \in Nat /\ n <= MaxCaptures
  <2>1. n \in Nat /\ n <= MaxCaptures
    BY CoroutineAssumption
  <2> QED  BY <2>1
<1>8. Took(w1, w0, n)
  <2>1. \A k \in 1..Len(caps) : CanCapture(caps[k], w0)
    <3> SUFFICES ASSUME NEW k \in 1..Len(caps) PROVE CanCapture(caps[k], w0)
      OBVIOUS
    <3>1. PICK c \in Captures(decl) : c = caps[k]
      BY <1>7
    <3>2. decl = TRUE => Temps(F, Co) = 0 /\ s.var # 0
      BY <1>1, <1>4
    <3>3. CanCapture(c, w0)
      BY <1>5, <3>2, CapturesAreThere
    <3> QED  BY <3>1, <3>3
  <2>2. Cardinality(LocalsOf(caps, Len(caps))) <= Cardinality(Unused(w0))
    <3>1. {k \in DOMAIN caps : caps[k].local} = LocalsOf(caps, Len(caps))
      <4>1. \A k \in 1..n : caps[k].local \in BOOLEAN
        BY <1>7 DEF Captures
      <4>2. \A k \in 1..n : caps[k].local <=> caps[k].local = TRUE
        BY <4>1
      <4> QED  BY <1>7, <4>2 DEF LocalsOf
    <3>2. Unused(World) \subseteq Unused(w0)
      BY <1>1, <1>2, <1>4, PushUnused
    <3>3. \A v : IsFiniteSet(Unused(v))
      <4> TAKE v
      <4>1. Unused(v) \subseteq Upvalues /\ IsFiniteSet(Upvalues)
        BY FS_Interval, CoroutineAssumption DEF Unused, Upvalues
      <4> QED  BY <4>1, FS_Subset
    <3>4. Cardinality(Unused(World)) <= Cardinality(Unused(w0))
      BY <3>2, <3>3, FS_Subset
    <3>5. Cardinality(Unused(World)) \in Nat /\ Cardinality(Unused(w0)) \in Nat
      BY <3>3, FS_CardinalityType
    <3>6. Cardinality(LocalsOf(caps, Len(caps))) \in Nat
      <4>1. LocalsOf(caps, Len(caps)) \subseteq 1..n /\ IsFiniteSet(1..n)
        BY <1>7, FS_Interval DEF LocalsOf
      <4> QED  BY <4>1, FS_Subset, FS_CardinalityType
    <3>7. Cardinality(LocalsOf(caps, Len(caps))) <= Cardinality(Unused(World))
      BY <1>1, <3>1
    <3> QED  BY ONLY <3>4, <3>5, <3>6, <3>7
  <2>3. w0.co = [w0.co EXCEPT !.open = w0.co.open]
    BY <1>6 DEF CoroOf
  <2>4. F.ups \in Cells(Used(w0.up))
    BY <1>3, <1>5 DEF FrameOf
  <2>5. Len(caps) \in Nat
    BY <1>7
  <2>6. Took(CaptureAll(w0, caps), w0, Len(caps))
    BY ONLY <1>2, <1>5, <2>1, <2>2, <2>3, <2>4, <2>5, CaptureAllFits
  <2> QED  BY <1>1, <1>7, <2>6
<1> DEFINE W == Used(w1.w.up)
<1>9. PICK a : a = w1.w
  OBVIOUS
<1>10. /\ Fits(coro, running, a, global) /\ a.ok = w0.ok /\ a \in Worlds(Used(a.up)) /\ a.co \in CoroOf(Used(a.up))
       /\ a.co.stack = w0.co.stack /\ a.co.frames = w0.co.frames /\ a.co.cap = w0.co.cap
       /\ a.co.framecap = w0.co.framecap /\ a.co.caller = w0.co.caller
       /\ Closure(w1.us) \in Values(Used(a.up))
  <2>1. /\ Fits(coro, running, a, global) /\ a.ok = w0.ok
        /\ w1.us \in Seq(Used(a.up)) /\ Len(w1.us) = n
    BY <1>8, <1>9 DEF Took
  <2>2. PICK open : a.co = [w0.co EXCEPT !.open = open]
    BY <1>8, <1>9 DEF Took
  <2>3. a \in Worlds(Used(a.up)) /\ a.co \in CoroOf(Used(a.up))
    BY <2>1 DEF Fits, Worlds
  <2>4. /\ a.co.stack = w0.co.stack /\ a.co.frames = w0.co.frames /\ a.co.cap = w0.co.cap
        /\ a.co.framecap = w0.co.framecap /\ a.co.caller = w0.co.caller
    BY <1>6, <2>2 DEF CoroOf
  <2>5. w1.us \in Cells(Used(a.up))
    <3>1. w1.us \in [1..n -> Used(a.up)] /\ n \in 0..MaxCaptures
      BY <2>1
    <3> QED  BY <3>1 DEF Cells
  <2>6. Closure(w1.us) \in Values(Used(a.up))
    BY <2>5 DEF Values
  <2> QED  BY <2>1, <2>3, <2>4, <2>6
<1>11. PICK v, t : /\ v = Closure(w1.us) /\ t = [a.co.stack EXCEPT ![L + 1].val = v]
                   /\ w2 = WithStack(a, t)
  <2>1. [a EXCEPT !.co.stack[L + 1].val = Closure(w1.us)]
           = [a EXCEPT !.co.stack = [a.co.stack EXCEPT ![L + 1].val = Closure(w1.us)]]
    BY <1>10 DEF Worlds, CoroOf
  <2> QED  BY <1>1, <1>6, <1>9, <2>1 DEF WithStack, Filled
<1>12. t \in Seq(SlotOf(Used(a.up))) /\ SameNames(t, a.co.stack)
  <2>1. PICK r : r = a.co.stack /\ r \in Seq(SlotOf(Used(a.up))) /\ L + 1 \in 1..Len(r)
    <3>1. a.co.stack \in Seq(SlotOf(Used(a.up)))
      BY <1>10 DEF CoroOf
    <3>2. Len(a.co.stack) = L + 1 /\ L \in Nat
      BY <1>3, <1>6, <1>10
    <3>3. L + 1 \in 1..Len(a.co.stack)
      BY <3>2
    <3> QED  BY <3>1, <3>3
  <2>2. PICK i \in 1..Len(r) : i = L + 1
    BY <2>1
  <2> HIDE DEF L
  <2>3. v \in Values(Used(a.up)) /\ t = [r EXCEPT ![i].val = v]
    BY <1>10, <1>11, <2>1, <2>2
  <2> QED  BY ONLY <2>1, <2>3, i \in 1..Len(r), PutValue
<1>13. w2 \in Worlds(Used(a.up)) /\ w2.co.stack = t /\ OnlyStack(w2, a)
  <2>1. a \in Worlds(Used(a.up)) /\ t \in Seq(SlotOf(Used(a.up))) /\ w2 = WithStack(a, t)
    BY <1>10, <1>11, <1>12
  <2> QED  BY ONLY <2>1, PutStack
<1>14. Fits(coro, running, w2, global)
  <2>1. w2.up = a.up /\ w2.co.open = a.co.open /\ w2.co.block = a.co.block
        /\ SameNames(w2.co.stack, a.co.stack)
    BY <1>12, <1>13 DEF OnlyStack
  <2> QED  BY <1>2, <1>10, <1>13, <2>1, SameNamesFits
<1>15. /\ w2.ok = w0.ok /\ w2.co.frames = Co.frames /\ w2.co.framecap = Co.framecap
       /\ w2.co.caller = Co.caller /\ w2.co.cap = w0.co.cap /\ w2.co \in CoroOf(Used(a.up))
       /\ Len(w2.co.stack) = L + 1 /\ w2.co.stack[L + 1].var = x
       /\ \A j \in 1..L : w2.co.stack[j].var = Co.stack[j].var
  <2>1. /\ w2.ok = w0.ok /\ w2.co.frames = Co.frames /\ w2.co.framecap = Co.framecap
        /\ w2.co.caller = Co.caller /\ w2.co.cap = w0.co.cap /\ w2.co \in CoroOf(Used(a.up))
    BY <1>6, <1>10, <1>13 DEF OnlyStack, Worlds
  <2>2. SameNames(w2.co.stack, w0.co.stack)
    BY <1>10, <1>12, <1>13
  <2>3. \A j \in 1..(L + 1) : w2.co.stack[j].var = w0.co.stack[j].var
    BY <1>6, <2>2 DEF SameNames
  <2>4. Len(w2.co.stack) = L + 1 /\ w2.co.stack[L + 1].var = x /\ \A j \in 1..L : w2.co.stack[j].var = Co.stack[j].var
    <3>1. \A j \in 1..L : j \in 1..(L + 1) /\ w0.co.stack[j].var = Co.stack[j].var
      <4>1. \A j \in 1..L : j \in 1..(L + 1)
        BY <1>3
      <4>2. \A j \in 1..L : w0.co.stack[j] = Co.stack[j]
        BY <1>6
      <4> QED  BY <4>1, <4>2
    <3>2. L + 1 \in 1..(L + 1) /\ w0.co.stack[L + 1].var = x
      BY <1>3, <1>4, <1>6
    <3> QED  BY <1>6, <2>2, <2>3, <3>1, <3>2 DEF SameNames
  <2> QED  BY <2>1, <2>4
<1>16. w0.ok \in BOOLEAN /\ Len(Co.frames) < Co.framecap
  BY <1>2, <1>5 DEF Worlds, Shaped
<1>17. CASE w0.ok = FALSE
  <2>1. Become(w2, global) /\ ~(w2.ok = TRUE)
    BY <1>1, <1>15, <1>17
  <2> QED  BY <1>14, <2>1, BecomeKeeps
<1>18. CASE w0.ok = TRUE /\ decl = FALSE
  <2>1. Become(w2, global)
    BY <1>1, <1>18
  <2>2. Overlaid(w2.co.stack, Co.stack)
    <3> SUFFICES ASSUME NEW j \in 1..(L + 1)
                 PROVE  /\ j <= L => w2.co.stack[j].var = Co.stack[j].var
                        /\ j > L => w2.co.stack[j].var = 0
      BY <1>15 DEF Overlaid
    <3>1. j <= L => j \in 1..L
      BY <1>3
    <3>2. j > L => j = L + 1
      BY <1>3
    <3> HIDE DEF L
    <3> QED  BY <1>4, <1>15, <1>18, <3>1, <3>2
  <2>3. /\ End(F) <= L + 1 + 1 /\ L + 1 < End(F) + MaxTemps /\ L + 1 < w2.co.cap
    <3>1. Temps(F, Co) < MaxTemps
      BY <1>1, <1>18 DEF Room
    <3>2. PICK l, e \in Nat : l = L /\ e = End(F)
      BY <1>3
    <3>3. l + 1 - e < MaxTemps /\ e <= l + 1
      BY <1>3, <3>1, <3>2
    <3>4. e <= l + 1 + 1 /\ l + 1 < e + MaxTemps
      BY ONLY <1>3, <3>3, l \in Nat, e \in Nat
    <3> QED  BY <1>5, <1>15, <1>18, <3>2, <3>4
  <2>4. Shaped(w2.co, MaxTemps)
    <3>1. PICK V, d, e, f : V = Used(a.up) /\ d = w2.co /\ e = Co /\ f = F
      OBVIOUS
    <3>2. PICK more : more = MaxTemps
      OBVIOUS
    <3>3. /\ e \in CoroOf(U) /\ Shaped(e, more) /\ d \in CoroOf(V) /\ d.frames = e.frames /\ f = Last(e.frames)
          /\ Len(d.stack) < d.cap /\ Len(d.frames) < d.framecap
      BY <1>2, <1>3, <1>15, <1>16, <2>3, <3>1, <3>2
    <3>4. /\ Overlaid(d.stack, e.stack)
          /\ End(f) <= Len(d.stack) + 1 /\ Len(d.stack) < End(f) + more
      BY <1>15, <2>2, <2>3, <3>1, <3>2
    <3> HIDE DEF U
    <3>5. Shaped(d, more)
      BY ONLY <3>3, <3>4, SameFrames
    <3> QED  BY <3>1, <3>2, <3>5
  <2> QED  BY <1>14, <1>15, <2>1, <2>4, BecomeKeeps
<1>19. CASE w0.ok = TRUE /\ decl = TRUE
  <2>1. PICK u : u = Declared(w2, 1) /\ Become(u, global)
    BY <1>1, <1>19
  <2>2. PICK m \in Nat : m = L + 1 /\ m = End(F) /\ F.locals < MaxLocals
    <3>1. L + 1 - End(F) = 0
      BY <1>1, <1>3, <1>19
    <3>2. PICK l, e \in Nat : l = L /\ e = End(F)
      BY <1>3
    <3>3. l + 1 = e
      BY <3>1, <3>2
    <3> QED  BY <1>1, <1>19, <3>2, <3>3
  <2>3. /\ \A j \in 1..(m - 1) : w2.co.stack[j].var = Co.stack[j].var
        /\ w2.co.stack[m].var # 0 /\ m < w2.co.cap /\ m = Len(w2.co.stack) /\ m <= Len(Co.stack) + 1
    <3>1. m - 1 = L
      BY <1>3, <2>2
    <3> QED  BY <1>4, <1>5, <1>15, <1>19, <2>2, <3>1
  <2> HIDE DEF L
  <2>4. /\ u \in Worlds(Used(a.up)) /\ OnlyFrames(u, w2) /\ Shaped(u.co, MaxTemps)
        /\ u.co.caller = Co.caller
    <3>1. MaxTemps \in Nat /\ F = Last(Co.frames) /\ Len(w2.co.frames) < w2.co.framecap
      BY <1>3, <1>15, <1>16
    <3>2. w2 \in Worlds(Used(a.up)) /\ w2.co.frames = Co.frames /\ w2.co.caller = Co.caller
      BY <1>13, <1>15
    <3>3. Co \in CoroOf(U) /\ Shaped(Co, MaxTemps)
      BY <1>2
    <3>4. PICK V, f, d : /\ V = Used(a.up) /\ f = F /\ d = Co
      OBVIOUS
    <3>5. PICK more \in Nat : more = MaxTemps
      BY <3>1
    <3>6. d \in CoroOf(U) /\ Shaped(d, more) /\ w2 \in Worlds(V)
      BY <3>2, <3>3, <3>4, <3>5
    <3>7. Declares(d, f, w2, m)
      BY <2>2, <2>3, <3>1, <3>2, <3>4 DEF Declares
    <3>8. u = Declared(w2, 1)
      BY <2>1
    <3> HIDE DEF U
    <3>9. /\ u \in Worlds(V) /\ OnlyFrames(u, w2) /\ Shaped(u.co, more) /\ u.co.caller = d.caller
      BY ONLY <3>6, <3>7, <3>8, m \in Nat, more \in Nat, DeclareShape
    <3> QED  BY <3>4, <3>5, <3>9
  <2>5. Fits(coro, running, u, global)
    <3>1. w2.up = a.up
      BY <1>13 DEF OnlyStack
    <3> QED  BY <1>2, <1>14, <2>4, <3>1, FramesFit
  <2> QED  BY <2>1, <2>4, <2>5, BecomeKeeps
<1> QED  BY <1>16, <1>17, <1>18, <1>19

(* OP_CLOSURE *)
LEMMA ClosureKeeps ==
    ASSUME IInv, Running, OpClosure
    PROVE  IInv'
<1>1. PICK decl \in BOOLEAN, n \in 0..MaxCaptures :
          \E caps \in [1..n -> Captures(decl)] : IsInjective(caps) /\ MakeClosure(caps, decl)
  <2>1. PICK decl \in BOOLEAN : \E n \in 0..MaxCaptures :
            \E caps \in [1..n -> Captures(decl)] : IsInjective(caps) /\ MakeClosure(caps, decl)
    BY DEF OpClosure
  <2> QED  BY <2>1
<1> QED  BY <1>1, MakeClosureKeeps

-----------------------------------------------------------------------------
(* Calls. *)

(* jml_vm_call: the caller, the last frame of old, is stopped at the
   instruction; the callee's starts at its slot.                           *)
Called(new, old, L, at, n, t) ==
    /\ Len(new) = L + 1 /\ \A k \in 1..(L - 1) : new[k] = old[k]
    /\ new[L].slots = old[L].slots /\ End(new[L]) = End(old[L])
    /\ new[L].locals = old[L].locals /\ new[L].try = t
    /\ new[L + 1].slots = at /\ End(new[L + 1]) = at + n + 1 /\ new[L + 1].try = -1

(* Up to the callee's slot the stack is named as it was, and above it are the
   arguments.                                                              *)
NamedUpTo(new, old, at, n) ==
    /\ Len(new) = at + n
    /\ \A j \in 1..at : new[j].var # 0 <=> old[j].var # 0
    /\ \A j \in 1..(at + n) : j > at => new[j].var # 0

(* The frames of a call tile the stack. *)
LEMMA CallTiles ==
    ASSUME NEW U, NEW co \in CoroOf(U), Shaped(co, MaxTemps),
           NEW L \in Nat \ {0}, L = Len(co.frames), NEW fs, fs = co.frames, NEW gs \in Seq(FrameOf(U)),
           NEW at \in Nat \ {0}, NEW n \in Nat, NEW t, Called(gs, fs, L, at, n, t),
           End(fs[L]) <= at, at < End(fs[L]) + MaxTemps,
           t # -1 => t = fs[L].locals /\ at = End(fs[L])
    PROVE  Tiled(gs)
<1>1. \A k \in 1..L : fs[k].slots \in Nat \ {0} /\ End(fs[k]) \in Nat /\ fs[k].slots < End(fs[k])
  BY FrameFacts
<1>2. /\ fs[1].slots = 1
      /\ \A i, j \in 1..L : i < j => End(fs[i]) <= fs[j].slots
      /\ \A i \in 1..L : i < L => Waits(fs[i], fs[i + 1])
      /\ \A k \in 1..L : End(fs[k]) <= End(fs[L])
  <2>1. Tiled(fs)
    BY DEF Shaped
  <2>2. \A k \in 1..L : End(fs[k]) <= End(fs[L])
    BY FrameFacts
  <2> QED  BY <2>1, <2>2 DEF Tiled
<1>3. /\ Len(gs) = L + 1 /\ \A k \in 1..(L - 1) : gs[k] = fs[k]
      /\ gs[L].slots = fs[L].slots /\ End(gs[L]) = End(fs[L]) /\ gs[L].locals = fs[L].locals
      /\ gs[L].try = t
      /\ gs[L + 1].slots = at /\ End(gs[L + 1]) = at + n + 1 /\ gs[L + 1].try = -1
  BY DEF Called
<1>4. ASSUME NEW k \in 1..L PROVE gs[k].slots = fs[k].slots /\ End(gs[k]) = End(fs[k])
  <2>1. k = L \/ k \in 1..(L - 1)
    OBVIOUS
  <2> QED  BY <1>3, <2>1
<1>5. ASSUME NEW i \in 1..(L + 1), NEW j \in 1..(L + 1), i < j PROVE End(gs[i]) <= gs[j].slots
  <2>1. i \in 1..L
    BY <1>5
  <2>2. CASE j \in 1..L
    <3>1. End(fs[i]) <= fs[j].slots
      BY <1>2, <1>5, <2>1, <2>2
    <3> QED  BY <1>4, <2>1, <2>2, <3>1
  <2>3. CASE j \notin 1..L
    <3>1. j = L + 1 /\ gs[j].slots = at
      BY <1>3, <2>3
    <3>2. End(gs[i]) = End(fs[i]) /\ End(fs[i]) <= End(fs[L]) /\ End(fs[i]) \in Nat /\ End(fs[L]) \in Nat
      BY <1>1, <1>2, <1>4, <2>1, SMTT(30)
    <3> QED  BY <3>1, <3>2
  <2> QED  BY <2>2, <2>3
<1>6. ASSUME NEW i \in 1..(L + 1), i < L + 1 PROVE Waits(gs[i], gs[i + 1])
  <2>1. CASE i \in 1..(L - 1)
    <3>1. Waits(fs[i], fs[i + 1]) /\ gs[i] = fs[i] /\ i + 1 \in 1..L
      <4>1. i \in 1..L /\ i < L /\ i + 1 \in 1..L
        BY <2>1
      <4>2. Waits(fs[i], fs[i + 1])
        BY <1>2, <4>1
      <4> QED  BY <1>3, <2>1, <4>1, <4>2
    <3>2. gs[i + 1].slots = fs[i + 1].slots
      BY <1>4, <3>1
    <3> QED  BY <3>1, <3>2 DEF Waits
  <2>2. CASE i \notin 1..(L - 1)
    <3>1. i = L
      BY <1>6, <2>2
    <3> QED  BY <1>3, <3>1 DEF Waits
  <2> QED  BY <2>1, <2>2
<1>7. gs # <<>> /\ gs[1].slots = 1 /\ gs[Len(gs)].try = -1
  <2>1. gs[1].slots = 1
    BY <1>2, <1>4
  <2> QED  BY <1>3, <2>1
<1> QED  BY <1>3, <1>5, <1>6, <1>7 DEF Tiled

(* The stack of the new frame: the callee and its argument are its locals. *)
LEMMA CallShape ==
    ASSUME NEW U, NEW co \in CoroOf(U), Shaped(co, MaxTemps), NEW v \in CoroOf(U),
           NEW L \in Nat \ {0}, L = Len(co.frames), L # FramesMax,
           NEW at \in Nat \ {0}, NEW n \in Nat, NEW t,
           Called(v.frames, co.frames, L, at, n, t),
           End(co.frames[L]) <= at, at < End(co.frames[L]) + MaxTemps, at <= Len(co.stack),
           t # -1 => t = co.frames[L].locals /\ at = End(co.frames[L]),
           NamedUpTo(v.stack, co.stack, at, n), NEW more \in Nat \ {0},
           Len(v.stack) < v.cap, Len(v.frames) < v.framecap
    PROVE  Shaped(v, more)
<1> DEFINE fs == co.frames
           gs == v.frames
<1>0. gs \in Seq(FrameOf(U)) /\ co.stack \in Seq(SlotOf(U)) /\ v.stack \in Seq(SlotOf(U))
  BY DEF CoroOf
<1>1. Tiled(gs)
  BY <1>0, CallTiles
<1>2. /\ \A k \in 1..L : fs[k].slots \in Nat \ {0} /\ End(fs[k]) \in Nat /\ fs[k].slots < End(fs[k])
      /\ \A k \in 1..L : End(fs[k]) <= End(fs[L])
  <2>1. Last(fs) = fs[L]
    BY FrameFacts
  <2> QED  BY <2>1, FrameFacts
<1>3. /\ Len(gs) = L + 1 /\ \A k \in 1..(L - 1) : gs[k] = fs[k]
      /\ gs[L].slots = fs[L].slots /\ End(gs[L]) = End(fs[L])
      /\ gs[L + 1].slots = at /\ End(gs[L + 1]) = at + n + 1
  BY DEF Called
<1>4. ASSUME NEW k \in 1..L PROVE gs[k].slots = fs[k].slots /\ End(gs[k]) = End(fs[k])
  <2>1. k = L \/ k \in 1..(L - 1)
    OBVIOUS
  <2> QED  BY <1>3, <2>1
<1>5. /\ Len(v.stack) = at + n
      /\ \A j \in 1..at : v.stack[j].var # 0 <=> co.stack[j].var # 0
      /\ \A j \in 1..(at + n) : j > at => v.stack[j].var # 0
  BY DEF NamedUpTo
<1>6. \A j \in 1..Len(co.stack) : co.stack[j].var # 0 <=> IsLocal(fs, j)
  BY DEF Shaped
<1> HIDE DEF fs, gs
<1>7. ASSUME NEW j \in 1..at PROVE IsLocal(gs, j) <=> IsLocal(fs, j)
  <2>1. ASSUME IsLocal(gs, j) PROVE IsLocal(fs, j)
    <3>1. PICK i \in 1..(L + 1) : gs[i].slots < j /\ j < End(gs[i])
      BY <1>3, <2>1 DEF IsLocal
    <3>2. i # L + 1
      BY <1>3, <3>1
    <3>3. i \in 1..L /\ fs[i].slots < j /\ j < End(fs[i])
      BY <1>4, <3>1, <3>2, SMTT(30)
    <3> QED  BY <3>3 DEF IsLocal, fs
  <2>2. ASSUME IsLocal(fs, j) PROVE IsLocal(gs, j)
    <3>1. PICK i \in 1..L : fs[i].slots < j /\ j < End(fs[i])
      BY <2>2 DEF IsLocal, fs
    <3>2. i \in 1..Len(gs) /\ gs[i].slots < j /\ j < End(gs[i])
      BY <1>3, <1>4, <3>1, SMTT(30)
    <3> QED  BY <3>2 DEF IsLocal
  <2> QED  BY <2>1, <2>2
<1>8. ASSUME NEW j \in 1..(at + n) PROVE v.stack[j].var # 0 <=> IsLocal(gs, j)
  <2>1. CASE j <= at
    <3>1. j \in 1..at
      BY <2>1
    <3>2. j \in 1..Len(co.stack)
      BY <1>0, <3>1
    <3>3. v.stack[j].var # 0 <=> co.stack[j].var # 0
      BY <1>5, <3>1
    <3> QED  BY <1>6, <1>7, <3>1, <3>2, <3>3
  <2>2. CASE ~(j <= at)
    <3>1. v.stack[j].var # 0
      BY <1>5, <2>2
    <3>2. L + 1 \in 1..Len(gs) /\ gs[L + 1].slots < j /\ j < End(gs[L + 1])
      BY <1>3, <2>2
    <3>3. IsLocal(gs, j)
      BY <3>2 DEF IsLocal
    <3> QED  BY <3>1, <3>3
  <2> QED  BY <2>1, <2>2
<1>9. Last(gs) = gs[L + 1]
  BY <1>3 DEF Last
<1>10. Len(gs) <= FramesMax
  <2>1. L <= FramesMax /\ FramesMax \in Nat
    BY CoroutineAssumption DEF Shaped
  <2> QED  BY <1>3, <2>1
<1>11. End(Last(gs)) <= Len(v.stack) + 1 /\ Len(v.stack) < End(Last(gs)) + more
  <2>1. End(Last(gs)) = at + n + 1
    BY <1>3, <1>9
  <2> QED  BY <1>5, <2>1
<1> QED  BY <1>1, <1>5, <1>8, <1>10, <1>11 DEF Shaped, gs

(* Room for more frames, and nothing else. *)
LEMMA PutFrameCap ==
    ASSUME NEW U, NEW w \in Worlds(U), NEW m \in Nat,
           NEW v, v = [w EXCEPT !.co.framecap = m]
    PROVE  /\ v \in Worlds(U) /\ v.co.framecap = m /\ v.up = w.up /\ v.ok = w.ok
           /\ v.co.stack = w.co.stack /\ v.co.frames = w.co.frames /\ v.co.cap = w.co.cap
           /\ v.co.block = w.co.block /\ v.co.open = w.co.open /\ v.co.caller = w.co.caller
<1>1. PICK co \in CoroOf(U) : co = w.co
  BY DEF Worlds
<1>2. PICK b : b = [co EXCEPT !.framecap = m]
  OBVIOUS
<1>3. /\ b \in CoroOf(U) /\ b.framecap = m /\ b.cap = co.cap /\ b.block = co.block /\ b.open = co.open
      /\ b.stack = co.stack /\ b.frames = co.frames /\ b.caller = co.caller
  BY <1>2 DEF CoroOf
<1>4. v = [w EXCEPT !.co = b]
  BY <1>1, <1>2
<1>5. v \in Worlds(U) /\ v.co = b /\ v.up = w.up /\ v.ok = w.ok
  BY <1>3, <1>4 DEF Worlds
<1> QED  BY <1>1, <1>3, <1>5

(* The array of frames, and the stack with it, grows when a call would fill
   it.                                                                     *)
Roomy(w) == IF Len(w.co.frames) + 1 >= w.co.framecap
            THEN Grow([w EXCEPT !.co.framecap = 2 * @]) ELSE w

(* There are frames, and neither array is full. *)
FramesLeft(w) == /\ Len(w.co.frames) \in Nat \ {0} /\ Len(w.co.frames) < w.co.framecap
                 /\ Len(w.co.stack) < w.co.cap

(* A variable nobody has in w is one nobody has in v. *)
StaysNew(cs, c, w, v) ==
    \A x : IsNew(x, [cs EXCEPT ![c] = w.co], w.up) => IsNew(x, [cs EXCEPT ![c] = v.co], v.up)

(* Room for the frame, unless the stack could not grow. *)
HasRoom(U, cs, c, w, g, v) ==
    /\ v \in Worlds(U) /\ Fits(cs, c, v, g) /\ Used(v.up) = U
    /\ v.co.stack = w.co.stack /\ v.co.frames = w.co.frames /\ v.co.caller = w.co.caller
    /\ v.ok = TRUE => Len(w.co.frames) + 1 < v.co.framecap /\ Len(w.co.stack) < v.co.cap
    /\ StaysNew(cs, c, w, v)

(* Afterwards there is room for the frame, unless the stack cannot grow. *)
LEMMA RoomForFrame ==
    ASSUME NEW U, NEW w \in Worlds(U), U = Used(w.up), NEW c \in Coros, NEW cs, NEW g, Fits(cs, c, w, g),
           FramesLeft(w), NEW v, v = Roomy(w)
    PROVE  HasRoom(U, cs, c, w, g, v)
<1> USE DEF FramesLeft, StaysNew, HasRoom
<1>1. w.co \in CoroOf(U) /\ w.co.framecap \in Nat /\ w.co.cap \in Nat /\ Len(w.co.stack) \in Nat
  BY DEF Worlds, CoroOf
<1>2. CASE ~(Len(w.co.frames) + 1 >= w.co.framecap)
  <2>1. v = w
    BY <1>2 DEF Roomy
  <2>2. Len(w.co.frames) + 1 < w.co.framecap
    BY <1>1, <1>2
  <2> HIDE DEF Fits
  <2> QED  BY <2>1, <2>2
<1>3. CASE Len(w.co.frames) + 1 >= w.co.framecap
  <2>1. PICK m \in Nat : m = 2 * w.co.framecap
    BY <1>1
  <2>2. PICK a : a = [w EXCEPT !.co.framecap = m]
    OBVIOUS
  <2>3. v = Grow(a)
    BY <1>3, <2>1, <2>2 DEF Roomy
  <2>4. /\ a \in Worlds(U) /\ a.co.framecap = m /\ a.up = w.up /\ a.ok = w.ok
        /\ a.co.stack = w.co.stack /\ a.co.frames = w.co.frames /\ a.co.cap = w.co.cap
        /\ a.co.block = w.co.block /\ a.co.open = w.co.open /\ a.co.caller = w.co.caller
    BY ONLY <2>2, w \in Worlds(U), m \in Nat, PutFrameCap
  <2>5. Fits(cs, c, a, g)
    <3>1. SameNames(a.co.stack, w.co.stack)
      BY <2>4 DEF SameNames
    <3> QED  BY <2>4, <3>1, SameNamesFits
  <2>6. /\ v \in Worlds(U) /\ Fits(cs, c, v, g) /\ v.co.stack = w.co.stack /\ Used(v.up) = U
        /\ \A x : IsNew(x, [cs EXCEPT ![c] = a.co], a.up) => IsNew(x, [cs EXCEPT ![c] = v.co], v.up)
    <3>1. /\ v \in Worlds(Used(a.up)) /\ Fits(cs, c, v, g) /\ v.co.stack = a.co.stack
          /\ Used(v.up) = Used(a.up)
          /\ \A x : IsNew(x, [cs EXCEPT ![c] = a.co], a.up) => IsNew(x, [cs EXCEPT ![c] = v.co], v.up)
      BY <2>3, <2>5, GrowFits
    <3> QED  BY <2>4, <3>1
  <2>7. \A x : IsNew(x, [cs EXCEPT ![c] = w.co], w.up) => IsNew(x, [cs EXCEPT ![c] = a.co], a.up)
    <3>1. cs \in [Coros -> CoroOf(U)] /\ a.co \in CoroOf(U)
      BY <2>4 DEF Fits, Worlds
    <3>2. \A d \in Coros : [cs EXCEPT ![c] = a.co][d].stack = [cs EXCEPT ![c] = w.co][d].stack
      BY <1>1, <2>4, <3>1
    <3> QED  BY <2>4, <3>2, SameStacks DEF IsNew
  <2>8. \/ v.ok = FALSE /\ v.co = a.co
        \/ Alike(v, a) /\ v.ok = a.ok /\ v.co.cap = 2 * a.co.cap
    <3>1. CASE v = [a EXCEPT !.ok = FALSE]
      BY <2>4, <3>1 DEF Worlds
    <3>2. CASE v # [a EXCEPT !.ok = FALSE]
      BY <2>3, <2>4, <3>2, GrowEffect
    <3> QED  BY <3>1, <3>2
  <2>9. v.co.frames = a.co.frames /\ v.co.caller = a.co.caller /\ v.co.framecap = m
    BY <2>4, <2>8 DEF Alike
  <2>10. v.ok = TRUE => v.co.cap = 2 * w.co.cap
    BY <2>4, <2>8
  <2>11. Len(w.co.frames) + 1 < m /\ Len(w.co.stack) < 2 * w.co.cap
    <3>1. PICK fc, n \in Nat : fc = w.co.framecap /\ n = Len(w.co.frames) /\ n >= 1 /\ n < fc
      BY <1>1
    <3>2. PICK k, l \in Nat : k = w.co.cap /\ l = Len(w.co.stack) /\ l < k
      BY <1>1
    <3>3. n + 1 < 2 * fc /\ l < 2 * k
      BY ONLY <3>1, <3>2, fc \in Nat, n \in Nat, k \in Nat, l \in Nat, SMTT(30)
    <3> QED  BY <2>1, <3>1, <3>2, <3>3
  <2> QED  BY <2>4, <2>6, <2>7, <2>9, <2>10, <2>11
<1> QED  BY <1>2, <1>3

(* The frames of the caller with the callee's on top. *)
LEMMA FramesCalled ==
    ASSUME NEW U, NEW L \in Nat \ {0}, NEW old, NEW gs \in Seq(FrameOf(U)), Len(gs) = L,
           \A k \in 1..(L - 1) : gs[k] = old[k],
           gs[L].slots = old[L].slots, End(gs[L]) = End(old[L]), gs[L].locals = old[L].locals,
           NEW t, gs[L].try = t,
           NEW us \in Cells(U), NEW at \in Nat \ {0}, NEW n \in 0..1,
           NEW f, f = [ups |-> us, slots |-> at, locals |-> n + 1, try |-> -1]
    PROVE  Append(gs, f) \in Seq(FrameOf(U)) /\ Called(Append(gs, f), old, L, at, n, t)
<1>1. f \in FrameOf(U)
  <2>1. n + 1 \in 1..MaxLocals /\ -1 \in -1..MaxLocals
    BY CoroutineAssumption
  <2> QED  BY <2>1 DEF FrameOf
<1>2. PICK hs : hs = Append(gs, f)
  OBVIOUS
<1>3. hs \in Seq(FrameOf(U)) /\ Len(hs) = L + 1 /\ hs[L + 1] = f /\ \A k \in 1..L : hs[k] = gs[k]
  BY <1>1, <1>2, AppendProperties
<1>4. hs[L + 1].slots = at /\ End(hs[L + 1]) = at + n + 1 /\ hs[L + 1].try = -1
  <2>1. f.slots = at /\ f.locals = n + 1 /\ f.try = -1
    OBVIOUS
  <2> QED  BY <1>3, <2>1 DEF End
<1>5. \A k \in 1..(L - 1) : hs[k] = old[k]
  BY <1>3
<1>6. hs[L] = gs[L]
  BY <1>3
<1> QED  BY <1>2, <1>3, <1>4, <1>5, <1>6 DEF Called

(* The slot l is given to a variable. *)
Named(w, l, x) == [w EXCEPT !.co.stack[l].var = x]

(* The slot l on top of the stack is nameless, and the variable new. *)
TakesName(cs, c, w, l, x) ==
    /\ l = Len(w.co.stack) /\ w.co.stack[l].var = 0
    /\ IsNew(x, [cs EXCEPT ![c] = w.co], w.up)

(* Afterwards it is that variable's. *)
HasName(cs, c, w, g, l, x, v) ==
    /\ v \in Worlds(Used(w.up)) /\ Fits(cs, c, v, g) /\ OnlyStack(v, w)
    /\ Len(v.co.stack) = l /\ v.co.stack[l].var = x
    /\ \A j \in 1..(l - 1) : v.co.stack[j] = w.co.stack[j]

(* The argument, if there is one, becomes the first local of the callee. *)
LEMMA NameArgument ==
    ASSUME NEW cs, NEW c \in Coros, NEW w, NEW g, Fits(cs, c, w, g),
           NEW l \in Nat \ {0}, NEW x \in 0..MaxVars, TakesName(cs, c, w, l, x),
           NEW v, v = Named(w, l, x)
    PROVE  HasName(cs, c, w, g, l, x, v)
<1> DEFINE U == Used(w.up)
           old == w.co.stack
<1> USE DEF TakesName
<1>1. w \in Worlds(U) /\ old \in Seq(SlotOf(U))
  BY DEF Fits, Worlds, CoroOf
<1>2. PICK t : t = [old[l] EXCEPT !.var = x]
  OBVIOUS
<1>3. t \in SlotOf(U) /\ t.var = x
  <2>1. PICK r \in SlotOf(U) : r = old[l]
    BY <1>1
  <2> QED  BY <1>2, <2>1 DEF SlotOf
<1>4. PICK s : s = [old EXCEPT ![l] = t]
  OBVIOUS
<1>5. s \in Seq(SlotOf(U)) /\ Len(s) = l /\ s[l] = t /\ \A j \in 1..l : j # l => s[j] = old[j]
  BY <1>1, <1>3, <1>4
<1>6. v = WithStack(w, s)
  BY <1>2, <1>4 DEF WithStack, Named
<1> HIDE DEF U
<1>7. v \in Worlds(U) /\ v.co.stack = s /\ OnlyStack(v, w)
  BY ONLY <1>1, <1>5, <1>6, PutStack
<1>8. SlotsKept(s, old, l, x)
  <2>1. \A j \in 1..l : j # l => j <= Len(old) /\ s[j].var = old[j].var
    BY <1>5
  <2> QED  BY <1>3, <1>5, <2>1 DEF SlotsKept
<1>9. NamesKept(s, old)
  <2>1. \A j \in 1..l : old[j].var # 0 => j # l
    OBVIOUS
  <2>2. \A j \in 1..l : old[j].var # 0 => j <= Len(s) /\ s[j].var = old[j].var
    BY <1>5, <2>1
  <2> QED  BY <2>2 DEF NamesKept
<1>10. v.up = w.up /\ v.co.open = w.co.open /\ v.co.block = w.co.block
  BY <1>7 DEF OnlyStack
<1>11. SlotsKept(v.co.stack, w.co.stack, l, x) /\ NamesKept(v.co.stack, w.co.stack)
  BY <1>7, <1>8, <1>9
<1>12. Fits(cs, c, v, g)
  <2>1. v \in Worlds(Used(w.up)) /\ l \in Nat
    BY <1>7 DEF U
  <2> HIDE DEF old
  <2> QED  BY <1>10, <1>11, <2>1, StackFits
<1>13. \A j \in 1..(l - 1) : j \in 1..l /\ j # l
  OBVIOUS
<1>14. \A j \in 1..(l - 1) : s[j] = old[j]
  BY <1>5, <1>13
<1> QED  BY ONLY <1>3, <1>5, <1>7, <1>12, <1>14 DEF U, old, HasName

(* OP_CALL and OP_TRY_CALL, step by step: the caller is stopped at the
   instruction, there is room for one more frame, the callee gets it and its
   argument a name.                                                        *)
CallSteps(n, try, f, at, w0, w1, w2) ==
    /\ f = Peek(n) /\ at = Len(Co.stack) - n
    /\ w0 = TriedAt(World, try) /\ w1 = Roomy(w0)
    /\ w2 = WithFrames(w1, Append(w1.co.frames, Frame(f, at, n + 1)))
    /\ Running /\ Temps(F, Co) > n
    /\ try # -1 => Temps(F, Co) = n + 1 /\ try = F.locals
    /\ IsClosure(f) /\ n <= Cardinality(NewVars)
    /\ Len(Co.frames) = FramesMax => Error
    /\ Len(Co.frames) # FramesMax => Become(IF n = 0 THEN w2 ELSE Named(w2, at + 1, NewVar), global)

(* A call is these steps. *)
LEMMA CallUnfolds ==
    ASSUME IInv, NEW n \in 0..1, NEW try \in {-1, F.locals}, Call(n, try)
    PROVE  \E f, at, w0, w1, w2 : CallSteps(n, try, f, at, w0, w1, w2)
<1> DEFINE U == Used(upvalues)
           l == Len(Co.stack)
           L == Len(Co.frames)
<1> DEFINE f  == Peek(n)
           at == l - n
           w0 == [World EXCEPT !.co.frames[Len(Co.frames)].try = try]
           w1 == IF Len(Co.frames) + 1 >= Co.framecap
                 THEN Grow([w0 EXCEPT !.co.framecap = 2 * @]) ELSE w0
           w2 == [w1 EXCEPT !.co.frames = Append(@, Frame(f, at, n + 1))]
           w3 == IF n = 0 THEN w2 ELSE [w2 EXCEPT !.co.stack[at + 1].var = NewVar]
<1>1. /\ Running /\ Temps(F, Co) > n
      /\ try # -1 => Temps(F, Co) = n + 1 /\ try = F.locals
      /\ IsClosure(f) /\ n <= Cardinality(NewVars)
      /\ L = FramesMax => Error
      /\ L # FramesMax => Become(w3, global)
  BY DEF Call
<1>2. World.co = Co
  BY DEF World, Co
<1>3. w0 = TriedAt(World, try)
  BY <1>2 DEF TriedAt
<1>4. Len(w0.co.frames) = L /\ w0.co.framecap = Co.framecap
  <2>1. Running
    BY <1>1
  <2>2. Co \in CoroOf(U) /\ World \in Worlds(U)
    BY <2>1, Alive
  <2>3. PICK fs \in Seq(FrameOf(U)) : fs = Co.frames
    BY <2>2 DEF CoroOf
  <2>4. PICK gs : gs = [fs EXCEPT ![L].try = try]
    OBVIOUS
  <2>5. Len(gs) = Len(fs)
    BY <2>4
  <2>6. PICK d : d = [Co EXCEPT !.frames = gs]
    OBVIOUS
  <2>7. w0 = [World EXCEPT !.co = d]
    BY <1>2, <2>3, <2>4, <2>6
  <2> HIDE DEF w0
  <2>8. w0.co = d
    BY <2>2, <2>7 DEF Worlds
  <2>9. d.frames = gs /\ d.framecap = Co.framecap
    BY <2>2, <2>6 DEF CoroOf
  <2> QED  BY <2>3, <2>5, <2>8, <2>9
<1>5. w1 = Roomy(w0)
  <2> HIDE DEF w0
  <2> QED  BY <1>4 DEF Roomy
<1>6. w2 = WithFrames(w1, Append(w1.co.frames, Frame(f, at, n + 1)))
  <2> HIDE DEF w1
  <2> QED  BY DEF WithFrames
<1>7. w3 = IF n = 0 THEN w2 ELSE Named(w2, at + 1, NewVar)
  <2> HIDE DEF w2
  <2> QED  BY DEF Named
<1>8. f = Peek(n) /\ at = l - n
  OBVIOUS
<1> HIDE DEF f, at, w0, w1, w2, w3
<1>9. L # FramesMax => Become(IF n = 0 THEN w2 ELSE Named(w2, at + 1, NewVar), global)
  BY <1>1, <1>7
<1> QED  BY ONLY <1>1, <1>3, <1>5, <1>6, <1>8, <1>9 DEF CallSteps

(* OP_CALL, OP_TRY_CALL *)
LEMMA CallKeeps ==
    ASSUME IInv, NEW n \in 0..1, NEW try \in {-1, F.locals}, Call(n, try)
    PROVE  IInv'
<1> DEFINE U == Used(upvalues)
           l == Len(Co.stack)
           L == Len(Co.frames)
<1>1. PICK f, at, w0, w1, w2 :
        /\ f = Peek(n) /\ at = l - n
        /\ w0 = TriedAt(World, try) /\ w1 = Roomy(w0)
        /\ w2 = WithFrames(w1, Append(w1.co.frames, Frame(f, at, n + 1)))
        /\ Running /\ Temps(F, Co) > n
        /\ try # -1 => Temps(F, Co) = n + 1 /\ try = F.locals
        /\ IsClosure(f) /\ n <= Cardinality(NewVars)
        /\ L = FramesMax => Error
        /\ L # FramesMax => Become(IF n = 0 THEN w2 ELSE Named(w2, at + 1, NewVar), global)
  BY CallUnfolds DEF CallSteps
<1>2. CASE L = FramesMax
  <2>1. Stop("error")
    BY <1>1, <1>2 DEF Error
  <2>2. "error" \in {"ok", "error", "crash", "astray"}
    OBVIOUS
  <2> QED  BY <2>1, <2>2, StopKeeps
<1>3. CASE L # FramesMax
  <2>1. /\ World \in Worlds(U) /\ Fits(coro, running, World, global) /\ running \in Coros
        /\ World.co = Co /\ World.up = upvalues /\ Shaped(Co, MaxTemps) /\ Co \in CoroOf(U)
        /\ coro \in [Coros -> CoroOf(U)]
    BY <1>1, Alive
  <2>2. /\ F = Last(Co.frames) /\ F \in FrameOf(U)
        /\ Co.stack \in Seq(SlotOf(U)) /\ l \in Nat /\ F.slots \in Nat \ {0} /\ F.locals \in Nat \ {0}
        /\ F.locals <= MaxLocals
        /\ End(F) \in Nat /\ Temps(F, Co) = l + 1 - End(F) /\ F.slots < End(F)
        /\ l < End(F) + MaxTemps /\ End(F) <= l + 1 /\ MaxTemps \in Nat
        /\ \A j \in 1..l : F.slots <= j => (Co.stack[j].var # 0 <=> F.slots < j /\ j < End(F))
    BY <1>1, Function
  <2>3. L \in Nat \ {0} /\ F = Co.frames[L]
    BY <2>1, <2>2, FrameFacts
  <2>4. /\ f \in Values(U) /\ at \in 1..l /\ End(F) <= at /\ at \in Nat \ {0}
        /\ at < End(F) + MaxTemps /\ l = at + n
        /\ try # -1 => at = End(F) /\ try = F.locals
    <3>1. /\ Peek(n) \in Values(U) /\ l - n \in 1..l /\ End(F) <= l - n
      <4>1. n \in Nat /\ Running /\ Temps(F, Co) > n
        BY <1>1
      <4> QED  BY ONLY <4>1, IInv, PeekIsValue
    <3>2. PICK e, t, m \in Nat : e = End(F) /\ t = Temps(F, Co) /\ m = MaxTemps
      <4>1. Temps(F, Co) \in Nat
        BY <1>1, Function
      <4> QED  BY <2>2, <4>1
    <3>3. t = l + 1 - e /\ l < e + m
      BY <2>2, <3>2
    <3> HIDE DEF l
    <3>4. at = l - n /\ l \in Nat /\ l - n \in 1..l
      BY <1>1, <2>2, <3>1
    <3>5. at \in Nat \ {0} /\ at < e + m /\ l = at + n
      BY ONLY <3>3, <3>4, n \in 0..1, e \in Nat, m \in Nat
    <3>6. t = n + 1 => at = e
      BY ONLY <3>3, <3>4, n \in 0..1, e \in Nat
    <3> QED  BY <1>1, <3>1, <3>2, <3>5, <3>6
  <2>5. PICK us \in Cells(U) : f = Closure(us)
    BY <1>1, <2>4 DEF Values, IsClosure
  <2>6. /\ w0 \in Worlds(U) /\ OnlyFrames(w0, World) /\ Len(w0.co.frames) = L
        /\ \A k \in 1..(L - 1) : w0.co.frames[k] = Co.frames[k]
        /\ w0.co.frames[L].try = try /\ w0.co.frames[L].locals = F.locals
        /\ w0.co.frames[L].slots = F.slots /\ End(w0.co.frames[L]) = End(F)
    <3>1. PICK k \in Nat \ {0}, g \in FrameOf(U), t \in -1..MaxLocals :
            /\ k = L /\ k = Len(World.co.frames) /\ g = F /\ g = World.co.frames[k] /\ t = try
      <4>1. try \in -1..MaxLocals
        <5>1. MaxLocals \in Nat
          BY CoroutineAssumption
        <5> QED  BY <2>2, <5>1
      <4> QED  BY <2>1, <2>2, <2>3, <4>1
    <3>2. w0 = TriedAt(World, t)
      BY <1>1, <3>1
    <3> HIDE DEF L
    <3>3. Retried(w0, World, U, k, t, g)
      BY ONLY <2>1, <3>1, <3>2, k \in Nat \ {0}, g \in FrameOf(U), t \in -1..MaxLocals, TryEffect
    <3> QED  BY <2>1, <3>1, <3>3 DEF Retried
  <2>7. /\ Fits(coro, running, w0, global) /\ Used(w0.up) = U /\ w0.co.stack = Co.stack
        /\ w0.co.framecap = Co.framecap /\ w0.co.cap = Co.cap /\ w0.co.caller = Co.caller
        /\ w0.up = upvalues
    <3>1. Fits(coro, running, w0, global)
      BY <2>1, <2>6, FramesFit
    <3> QED  BY <2>1, <2>6, <3>1 DEF OnlyFrames
  <2>8. Len(w0.co.frames) < w0.co.framecap /\ Len(w0.co.stack) < w0.co.cap
    BY <2>1, <2>6, <2>7 DEF Shaped
  <2>9. /\ w1 \in Worlds(U) /\ Fits(coro, running, w1, global) /\ Used(w1.up) = U
        /\ w1.co.stack = Co.stack /\ w1.co.frames = w0.co.frames /\ w1.co.caller = Co.caller
        /\ w1.ok = TRUE => L + 1 < w1.co.framecap /\ l < w1.co.cap
        /\ \A x : IsNew(x, [coro EXCEPT ![running] = w0.co], w0.up)
                  => IsNew(x, [coro EXCEPT ![running] = w1.co], w1.up)
    <3>1. w1 = Roomy(w0)
      BY <1>1
    <3>2. PICK b : b = w1
      OBVIOUS
    <3>3. /\ b \in Worlds(U) /\ Fits(coro, running, b, global) /\ Used(b.up) = U
          /\ b.co.stack = w0.co.stack /\ b.co.frames = w0.co.frames /\ b.co.caller = w0.co.caller
          /\ b.ok = TRUE => Len(w0.co.frames) + 1 < b.co.framecap /\ Len(w0.co.stack) < b.co.cap
          /\ \A x : IsNew(x, [coro EXCEPT ![running] = w0.co], w0.up)
                    => IsNew(x, [coro EXCEPT ![running] = b.co], b.up)
      <4>1. w0 \in Worlds(U) /\ U = Used(w0.up) /\ Len(w0.co.frames) \in Nat \ {0}
        BY <2>3, <2>6, <2>7
      <4>2. running \in Coros /\ Fits(coro, running, w0, global) /\ b = Roomy(w0)
        BY <2>1, <2>7, <3>1, <3>2
      <4>3. FramesLeft(w0)
        BY <2>8, <4>1 DEF FramesLeft
      <4> HIDE DEF U
      <4>4. HasRoom(U, coro, running, w0, global, b)
        BY ONLY <4>1, <4>2, <4>3, RoomForFrame
      <4> QED  BY <4>4 DEF HasRoom, StaysNew
    <3> QED  BY <2>6, <2>7, <3>2, <3>3
  <2>10. PICK gs : gs = Append(w0.co.frames, Frame(f, at, n + 1))
    OBVIOUS
  <2>11. gs \in Seq(FrameOf(U)) /\ Called(gs, Co.frames, L, at, n, try)
    <3>1. PICK hs \in Seq(FrameOf(U)), m \in Nat \ {0} : hs = w0.co.frames /\ m = L
      BY <2>3, <2>6 DEF Worlds, CoroOf
    <3>2. Frame(f, at, n + 1) = [ups |-> us, slots |-> at, locals |-> n + 1, try |-> -1]
      BY <2>5 DEF Frame, Closure
    <3>3. /\ Len(hs) = m /\ \A k \in 1..(m - 1) : hs[k] = Co.frames[k]
          /\ hs[m].slots = Co.frames[m].slots /\ End(hs[m]) = End(Co.frames[m])
          /\ hs[m].locals = Co.frames[m].locals /\ hs[m].try = try
      BY <2>3, <2>6, <3>1
    <3> HIDE DEF L
    <3>4. PICK r : r = Frame(f, at, n + 1)
      OBVIOUS
    <3> HIDE DEF U
    <3>5. Append(hs, r) \in Seq(FrameOf(U)) /\ Called(Append(hs, r), Co.frames, m, at, n, try)
      BY ONLY <2>4, <3>2, <3>3, <3>4, hs \in Seq(FrameOf(U)), m \in Nat \ {0}, us \in Cells(U),
              n \in 0..1, FramesCalled, SMTT(120)
    <3> QED  BY <2>10, <3>1, <3>4, <3>5
  <2>12. w2 \in Worlds(U) /\ w2.co.frames = gs /\ OnlyFrames(w2, w1)
    <3>1. w2 = WithFrames(w1, gs)
      BY <1>1, <2>9, <2>10
    <3> QED  BY <2>9, <2>11, <3>1, PutFrames
  <2>13. /\ Fits(coro, running, w2, global) /\ Used(w2.up) = U /\ w2.co.stack = Co.stack
         /\ w2.co.framecap = w1.co.framecap /\ w2.co.cap = w1.co.cap /\ w2.co.caller = Co.caller
         /\ w2.ok = w1.ok /\ w2.up = w1.up
    <3>1. Fits(coro, running, w2, global)
      BY <2>1, <2>9, <2>12, FramesFit
    <3> QED  BY <2>9, <2>12, <3>1 DEF OnlyFrames
  <2>14. PICK v : v = IF n = 0 THEN w2 ELSE Named(w2, at + 1, NewVar)
    OBVIOUS
  <2>15. /\ v \in Worlds(U) /\ Fits(coro, running, v, global) /\ OnlyStack(v, w2)
         /\ NamedUpTo(v.co.stack, Co.stack, at, n)
    <3>1. CASE n = 0
      <4>1. v = w2 /\ l = at
        BY <2>4, <2>14, <3>1
      <4>2. OnlyStack(v, w2)
        BY <4>1 DEF OnlyStack
      <4>3. NamedUpTo(v.co.stack, Co.stack, at, n)
        BY <2>4, <2>13, <3>1, <4>1 DEF NamedUpTo
      <4> QED  BY <2>12, <2>13, <4>1, <4>2, <4>3
    <3>2. CASE n = 1
      <4>1. PICK k, x : k \in Nat \ {0} /\ k = l /\ k = at + 1 /\ x = NewVar
        BY <2>2, <2>4, <3>2
      <4>2. v = Named(w2, k, x)
        BY <2>14, <3>2, <4>1
      <4>3. NewVars # {}
        <5>1. Cardinality({}) = 0 /\ 1 <= Cardinality(NewVars)
          BY <1>1, <3>2, FS_EmptySet
        <5> QED  BY <5>1
      <4>4. x \in 0..MaxVars /\ x # 0 /\ IsNew(x, coro, upvalues)
        <5>1. NewVar \in 1..MaxVars /\ IsNew(NewVar, coro, upvalues) /\ MaxVars \in Nat
          BY <1>1, <4>3, Fresh, CoroutineAssumption
        <5> QED  BY <4>1, <5>1
      <4>5. IsNew(x, [coro EXCEPT ![running] = w2.co], w2.up)
        <5>1. \A d \in Coros : [coro EXCEPT ![running] = w0.co][d].stack = coro[d].stack
          <6>1. w0.co \in CoroOf(U)
            BY <2>6 DEF Worlds
          <6> QED  BY <2>1, <2>7, <6>1, PutCoro DEF Co
        <5>2. IsNew(x, [coro EXCEPT ![running] = w0.co], w0.up)
          BY <2>7, <4>4, <5>1, SameStacks DEF IsNew
        <5>3. IsNew(x, [coro EXCEPT ![running] = w1.co], w1.up)
          BY <2>9, <5>2
        <5>4. \A d \in Coros : [coro EXCEPT ![running] = w2.co][d].stack = [coro EXCEPT ![running] = w1.co][d].stack
          <6>1. w1.co \in CoroOf(U) /\ w2.co \in CoroOf(U)
            BY <2>9, <2>12 DEF Worlds
          <6> QED  BY <2>1, <2>9, <2>13, <6>1, PutCoro
        <5> QED  BY <2>13, <5>3, <5>4, SameStacks DEF IsNew
      <4>6. k = Len(w2.co.stack) /\ w2.co.stack[k].var = 0
        <5>1. F.slots <= k /\ ~(k < End(F)) /\ k \in 1..l
          BY <2>2, <2>4, <4>1
        <5> QED  BY <2>2, <2>13, <4>1, <5>1
      <4>7. /\ v \in Worlds(Used(w2.up)) /\ Fits(coro, running, v, global) /\ OnlyStack(v, w2)
            /\ Len(v.co.stack) = k /\ v.co.stack[k].var = x
            /\ \A j \in 1..(k - 1) : v.co.stack[j] = w2.co.stack[j]
        <5>1. running \in Coros /\ Fits(coro, running, w2, global) /\ x \in 0..MaxVars
          BY <2>1, <2>13, <4>4
        <5>2. TakesName(coro, running, w2, k, x)
          BY <4>5, <4>6 DEF TakesName
        <5>3. k \in Nat \ {0}
          BY <4>1, <2>2, <2>4, <3>2
        <5>4. HasName(coro, running, w2, global, k, x, v)
          BY ONLY <4>2, <5>1, <5>2, <5>3, NameArgument
        <5> QED  BY <5>4 DEF HasName
      <4>8. NamedUpTo(v.co.stack, Co.stack, at, n)
        <5>1. k - 1 = at /\ k = at + n /\ \A j \in 1..(at + n) : j > at => j = k
          BY <2>4, <3>2, <4>1
        <5>2. \A j \in 1..at : v.co.stack[j].var # 0 <=> Co.stack[j].var # 0
          BY <2>13, <4>7, <5>1
        <5> QED  BY <4>4, <4>7, <5>1, <5>2 DEF NamedUpTo
      <4> QED  BY <2>13, <4>7, <4>8
    <3> QED  BY <3>1, <3>2
  <2>16. /\ v.co \in CoroOf(U) /\ v.co.frames = gs /\ v.co.framecap = w1.co.framecap /\ v.co.cap = w1.co.cap
         /\ v.co.caller = Co.caller /\ v.ok = w1.ok
    BY <2>12, <2>13, <2>15 DEF OnlyStack, Worlds
  <2>17. v.ok = TRUE => Shaped(v.co, MaxTemps)
    <3> SUFFICES ASSUME v.ok = TRUE PROVE Shaped(v.co, MaxTemps)
      OBVIOUS
    <3>1. L + 1 < w1.co.framecap /\ l < w1.co.cap
      BY <2>9, <2>16
    <3>2. Len(v.co.stack) < v.co.cap /\ Len(v.co.frames) < v.co.framecap
      BY <2>4, <2>11, <2>15, <2>16, <3>1 DEF NamedUpTo, Called
    <3>3. PICK m \in Nat \ {0}, k \in Nat : /\ m = L /\ k = n /\ m = Len(Co.frames) /\ m # FramesMax
                                            /\ End(Co.frames[m]) = End(F) /\ Co.frames[m].locals = F.locals
      BY <1>3, <2>3
    <3>4. /\ Called(v.co.frames, Co.frames, m, at, k, try) /\ NamedUpTo(v.co.stack, Co.stack, at, k)
          /\ End(Co.frames[m]) <= at /\ at < End(Co.frames[m]) + MaxTemps /\ at <= Len(Co.stack)
          /\ try # -1 => try = Co.frames[m].locals /\ at = End(Co.frames[m])
      BY <2>4, <2>11, <2>15, <2>16, <3>3
    <3>5. MaxTemps \in Nat \ {0} /\ at \in Nat \ {0}
      BY <2>2, <2>4
    <3> HIDE DEF L, l
    <3> QED  BY ONLY <2>1, <2>16, <3>2, <3>3, <3>4, <3>5, m \in Nat \ {0}, k \in Nat, CallShape
  <2>18. Become(v, global)
    BY <1>1, <1>3, <2>14
  <2> QED  BY <1>1, <2>15, <2>16, <2>17, <2>18, BecomeKeeps
<1> QED  BY <1>2, <1>3

(* OP_CALL and OP_TRY_CALL of a closure *)
LEMMA OpCallKeeps ==
    ASSUME IInv, OpCall
    PROVE  IInv'
<1>1. PICK n \in 0..1 : \E try \in {-1, F.locals} : Call(n, try)
  BY DEF OpCall
<1> QED  BY <1>1, CallKeeps

(* A C function's answer takes the place of the call. *)
LEMMA CallNativeKeeps ==
    ASSUME IInv, NEW n \in 0..1, NEW v \in Data \cup {Exc}, CallNative(n, v)
    PROVE  IInv'
<1> DEFINE U == Used(upvalues)
<1>1. /\ Running /\ Temps(F, Co) > n
      /\ \E try \in BOOLEAN :
            IF v = Exc /\ ~try /\ Handler(Co) = 0
            THEN Error
            ELSE Become(Push(Drop(World, n + 1), Slot(0, v)), global)
  BY DEF CallNative
<1>2. CASE Error
  <2>1. Stop("error") /\ "error" \in {"ok", "error", "crash", "astray"}
    BY <1>2 DEF Error
  <2> QED  BY <2>1, StopKeeps
<1>3. CASE Become(Push(Drop(World, n + 1), Slot(0, v)), global)
  <2>1. /\ World \in Worlds(U) /\ Fits(coro, running, World, global) /\ running \in Coros
        /\ World.co = Co /\ World.up = upvalues /\ Shaped(Co, MaxTemps)
    BY <1>1, Alive
  <2>2. /\ F = Last(Co.frames) /\ Temps(F, Co) \in Nat /\ Len(Co.stack) \in Nat /\ End(F) \in Nat
        /\ Len(Co.stack) < End(F) + MaxTemps /\ MaxTemps \in Nat
    BY <1>1, Function
  <2>3. PICK m, s : m \in Nat /\ m = n + 1 /\ s = Slot(0, v) /\ m <= Temps(Last(World.co.frames), World.co)
    BY <1>1, <2>1, <2>2
  <2>4. PICK d, p : d = Drop(World, m) /\ p = Push(d, s)
    OBVIOUS
  <2>5. /\ m <= Len(World.co.stack) /\ Shaped(d.co, MaxTemps) /\ d.co.caller = World.co.caller
        /\ \A i \in 1..Len(World.co.stack) : i > Len(World.co.stack) - m => World.co.stack[i].var = 0
    <3>1. MaxTemps \in Nat /\ Shaped(World.co, MaxTemps)
      BY <2>1, <2>2
    <3> QED  BY <2>1, <2>3, <2>4, <3>1, DropShape
  <2>6. Fits(coro, running, d, global)
    BY <2>1, <2>3, <2>4, <2>5, DropFits
  <2>7. /\ d \in Worlds(U) /\ OnlyStack(d, World) /\ Len(d.co.stack) = Len(World.co.stack) - m
    BY <2>1, <2>3, <2>4, <2>5, DropEffect
  <2>8. d.up = upvalues /\ d.co.frames = Co.frames
    BY <2>1, <2>7 DEF OnlyStack
  <2>9. s \in SlotOf(U) /\ s.var = 0 /\ IsNew(s.var, [coro EXCEPT ![running] = d.co], d.up)
    <3>1. v \in Values(U)
      BY DEF Values
    <3> QED  BY <2>3, <3>1, Nameless
  <2>10. Fits(coro, running, p, global)
    BY <2>1, <2>4, <2>6, <2>8, <2>9, PushFits
  <2>11. Len(d.co.stack) + 1 < End(Last(d.co.frames)) + MaxTemps
    <3>1. PICK l, e \in Nat : l = Len(Co.stack) /\ e = End(F)
      BY <2>2
    <3>2. l < e + MaxTemps /\ Len(d.co.stack) = l - m
      BY <2>1, <2>2, <2>7, <3>1
    <3>3. l - m + 1 < e + MaxTemps
      BY ONLY <2>2, <2>3, <3>2, l \in Nat, e \in Nat, m \in Nat, n \in 0..1
    <3> QED  BY <2>2, <2>8, <3>1, <3>2, <3>3
  <2>12. p.ok = TRUE => Shaped(p.co, MaxTemps) /\ p.co.caller = Co.caller
    BY <2>1, <2>4, <2>5, <2>7, <2>9, <2>11, PushShape
  <2>13. Become(p, global)
    BY <1>3, <2>3, <2>4
  <2> QED  BY <1>1, <2>10, <2>12, <2>13, BecomeKeeps
<1> QED  BY <1>1, <1>2, <1>3

(* OP_CALL and OP_TRY_CALL of a C function *)
LEMMA OpCallNativeKeeps ==
    ASSUME IInv, OpCallNative
    PROVE  IInv'
<1>1. PICK n \in 0..1, v \in Data \cup {Exc} : CallNative(n, v)
  BY DEF OpCallNative
<1> QED  BY <1>1, CallNativeKeeps

(* Any other runtime error stops the program. *)
LEMMA FailKeeps ==
    ASSUME IInv, Fail
    PROVE  IInv'
<1>1. Stop("error") /\ "error" \in {"ok", "error", "crash", "astray"}
  BY DEF Fail, Error
<1> QED  BY <1>1, StopKeeps

-----------------------------------------------------------------------------
(* Exceptions. *)

(* A set of numbers that is bounded has a greatest one, the one Max takes. *)
LEMMA MaxIsIn ==
    ASSUME NEW n \in Nat, NEW T \in SUBSET (0..n), T # {}
    PROVE  Max(T) \in T /\ \A t \in T : t <= Max(T)
<1> DEFINE D == {n - t : t \in T}
<1>1. D \in SUBSET Nat /\ D # {}
  <2>1. ASSUME NEW t \in T PROVE n - t \in Nat
    <3>1. t \in 0..n
      OBVIOUS
    <3> QED  BY ONLY <3>1, n \in Nat
  <2>2. PICK t \in T : n - t \in D
    OBVIOUS
  <2> QED  BY <2>1, <2>2
<1>2. PICK d \in D : \A e \in D : d <= e
  <2> HIDE DEF D
  <2> QED  BY <1>1, Smallest
<1>3. PICK m \in T : d = n - m
  OBVIOUS
<1>4. ASSUME NEW t \in T PROVE m >= t
  <2>1. d <= n - t
    BY <1>2
  <2>2. m \in 0..n /\ t \in 0..n
    OBVIOUS
  <2> QED  BY ONLY <1>3, <2>1, <2>2, n \in Nat
<1>5. \E x \in T : \A y \in T : x >= y
  BY <1>4
<1>6. Max(T) \in T /\ \A y \in T : Max(T) >= y
  BY <1>5 DEF Max
<1>7. ASSUME NEW t \in T PROVE t <= Max(T)
  <2>1. t \in 0..n /\ Max(T) \in 0..n /\ Max(T) >= t
    BY <1>6
  <2> QED  BY ONLY <2>1, n \in Nat
<1> QED  BY <1>6, <1>7

(* The handler is a frame below the top one; the call it waits for put the
   callee right above its locals.                                          *)
LEMMA HandlerWaits ==
    ASSUME NEW U, NEW co \in CoroOf(U), NEW temps, Shaped(co, temps),
           NEW i, i = Handler(co), i # 0
    PROVE  /\ i \in 1..Len(co.frames) /\ i < Len(co.frames)
           /\ co.frames[i].try = co.frames[i].locals
           /\ co.frames[i + 1].slots = End(co.frames[i])
           /\ End(co.frames[i]) <= Len(co.stack)
<1> DEFINE fs == co.frames
           n == Len(fs)
           S == {k \in DOMAIN fs : fs[k].try # -1}
<1>1. /\ fs \in Seq(FrameOf(U)) /\ n \in Nat \ {0} /\ DOMAIN fs = 1..n /\ Last(fs) = fs[n]
      /\ Last(fs).try = -1
  BY FrameFacts DEF CoroOf
<1>2. i \in {0} \cup S
  <2>1. {0} \cup S \in SUBSET (0..n) /\ {0} \cup S # {} /\ n \in Nat
    BY <1>1
  <2>2. i = Max({0} \cup S)
    BY DEF Handler
  <2> HIDE DEF S
  <2> QED  BY <2>1, <2>2, MaxIsIn
<1>3. i \in 1..n /\ fs[i].try # -1
  BY <1>1, <1>2
<1>4. i < n
  BY <1>1, <1>3
<1>5. Waits(fs[i], fs[i + 1])
  BY <1>3, <1>4 DEF Shaped, Tiled
<1>6. fs[i].try = fs[i].locals /\ fs[i + 1].slots = End(fs[i])
  BY <1>3, <1>5 DEF Waits
<1>7. End(fs[i]) <= Len(co.stack)
  <2>1. fs[n].slots \in 1..Len(co.stack) /\ Len(co.stack) \in Nat
    BY <1>1, TopOfStack, FrameFacts
  <2>2. End(fs[i]) <= fs[n].slots
    BY <1>1, <1>3, <1>4 DEF Shaped, Tiled
  <2>3. End(fs[i]) \in Nat
    BY <1>3, FrameFacts
  <2> QED  BY ONLY <2>1, <2>2, <2>3
<1> QED  BY <1>3, <1>4, <1>6, <1>7

(* What the caught exception leaves of the coroutine. *)
Landed(new, co, i, n) ==
    /\ Len(new.frames) = i /\ Len(new.stack) = n
    /\ new.stack[n].val = Exc
    /\ \A k \in 1..(n - 1) : new.stack[k] = co.stack[k]

(* OP_SPREAD *)
LEMMA CaughtKeeps ==
    ASSUME IInv, Spread, ~Stop("astray")
    PROVE  IInv' /\ LandsWhereTried
<1> DEFINE U == Used(upvalues)
           l == Len(Co.stack)
           L == Len(Co.frames)
<1>1. PICK i, h, end, b :
        /\ i = Handler(Co) /\ h = Co.frames[i] /\ end = h.slots + h.try + 1 /\ b = Close(World, end)
        /\ Running /\ Temps(F, Co) > 0
        /\ IF i = 0
           THEN Error
           ELSE Become(Resumed([b EXCEPT !.co.frames = SubSeq(@, 1, i),
                                         !.co.stack = Append(SubSeq(@, 1, end - 2), Slot(0, Exc))]),
                       global)
  BY DEF Spread
<1>2. CASE i = 0
  <2>1. Stop("error") /\ "error" \in {"ok", "error", "crash", "astray"}
    BY <1>1, <1>2 DEF Error
  <2>2. IInv' /\ result' # "running"
    BY <2>1, StopKeeps
  <2> QED  BY <1>1, <1>2, <2>2 DEF LandsWhereTried
<1>3. CASE i # 0
  <2>1. /\ World \in Worlds(U) /\ Fits(coro, running, World, global) /\ running \in Coros
        /\ World.co = Co /\ World.up = upvalues /\ Shaped(Co, MaxTemps) /\ Co \in CoroOf(U)
        /\ coro \in [Coros -> CoroOf(U)] /\ World.ok = TRUE
    BY <1>1, Alive
  <2>2. /\ Co.stack \in Seq(SlotOf(U)) /\ l \in Nat /\ Co.frames \in Seq(FrameOf(U))
        /\ End(F) \in Nat /\ Temps(F, Co) = l + 1 - End(F) /\ l < End(F) + MaxTemps /\ MaxTemps \in Nat
        /\ l < Co.cap /\ L < Co.framecap /\ Co.cap \in Nat /\ Co.framecap \in Nat
    BY <1>1, <2>1, Function DEF CoroOf, Shaped
  <2>3. /\ i \in 1..L /\ i < L /\ h.try = h.locals /\ Co.frames[i + 1].slots = End(h) /\ End(h) <= l
    BY <1>1, <1>3, <2>1, HandlerWaits
  <2>4. /\ h \in FrameOf(U) /\ h.slots \in Nat \ {0} /\ End(h) \in Nat /\ h.slots < End(h)
        /\ End(h) = h.slots + h.locals /\ h.locals \in Nat \ {0} /\ L \in Nat \ {0}
    BY <1>1, <2>1, <2>3, FrameFacts
  <2>5. PICK e \in Nat, m \in Nat : /\ e = End(h) /\ m = e - 1 /\ end = e + 1 /\ end - 2 = m /\ m + 1 = e
                                    /\ end \in Nat /\ m \in 0..l /\ e \in 1..l
    <3>1. PICK a, k, n \in Nat : a = h.slots /\ k = h.locals /\ n = End(h) /\ n = a + k /\ a # 0
      BY <2>4
    <3>2. end = a + k + 1 /\ n <= l /\ l \in Nat
      BY <1>1, <2>2, <2>3, <3>1
    <3> HIDE DEF l
    <3>3. end = n + 1 /\ n \in 1..l /\ n - 1 \in 0..l /\ n - 1 \in Nat /\ end - 2 = n - 1 /\ n - 1 + 1 = n
      BY ONLY <3>1, <3>2, a \in Nat, k \in Nat, n \in Nat
    <3> QED  BY <3>1, <3>3
  <2>6. \A j \in 1..l : h.slots <= j /\ j <= e => (Co.stack[j].var # 0 <=> h.slots < j /\ j < e)
    <3>1. PICK d : d = Co
      OBVIOUS
    <3>2. d \in CoroOf(U) /\ Shaped(d, MaxTemps) /\ i \in 1..Len(d.frames) /\ h = d.frames[i]
      BY <1>1, <2>1, <2>3, <3>1
    <3> HIDE DEF U
    <3>3. ASSUME NEW j \in 1..Len(d.stack), h.slots <= j, j <= End(h)
          PROVE  d.stack[j].var # 0 <=> h.slots < j /\ j < End(h)
      <4>1. d.frames[i].slots <= j /\ j <= d.frames[i + 1].slots
        BY <2>3, <3>1, <3>2, <3>3
      <4>2. d.stack[j].var # 0 <=> d.frames[i].slots < j /\ j < End(d.frames[i])
        BY ONLY <3>2, <4>1, j \in 1..Len(d.stack), NamedInFrame
      <4> QED  BY <3>2, <4>2
    <3> QED  BY <2>5, <3>1, <3>3
  <2> HIDE DEF l
  <2>7. b \in Worlds(U) /\ Used(b.up) = U /\ OnlyOpen(b, World)
    BY <1>1, <2>1, <2>5, CloseSame
  <2>8. /\ b.co.stack = Co.stack /\ b.co.frames = Co.frames /\ b.co.cap = Co.cap
        /\ b.co.framecap = Co.framecap /\ b.co.caller = Co.caller /\ b.ok = TRUE /\ b.co.block = World.co.block
    BY <2>1, <2>7 DEF OnlyOpen
  <2>9. PICK r \in Seq(SlotOf(U)) : /\ r = SubSeq(Co.stack, 1, m) /\ Len(r) = m
                                    /\ \A j \in 1..m : r[j] = Co.stack[j]
    <3> DEFINE S == SlotOf(U)
    <3>1. PICK q : q = Co.stack
      OBVIOUS
    <3>2. q \in Seq(S) /\ m \in 0..Len(q)
      BY <2>2, <2>5, <3>1 DEF l
    <3> HIDE DEF S
    <3>3. SubSeq(q, 1, m) \in Seq(S) /\ Len(SubSeq(q, 1, m)) = m /\ \A j \in 1..m : SubSeq(q, 1, m)[j] = q[j]
      BY ONLY <3>2, CutPrefix
    <3> QED  BY <3>1, <3>3 DEF S
  <2>10. PICK x, s : x = Slot(0, Exc) /\ s = Append(r, x)
    OBVIOUS
  <2>11. x \in SlotOf(U) /\ x.var = 0 /\ x.val = Exc
    <3>1. Exc \in Values(U)
      BY DEF Values
    <3> QED  BY <2>10, <3>1, Nameless DEF Slot
  <2>12. /\ s \in Seq(SlotOf(U)) /\ Len(s) = e /\ s[e] = x /\ \A j \in 1..m : s[j] = Co.stack[j]
    BY <2>5, <2>9, <2>10, <2>11, AppendProperties
  <2>13. PICK a, c, gs, d : /\ a = WithStack(b, r) /\ c = WithStack(b, s)
                            /\ gs = SubSeq(Co.frames, 1, i) /\ d = WithFrames(c, gs)
    OBVIOUS
  <2>14. a \in Worlds(U) /\ a.co.stack = r /\ OnlyStack(a, b)
    <3>1. b \in Worlds(U) /\ r \in Seq(SlotOf(U)) /\ a = WithStack(b, r)
      BY <2>7, <2>13
    <3> HIDE DEF U
    <3> QED  BY ONLY <3>1, PutStack
  <2>15. Fits(coro, running, a, global) /\ Used(a.up) = U
    <3>1. /\ a.up = Close(World, end).up /\ a.co.open = Close(World, end).co.open
          /\ a.co.block = World.co.block /\ a \in Worlds(Used(World.up))
      BY <1>1, <2>1, <2>8, <2>14 DEF OnlyStack
    <3>2. /\ Len(a.co.stack) < end /\ Len(a.co.stack) <= Len(World.co.stack)
          /\ \A j \in 1..Len(a.co.stack) : a.co.stack[j] = World.co.stack[j]
      BY <2>1, <2>5, <2>9, <2>14 DEF l
    <3>3. ASSUME NEW j \in 1..Len(World.co.stack), Len(a.co.stack) < j, j < end
          PROVE  World.co.stack[j].var = 0
      <4>1. j = e /\ j \in 1..l
        BY <2>1, <2>5, <2>9, <2>14, <3>3 DEF l
      <4>2. h.slots <= j /\ j <= e /\ ~(j < e)
        <5>1. h.slots \in Nat /\ h.slots < e /\ j = e
          BY <2>4, <2>5, <4>1
        <5> QED  BY ONLY <5>1, e \in Nat
      <4>3. Co.stack[j].var # 0 <=> h.slots < j /\ j < e
        BY <2>6, <4>1, <4>2
      <4> QED  BY <2>1, <4>2, <4>3
    <3>4. Fits(coro, running, World, global) /\ running \in Coros /\ end \in Nat
      BY <2>1, <2>5
    <3>5. Fits(coro, running, a, global) /\ Used(a.up) = Used(World.up)
      BY ONLY <3>1, <3>2, <3>3, <3>4, ClosedCut, SMTT(30)
    <3> QED  BY <2>1, <3>5
  <2>16. c \in Worlds(U) /\ c.co.stack = s /\ OnlyStack(c, b)
    <3>1. b \in Worlds(U) /\ s \in Seq(SlotOf(U)) /\ c = WithStack(b, s)
      BY <2>7, <2>12, <2>13
    <3> HIDE DEF U
    <3> QED  BY ONLY <3>1, PutStack
  <2>17. Fits(coro, running, c, global) /\ Used(c.up) = U
    <3>1. c.up = a.up /\ c.co.open = a.co.open /\ c.co.block = a.co.block /\ c \in Worlds(Used(a.up))
      BY <2>14, <2>15, <2>16 DEF OnlyStack
    <3>2. SlotsKept(c.co.stack, a.co.stack, m + 1, x.var) /\ NamesKept(c.co.stack, a.co.stack)
      BY <2>9, <2>10, <2>11, <2>14, <2>16, AppendKeeps
    <3>3. PICK z \in 0..MaxVars : z = x.var /\ IsNew(z, [coro EXCEPT ![running] = a.co], a.up)
      BY <2>11, CoroutineAssumption DEF IsNew, SlotOf
    <3>4. PICK k \in Nat : k = m + 1
      BY <2>5
    <3>5. Fits(coro, running, c, global)
      BY <2>1, <2>15, <3>1, <3>2, <3>3, <3>4, StackFits
    <3> QED  BY <2>15, <3>1, <3>5
  <2>18. gs \in Seq(FrameOf(U)) /\ Len(gs) = i /\ \A k \in 1..i : gs[k] = Co.frames[k]
    <3>1. i \in 0..L
      BY <2>3
    <3> QED  BY <2>2, <2>13, <3>1, CutPrefix
  <2>19. d \in Worlds(U) /\ d.co.frames = gs /\ OnlyFrames(d, c)
    <3>1. c \in Worlds(U) /\ gs \in Seq(FrameOf(U)) /\ d = WithFrames(c, gs)
      BY <2>13, <2>16, <2>18
    <3> HIDE DEF U
    <3> QED  BY ONLY <3>1, PutFrames
  <2>20. Fits(coro, running, d, global) /\ Used(d.up) = U
    BY <2>1, <2>17, <2>19, FramesFit DEF OnlyFrames
  <2>21. PICK v : v = Resumed(d)
    OBVIOUS
  <2>22. /\ v \in Worlds(U) /\ OnlyFrames(v, d) /\ Len(v.co.frames) = i
         /\ \A k \in 1..(i - 1) : v.co.frames[k] = Co.frames[k]
         /\ v.co.frames[i].try = -1 /\ v.co.frames[i].slots = h.slots /\ End(v.co.frames[i]) = e
    <3>1. PICK k \in Nat \ {0}, t \in -1..MaxLocals :
              k = i /\ t = -1 /\ k = Len(d.co.frames) /\ h = d.co.frames[k]
      <4>1. -1 \in -1..MaxLocals
        BY CoroutineAssumption
      <4> QED  BY <1>1, <2>3, <2>18, <2>19, <4>1
    <3>2. v = TriedAt(d, t)
      BY <2>21, <3>1 DEF Resumed, TriedAt
    <3>3. d \in Worlds(U) /\ k = Len(d.co.frames) /\ h = d.co.frames[k] /\ h \in FrameOf(U)
      BY <2>4, <2>19, <3>1
    <3> HIDE DEF U
    <3>4. Retried(v, d, U, k, t, h)
      BY ONLY <3>2, <3>3, k \in Nat \ {0}, t \in -1..MaxLocals, TryEffect
    <3> QED  BY <2>5, <2>18, <2>19, <3>1, <3>4, SMTT(30) DEF Retried
  <2>23. Fits(coro, running, v, global)
    BY <2>1, <2>20, <2>22, FramesFit
  <2>24. /\ v.co \in CoroOf(U) /\ v.co.stack = s /\ v.co.cap = Co.cap /\ v.co.framecap = Co.framecap
         /\ v.co.caller = Co.caller
    BY <2>8, <2>16, <2>19, <2>22 DEF OnlyStack, OnlyFrames, Worlds
  <2>25. Shaped(v.co, MaxTemps)
    <3>1. Retops(v.co.frames, Co.frames, i)
      <4>1. \A k \in 1..i : k = i \/ k \in 1..(i - 1)
        BY <2>3
      <4>2. \A k \in 1..i : v.co.frames[k].slots = Co.frames[k].slots
        BY <1>1, <2>22, <4>1
      <4> QED  BY <2>22, <4>2 DEF Retops
    <3>2. NamedAs(v.co.stack, Co.stack, v.co.frames[i])
      <4>1. ASSUME NEW j \in 1..e
            PROVE  IF j <= h.slots THEN s[j].var # 0 <=> Co.stack[j].var # 0
                   ELSE s[j].var # 0 <=> j < e
        <5>1. CASE j = e
          <6>1. h.slots \in Nat /\ h.slots < e
            BY <2>4, <2>5
          <6>2. ~(j <= h.slots) /\ ~(j < e)
            BY ONLY <5>1, <6>1, e \in Nat
          <6>3. s[j].var = 0
            BY <2>11, <2>12, <5>1
          <6> QED  BY ONLY <6>2, <6>3
        <5>2. CASE j # e
          <6>1. j \in 1..m /\ j \in 1..l /\ j < e /\ j <= e
            <7>1. e - 1 = m /\ e \in 1..l /\ l \in Nat
              BY <2>2, <2>5
            <7> QED  BY ONLY <5>2, <7>1, e \in Nat, m \in Nat, j \in 1..e
          <6>2. s[j] = Co.stack[j]
            BY <2>12, <6>1
          <6>3. ~(j <= h.slots) => h.slots <= j /\ h.slots < j
            BY <2>4, <6>1
          <6> QED  BY <2>6, <6>1, <6>2, <6>3
        <5> QED  BY <5>1, <5>2
      <4>2. h.slots <= Len(Co.stack)
        BY <2>2, <2>3, <2>4, SMTT(30) DEF l
      <4> QED  BY <2>12, <2>22, <2>24, <4>1, <4>2 DEF NamedAs
    <3>3. /\ End(v.co.frames[i]) <= Len(v.co.stack) + 1
          /\ Len(v.co.stack) < End(v.co.frames[i]) + MaxTemps
      <4>1. MaxTemps > 0
        BY <1>1, <2>2
      <4> QED  BY <2>2, <2>12, <2>22, <2>24, <4>1
    <3>4. Len(v.co.stack) < v.co.cap /\ Len(v.co.frames) < v.co.framecap
      <4>1. /\ Len(v.co.stack) = e /\ Len(v.co.frames) = i /\ v.co.cap = Co.cap /\ v.co.framecap = Co.framecap
        BY <2>12, <2>22, <2>24
      <4>2. /\ e <= l /\ i < L /\ l < Co.cap /\ L < Co.framecap /\ Co.cap \in Nat /\ Co.framecap \in Nat
            /\ l \in Nat /\ L \in Nat /\ i \in Nat
        <5>1. l \in Nat /\ l < Co.cap /\ L < Co.framecap /\ Co.cap \in Nat /\ Co.framecap \in Nat
          BY <2>2
        <5>2. L \in Nat /\ i \in 1..L /\ i < L
          BY <2>3, <2>4
        <5>3. e \in 1..l
          BY <2>5
        <5> HIDE DEF L
        <5> QED  BY ONLY <5>1, <5>2, <5>3
      <4> HIDE DEF L
      <4> QED  BY ONLY <4>1, <4>2, e \in Nat
    <3> QED  BY <2>1, <2>3, <2>24, <3>1, <3>2, <3>3, <3>4, ShapedAgain
  <2>26. Become(v, global)
    <3>1. d = [b EXCEPT !.co.frames = SubSeq(@, 1, i),
                        !.co.stack = Append(SubSeq(@, 1, end - 2), Slot(0, Exc))]
      <4>1. WithFrames(WithStack(b, s), gs) = [b EXCEPT !.co.frames = gs, !.co.stack = s]
        BY <2>7 DEF WithFrames, WithStack, Worlds, CoroOf
      <4>2. /\ gs = SubSeq(b.co.frames, 1, i)
            /\ s = Append(SubSeq(b.co.stack, 1, end - 2), Slot(0, Exc))
        BY <2>5, <2>8, <2>9, <2>10, <2>13
      <4> QED  BY <2>13, <4>1, <4>2
    <3> QED  BY <1>1, <1>3, <2>21, <3>1
  <2>27. IInv' /\ (result' = "running" => running' = running /\ coro' = [coro EXCEPT ![running] = v.co])
    BY <1>1, <2>23, <2>24, <2>25, <2>26, BecomeKeeps
  <2>28. Landed(v.co, Co, i, e)
    <3>2. Len(v.co.frames) = i /\ v.co.stack = s /\ Len(s) = e /\ s[e].val = Exc
      BY <2>11, <2>12, <2>22, <2>24
    <3>3. e - 1 = m
      BY <2>5
    <3>4. \A k \in 1..(e - 1) : s[k] = Co.stack[k]
      BY <2>12, <3>3
    <3> QED  BY ONLY <3>2, <3>4 DEF Landed
  <2>29. LandsWhereTried
    <3>1. i = Handler(Co) /\ e = Co.frames[Handler(Co)].slots + Co.frames[Handler(Co)].locals
      BY <1>1, <2>4, <2>5
    <3>2. ASSUME result' = "running" PROVE Landed(Co', Co, i, e)
      <4>1. Co' = v.co
        BY <2>1, <2>27, <3>2 DEF Co
      <4> QED  BY ONLY <2>28, <4>1
    <3>3. result' # "error"
      <4>1. result' = result \/ result' = "crash"
        BY <1>1, <1>3 DEF Become, Stop
      <4> QED  BY <1>1, <4>1 DEF Running
    <3>4. CASE result' = "running"
      BY ONLY <3>1, <3>2, <3>3, <3>4 DEF Landed, LandsWhereTried
    <3>5. CASE result' # "running"
      BY <3>3, <3>5 DEF LandsWhereTried
    <3> QED  BY <3>4, <3>5
  <2> QED  BY <2>27, <2>29
<1> QED  BY <1>2, <1>3

LEMMA SpreadKeeps ==
    ASSUME IInv, Spread
    PROVE  IInv' /\ LandsWhereTried
<1>1. CASE Stop("astray")
  <2>1. IInv' /\ result' = "astray"
    BY <1>1, StopKeeps DEF Stop
  <2> QED  BY <2>1 DEF LandsWhereTried
<1> QED  BY <1>1, CaughtKeeps

-----------------------------------------------------------------------------
(* Returns. *)

(* A function returns to its caller. *)
LEMMA ReturnToCaller ==
    ASSUME IInv, Running, Temps(F, Co) > 0, Len(Co.frames) > 1,
           NEW w, w = Close(Drop(World, 1), F.slots),
           NEW r, r = [w EXCEPT !.co.frames = Front(@), !.co.stack = SubSeq(@, 1, F.slots - 1)],
           Become(Resumed(Push(r, Slot(0, Peek(0)))), global)
    PROVE  IInv'
<1> DEFINE U == Used(upvalues)
           l == Len(Co.stack)
           L == Len(Co.frames)
<1>1. /\ World \in Worlds(U) /\ Fits(coro, running, World, global) /\ running \in Coros
      /\ World.co = Co /\ World.up = upvalues /\ Shaped(Co, MaxTemps) /\ Co \in CoroOf(U)
      /\ coro \in [Coros -> CoroOf(U)]
  BY Alive
<1>2. /\ Co.stack \in Seq(SlotOf(U)) /\ l \in Nat /\ Co.frames \in Seq(FrameOf(U))
      /\ F = Last(Co.frames) /\ F.slots \in 1..l /\ Temps(F, Co) \in Nat /\ MaxTemps \in Nat
      /\ l < Co.cap /\ L < Co.framecap /\ Co.cap \in Nat /\ Co.framecap \in Nat /\ L \in Nat
  BY <1>1, Function DEF CoroOf, Shaped
<1>3. PICK a, m \in Nat : a = F.slots /\ m = a - 1 /\ m + 1 = a /\ a \in 1..l /\ m \in 0..(l - 1) /\ a <= l
  BY <1>2
<1>4. PICK one, d : one \in Nat /\ one = 1 /\ d = Drop(World, one)
  OBVIOUS
<1>5. /\ one <= Len(World.co.stack) /\ Fits(coro, running, d, global)
  <2>1. one <= Temps(Last(World.co.frames), World.co)
    BY <1>1, <1>2, <1>4
  <2>2. /\ one <= Len(World.co.stack)
        /\ \A i \in 1..Len(World.co.stack) : i > Len(World.co.stack) - one => World.co.stack[i].var = 0
    <3>1. MaxTemps \in Nat /\ Shaped(World.co, MaxTemps)
      BY <1>1, <1>2
    <3> QED  BY <1>1, <1>4, <2>1, <3>1, DropShape
  <2> QED  BY <1>1, <1>4, <2>2, DropFits
<1>6. /\ d \in Worlds(U) /\ OnlyStack(d, World) /\ Len(d.co.stack) = l - 1
      /\ \A j \in 1..(l - 1) : d.co.stack[j] = Co.stack[j]
  <2>1. /\ d \in Worlds(U) /\ OnlyStack(d, World)
        /\ Len(d.co.stack) = Len(World.co.stack) - one
        /\ \A i \in 1..(Len(World.co.stack) - one) : d.co.stack[i] = World.co.stack[i]
    BY <1>1, <1>4, <1>5, DropEffect, SMTT(30)
  <2> QED  BY <1>1, <1>4, <2>1
<1>7. /\ d.up = upvalues /\ d.co.frames = Co.frames /\ d.co.cap = Co.cap /\ d.co.framecap = Co.framecap
      /\ d.co.caller = Co.caller /\ d.ok = World.ok /\ d.co.stack \in Seq(SlotOf(U))
  BY <1>1, <1>6 DEF OnlyStack, Worlds, CoroOf
<1>8. w = Close(d, a)
  BY <1>3, <1>4
<1>9. w \in Worlds(U) /\ Used(w.up) = U /\ OnlyOpen(w, d)
  BY <1>1, <1>3, <1>5, <1>7, <1>8, CloseSame
<1>10. /\ w.co.stack = d.co.stack /\ w.co.frames = Co.frames /\ w.co.cap = Co.cap
       /\ w.co.framecap = Co.framecap /\ w.co.caller = Co.caller /\ w.co.block = d.co.block
  BY <1>7, <1>9 DEF OnlyOpen
<1>11. PICK q \in Seq(SlotOf(U)) : /\ q = SubSeq(d.co.stack, 1, m) /\ Len(q) = m
                                   /\ \A j \in 1..m : q[j] = Co.stack[j]
  <2>1. m \in 0..Len(d.co.stack)
    BY <1>3, <1>6
  <2>2. /\ SubSeq(d.co.stack, 1, m) \in Seq(SlotOf(U)) /\ Len(SubSeq(d.co.stack, 1, m)) = m
        /\ \A j \in 1..m : SubSeq(d.co.stack, 1, m)[j] = d.co.stack[j]
    BY <1>7, <2>1, CutPrefix
  <2>3. \A j \in 1..m : j \in 1..(l - 1)
    BY <1>3
  <2> QED  BY <1>6, <2>2, <2>3
<1>12. PICK i \in 1..L : i = L - 1 /\ i + 1 = L /\ i < L /\ i \in Nat
  <2>1. L \in Nat /\ L > 1
    BY <1>2
  <2> HIDE DEF L
  <2>2. L - 1 \in 1..L /\ L - 1 + 1 = L /\ L - 1 < L /\ L - 1 \in Nat
    BY ONLY <2>1
  <2> QED  BY <2>2
<1>13. PICK gs \in Seq(FrameOf(U)) : /\ gs = SubSeq(Co.frames, 1, i) /\ Len(gs) = i
                                     /\ \A k \in 1..i : gs[k] = Co.frames[k]
  <2> DEFINE S == FrameOf(U)
  <2>1. PICK t : t = Co.frames
    OBVIOUS
  <2>2. t \in Seq(S) /\ i \in 0..Len(t)
    BY <1>2, <1>12, <2>1
  <2> HIDE DEF S
  <2>3. /\ SubSeq(t, 1, i) \in Seq(S) /\ Len(SubSeq(t, 1, i)) = i
        /\ \A k \in 1..i : SubSeq(t, 1, i)[k] = t[k]
    BY ONLY <2>2, CutPrefix
  <2> QED  BY <2>1, <2>3 DEF S
<1>14. PICK h : h = Co.frames[i]
  OBVIOUS
<1>15. /\ h \in FrameOf(U) /\ h.slots \in Nat \ {0} /\ End(h) \in Nat /\ h.slots < End(h)
       /\ End(h) <= a /\ a < End(h) + MaxTemps /\ h.slots <= l /\ Co.frames[i + 1].slots = a
  <2>1. h \in FrameOf(U) /\ h.slots \in Nat \ {0} /\ End(h) \in Nat /\ h.slots < End(h)
    BY <1>1, <1>12, <1>14, FrameFacts
  <2>2. Waits(Co.frames[i], Co.frames[i + 1])
    <3>1. \A k \in 1..L : k < L => Waits(Co.frames[k], Co.frames[k + 1])
      BY <1>1 DEF Shaped, Tiled
    <3> QED  BY ONLY <1>12, <3>1
  <2>3. Co.frames[i + 1].slots = a
    <3>1. F = Co.frames[L]
      BY <1>1, <1>2, FrameFacts
    <3> QED  BY <1>3, <1>12, <3>1
  <2>4. End(h) <= a /\ a < End(h) + MaxTemps
    BY <1>14, <2>2, <2>3 DEF Waits
  <2>5. h.slots <= l
    BY <1>2, <1>3, <2>1, <2>4, SMTT(30)
  <2> QED  BY <2>1, <2>3, <2>4, <2>5
<1>16. PICK t, u : t = WithStack(w, q) /\ u = WithFrames(t, gs)
  OBVIOUS
<1>17. t \in Worlds(U) /\ t.co.stack = q /\ OnlyStack(t, w)
  <2>1. w \in Worlds(U) /\ q \in Seq(SlotOf(U)) /\ t = WithStack(w, q)
    BY <1>9, <1>11, <1>16
  <2> HIDE DEF U
  <2> QED  BY ONLY <2>1, PutStack
<1>18. Fits(coro, running, t, global) /\ Used(t.up) = U
  <2>1. /\ t.up = Close(d, a).up /\ t.co.open = Close(d, a).co.open
        /\ t.co.block = d.co.block /\ t \in Worlds(Used(d.up))
    BY <1>7, <1>8, <1>10, <1>17 DEF OnlyStack
  <2>2. /\ Len(t.co.stack) < a /\ Len(t.co.stack) <= Len(d.co.stack)
        /\ \A j \in 1..Len(t.co.stack) : t.co.stack[j] = d.co.stack[j]
        /\ \A j \in 1..Len(d.co.stack) : Len(t.co.stack) < j /\ j < a => d.co.stack[j].var = 0
    <3>1. \A j \in 1..m : j \in 1..(l - 1)
      BY <1>3
    <3>2. ASSUME NEW j \in Nat PROVE ~(m < j /\ j < a)
      BY ONLY <1>3, a \in Nat, m \in Nat, j \in Nat
    <3>3. Len(t.co.stack) = m /\ Len(d.co.stack) = l - 1 /\ m < a /\ m <= l - 1
      BY <1>2, <1>3, <1>6, <1>11, <1>17, SMTT(30)
    <3>4. \A j \in 1..m : t.co.stack[j] = d.co.stack[j]
      BY <1>6, <1>11, <1>17, <3>1
    <3>5. \A j \in 1..Len(d.co.stack) : ~(m < j /\ j < a)
      BY <3>2
    <3> QED  BY <3>3, <3>4, <3>5
  <2>3. Fits(coro, running, t, global) /\ Used(t.up) = Used(d.up)
    <3>1. Fits(coro, running, d, global) /\ running \in Coros
      BY <1>1, <1>5
    <3>2. t \in Worlds(Used(d.up)) /\ t.up = Close(d, a).up /\ t.co.open = Close(d, a).co.open
      BY <2>1
    <3>3. t.co.block = d.co.block /\ Len(t.co.stack) < a /\ Len(t.co.stack) <= Len(d.co.stack)
      BY <2>1, <2>2
    <3>4. \A j \in 1..Len(t.co.stack) : t.co.stack[j] = d.co.stack[j]
      BY <2>2
    <3>5. \A j \in 1..Len(d.co.stack) : Len(t.co.stack) < j /\ j < a => d.co.stack[j].var = 0
      BY <2>2
    <3>6. CutTo(t.co.stack, d.co.stack, a)
      BY ONLY <3>3, <3>4, <3>5 DEF CutTo
    <3>7. Used(t.up) = Used(d.up)
      <4>1. PICK b : b = Close(d, a)
        OBVIOUS
      <4>2. Used(b.up) = Used(d.up)
        BY <3>1, <4>1, CloseSame
      <4> QED  BY <3>2, <4>1, <4>2
    <3> QED  BY ONLY <3>1, <3>2, <3>3, <3>6, <3>7, a \in Nat, CloseFits
  <2> QED  BY <1>7, <2>3
<1>19. u \in Worlds(U) /\ u.co.frames = gs /\ OnlyFrames(u, t)
  <2>1. t \in Worlds(U) /\ gs \in Seq(FrameOf(U)) /\ u = WithFrames(t, gs)
    BY <1>13, <1>16, <1>17
  <2> HIDE DEF U
  <2> QED  BY ONLY <2>1, PutFrames
<1>20. Fits(coro, running, u, global) /\ Used(u.up) = U
  BY <1>1, <1>18, <1>19, FramesFit DEF OnlyFrames
<1>21. /\ u.co.stack = q /\ u.co.cap = Co.cap /\ u.co.framecap = Co.framecap /\ u.co.caller = Co.caller
  BY <1>10, <1>17, <1>19 DEF OnlyStack, OnlyFrames
<1>22. PICK s, p, v : s = Slot(0, Peek(0)) /\ p = Push(u, s) /\ v = Resumed(p)
  OBVIOUS
<1>23. s \in SlotOf(U) /\ s.var = 0 /\ IsNew(s.var, [coro EXCEPT ![running] = u.co], u.up)
  <2>1. Peek(0) \in Values(U)
    BY PeekIsValue
  <2> QED  BY <1>22, <2>1, Nameless
<1>24. /\ p \in Worlds(U) /\ Fits(coro, running, p, global) /\ Used(p.up) = U /\ Alike(p, u)
       /\ p.co.stack = Append(q, s) /\ (p.ok = TRUE => m + 1 < p.co.cap)
  <2>1. Fits(coro, running, p, global) /\ Used(p.up) = U
    <3>1. Fits(coro, running, u, global) /\ running \in Coros /\ s \in SlotOf(Used(u.up))
      BY <1>1, <1>20, <1>23
    <3>2. IsNew(s.var, [coro EXCEPT ![running] = u.co], u.up)
      BY <1>23
    <3>3. Fits(coro, running, Push(u, s), global) /\ Used(Push(u, s).up) = Used(u.up)
      BY ONLY <3>1, <3>2, PushFits
    <3> QED  BY <1>20, <1>22, <3>3
  <2>2. Len(u.co.stack) < u.co.cap /\ Len(u.co.stack) = m
    BY <1>2, <1>3, <1>11, <1>21, SMTT(30)
  <2>3. /\ p \in Worlds(U) /\ Alike(p, u)
        /\ p.co.stack = Append(u.co.stack, s)
        /\ p.ok = TRUE /\ Len(u.co.stack) < u.co.cap => Len(u.co.stack) + 1 < p.co.cap
    BY <1>19, <1>22, <1>23, PushEffect
  <2> QED  BY <1>21, <2>1, <2>2, <2>3
<1>25. /\ p.co.frames = gs /\ p.co.framecap = Co.framecap /\ p.co.caller = Co.caller
  BY <1>19, <1>21, <1>24 DEF Alike
<1>26. /\ Len(p.co.stack) = a /\ p.co.stack[a] = s /\ \A j \in 1..m : p.co.stack[j] = Co.stack[j]
  BY <1>3, <1>11, <1>23, <1>24, AppendProperties
<1>27. /\ v \in Worlds(U) /\ OnlyFrames(v, p) /\ Len(v.co.frames) = i
       /\ \A k \in 1..(i - 1) : v.co.frames[k] = Co.frames[k]
       /\ v.co.frames[i].try = -1 /\ v.co.frames[i].slots = h.slots /\ End(v.co.frames[i]) = End(h)
  <2>1. PICK k \in Nat \ {0}, e \in -1..MaxLocals :
            k = i /\ e = -1 /\ k = Len(p.co.frames) /\ h = p.co.frames[k]
    <3>1. -1 \in -1..MaxLocals
      BY CoroutineAssumption
    <3> QED  BY <1>13, <1>14, <1>25, <3>1
  <2>2. v = TriedAt(p, e)
    BY <1>22, <2>1 DEF Resumed, TriedAt
  <2>3. Retried(v, p, U, k, e, h)
    <3>1. p \in Worlds(U) /\ h \in FrameOf(U)
      BY <1>15, <1>24
    <3>2. k = Len(p.co.frames)
      BY <2>1
    <3>3. h = p.co.frames[k]
      BY <2>1
    <3>4. k \in Nat \ {0}
      OBVIOUS
    <3>5. e \in -1..MaxLocals
      OBVIOUS
    <3> HIDE DEF U
    <3> QED  BY ONLY <2>2, <3>1, <3>2, <3>3, <3>4, <3>5, TryEffect
  <2> QED  BY <1>13, <1>25, <2>1, <2>3 DEF Retried
<1>28. Fits(coro, running, v, global)
  BY <1>1, <1>24, <1>27, FramesFit
<1>29. /\ v.co \in CoroOf(U) /\ v.co.stack = p.co.stack /\ v.co.cap = p.co.cap
       /\ v.co.framecap = Co.framecap /\ v.co.caller = Co.caller /\ v.ok = p.ok
  BY <1>25, <1>27 DEF OnlyFrames, Worlds
<1>30. v.ok = TRUE => Shaped(v.co, MaxTemps)
  <2> SUFFICES ASSUME v.ok = TRUE PROVE Shaped(v.co, MaxTemps)
    OBVIOUS
  <2>1. Retops(v.co.frames, Co.frames, i)
    <3>1. \A k \in 1..i : k = i \/ k \in 1..(i - 1)
      BY <1>12
    <3>2. \A k \in 1..i : v.co.frames[k].slots = Co.frames[k].slots
      BY <1>14, <1>27, <3>1
    <3> QED  BY <1>27, <3>2 DEF Retops
  <2>2. NamedAs(v.co.stack, Co.stack, v.co.frames[i])
    <3>1. ASSUME NEW j \in 1..a
          PROVE  IF j <= h.slots THEN p.co.stack[j].var # 0 <=> Co.stack[j].var # 0
                 ELSE p.co.stack[j].var # 0 <=> j < End(h)
      <4>1. CASE j = a
        <5>1. ~(j <= h.slots) /\ p.co.stack[j].var = 0 /\ ~(j < End(h))
          BY <1>15, <1>23, <1>26, <4>1
        <5> QED  BY ONLY <5>1
      <4>2. CASE j # a
        <5>1. j \in 1..m /\ j \in 1..l /\ j <= a
          BY <1>3, <4>2
        <5>2. p.co.stack[j] = Co.stack[j]
          BY <1>26, <5>1
        <5>3. h.slots <= j => (Co.stack[j].var # 0 <=> h.slots < j /\ j < End(h))
          BY <1>1, <1>12, <1>14, <1>15, <5>1, NamedInFrame
        <5>4. ~(j <= h.slots) => h.slots <= j /\ h.slots < j
          BY <1>15
        <5> QED  BY <5>2, <5>3, <5>4
      <4> QED  BY <4>1, <4>2
    <3> QED  BY <1>15, <1>26, <1>27, <1>29, <3>1 DEF NamedAs
  <2>3. /\ End(v.co.frames[i]) <= Len(v.co.stack) + 1
        /\ Len(v.co.stack) < End(v.co.frames[i]) + MaxTemps
        /\ Len(v.co.stack) < v.co.cap
    <3>1. End(v.co.frames[i]) = End(h) /\ Len(v.co.stack) = a /\ v.co.cap = p.co.cap
      BY <1>26, <1>27, <1>29
    <3>2. End(h) <= a + 1
      BY <1>15
    <3> QED  BY <1>3, <1>15, <1>24, <1>29, <3>1, <3>2
  <2>4. Len(v.co.frames) < v.co.framecap
    BY <1>2, <1>12, <1>27, <1>29
  <2> QED  BY <1>1, <1>29, <2>1, <2>2, <2>3, <2>4, ShapedAgain
<1>31. Become(v, global)
  <2>1. r = u
    <3>1. WithFrames(WithStack(w, q), gs) = [w EXCEPT !.co.frames = gs, !.co.stack = q]
      BY <1>9 DEF WithFrames, WithStack, Worlds, CoroOf
    <3>2. gs = Front(w.co.frames) /\ q = SubSeq(w.co.stack, 1, F.slots - 1)
      BY <1>3, <1>7, <1>10, <1>11, <1>12, <1>13 DEF Front
    <3> QED  BY <1>16, <3>1, <3>2
  <2> QED  BY <1>22, <2>1
<1> QED  BY <1>28, <1>29, <1>30, <1>31, BecomeKeeps

(* The coroutine on top ends: the one below it runs on. *)
LEMMA ChainReturns ==
    ASSUME NEW cs, NEW top, NEW below, ChainOf(cs, top, below), below # <<>>,
           NEW n, n = Len(below), NEW under, under = below[n].running,
           NEW ds, ds[top] = NoCoro, ds[under].caller = cs[under].caller,
           \A c \in Coros : c # top /\ c # under => ds[c] = cs[c],
           Shaped(ds[under], MaxTemps)
    PROVE  ChainOf(ds, under, Front(below))
<1>1. /\ top \in Coros /\ below \in Activations /\ n \in Nat \ {0}
      /\ \A k \in 1..n : below[k].running # top
      /\ \A j, k \in 1..n : below[j].running = below[k].running => j = k
      /\ \A k \in 1..n :
            cs[IF k = n THEN top ELSE below[k + 1].running].caller = below[k].running
      /\ cs[Main].caller = None
      /\ Main = top \/ \E k \in 1..n : below[k].running = Main
      /\ \A k \in 1..n : Shaped(cs[below[k].running], MaxTemps - 1)
      /\ \A c \in Coros : c # top /\ (\A k \in 1..n : below[k].running # c) => cs[c] = NoCoro
  BY DEF ChainOf, Activations
<1>2. \A k \in 1..n : below[k].running \in Coros
  <2>1. PICK A : A = [running : Coros, caller : Coros \cup {None}]
    OBVIOUS
  <2>2. below \in Seq(A)
    BY <1>1, <2>1 DEF Activations
  <2>3. \A k \in 1..n : below[k] \in A
    BY ONLY <2>2, n = Len(below)
  <2> QED  BY <2>1, <2>3
<1>3. PICK m \in Nat : m = n - 1 /\ m + 1 = n
  <2>1. n \in Nat \ {0}
    BY <1>1
  <2>2. n - 1 \in Nat /\ n - 1 + 1 = n
    BY ONLY <2>1
  <2> QED  BY <2>2
<1>30. PICK f : f = Front(below)
  OBVIOUS
<1>4. f \in Activations /\ Len(f) = m /\ \A k \in 1..m : f[k] = below[k]
  <2>1. m \in 0..Len(below) /\ below \in Seq([running : Coros, caller : Coros \cup {None}])
    BY <1>1, <1>3 DEF Activations
  <2>2. f = SubSeq(below, 1, m)
    BY <1>3, <1>30 DEF Front
  <2> QED  BY <2>1, <2>2, CutPrefix DEF Activations
<1>5. under \in Coros /\ \A k \in 1..m : f[k].running # under /\ f[k].running # top /\ f[k].running \in Coros
  <2>1. \A k \in 1..m : k \in 1..n /\ k # n
    BY <1>3
  <2> QED  BY <1>1, <1>2, <1>4, <2>1
<1>6. \A j, k \in 1..m : f[j].running = f[k].running => j = k
  <2>1. \A k \in 1..m : k \in 1..n
    BY <1>3
  <2> QED  BY <1>1, <1>4, <2>1
<1>7. ASSUME NEW k \in 1..m
      PROVE  ds[IF k = m THEN under ELSE f[k + 1].running].caller = f[k].running
  <2>1. k \in 1..n /\ k # n
    BY <1>3
  <2>2. cs[below[k + 1].running].caller = f[k].running
    BY <1>1, <1>4, <2>1
  <2>3. CASE k = m
    BY <1>3, <2>2, <2>3
  <2>4. CASE k # m
    <3>1. k + 1 \in 1..m
      BY <2>4
    <3>2. ds[f[k + 1].running] = cs[f[k + 1].running] /\ f[k + 1] = below[k + 1]
      BY <1>4, <1>5, <3>1
    <3> QED  BY <2>2, <2>4, <3>2
  <2> QED  BY <2>3, <2>4
<1>8. ds[Main].caller = None
  <2>1. Main \in Coros
    BY CoroutineAssumption
  <2>2. CASE Main = top
    BY <2>2 DEF NoCoro
  <2>3. CASE Main = under
    BY <1>1, <2>3
  <2>4. CASE Main # top /\ Main # under
    BY <1>1, <2>1, <2>4
  <2> QED  BY <2>2, <2>3, <2>4
<1>9. Main = under \/ \E k \in 1..m : f[k].running = Main
  <2>1. Main # top
    <3>1. cs[top].caller = below[n].running /\ below[n].running \in Coros
      BY <1>1, <1>2
    <3> QED  BY <1>1, <3>1, CoroutineAssumption
  <2>2. PICK k \in 1..n : below[k].running = Main
    BY <1>1, <2>1
  <2>3. k = n \/ k \in 1..m
    BY <1>3
  <2> QED  BY <1>4, <2>2, <2>3
<1>10. \A k \in 1..m : Shaped(ds[f[k].running], MaxTemps - 1)
  <2> SUFFICES ASSUME NEW k \in 1..m PROVE Shaped(ds[f[k].running], MaxTemps - 1)
    OBVIOUS
  <2>1. k \in 1..n /\ f[k] = below[k]
    BY <1>3, <1>4
  <2>2. ds[f[k].running] = cs[f[k].running]
    BY <1>5
  <2> QED  BY <1>1, <2>1, <2>2
<1>11. ASSUME NEW c \in Coros, c # under, \A k \in 1..m : f[k].running # c
       PROVE  ds[c] = NoCoro
  <2>1. \A k \in 1..n : k = n \/ k \in 1..m
    BY <1>3
  <2>2. \A k \in 1..n : below[k].running # c
    BY <1>4, <1>11, <2>1
  <2>3. CASE c = top
    BY <2>3
  <2>4. CASE c # top
    BY <1>1, <1>11, <2>2, <2>4
  <2> QED  BY <2>3, <2>4
<1>12. ChainOf(ds, under, f)
  BY ONLY <1>4, <1>5, <1>6, <1>7, <1>8, <1>9, <1>10, <1>11, Shaped(ds[under], MaxTemps) DEF ChainOf
<1> QED  BY <1>30, <1>12

(* The outermost function of a coroutine returns: every upvalue of it is
   closed, and nothing of it is left.                                      *)
LEMMA NothingOpen ==
    ASSUME NEW cs, NEW c \in Coros, NEW w, NEW g, Fits(cs, c, w, g),
           NEW one \in Nat, one = 1, NEW v, v = Close(w, one)
    PROVE  v.co.open = <<>>
<1> DEFINE U == Used(w.up)
<1>1. w \in Worlds(U) /\ cs \in [Coros -> CoroOf(U)] /\ w.co \in CoroOf(U)
      /\ Exact([cs EXCEPT ![c] = w.co], w.up)
  BY DEF Fits, Worlds
<1>2. Pointed(c, w.co, w.up)
  <2>1. [cs EXCEPT ![c] = w.co][c] = w.co
    BY <1>1
  <2>2. Pointed(c, [cs EXCEPT ![c] = w.co][c], w.up)
    BY <1>1 DEF Exact
  <2> QED  BY <2>1, <2>2
<1>3. PICK n \in 0..Len(w.co.open) : ClosedFirst(n, v, w, one)
  BY <1>1, <1>2, CloseEffect
<1>4. w.co.open \in Seq(Upvalues) /\ Len(w.co.open) \in Nat
  BY <1>1 DEF CoroOf
<1>5. v.co.open = SubSeq(w.co.open, n + 1, Len(w.co.open))
  BY <1>1, <1>3 DEF ClosedFirst, CoroOf
<1>6. n = Len(w.co.open)
  <2>1. ASSUME n < Len(w.co.open) PROVE FALSE
    <3>1. n + 1 \in 1..Len(w.co.open) /\ w.up[w.co.open[n + 1]].idx < one
      BY <1>3, <1>4, <2>1 DEF ClosedFirst
    <3>2. w.up[w.co.open[n + 1]].idx \in 1..Len(w.co.stack)
      BY <1>2, <3>1 DEF Pointed, Points
    <3> QED  BY ONLY <3>1, <3>2, one = 1
  <2> QED  BY <1>4, <2>1
<1>7. SubSeq(w.co.open, n + 1, Len(w.co.open)) = <<>>
  <2>1. PICK k \in Nat : k = n
    BY <1>4
  <2>2. k + 1 > Len(w.co.open)
    BY <1>6, <2>1
  <2> QED  BY <1>4, <2>1, <2>2, EmptySeq
<1> QED  BY <1>5, <1>7

(* A coroutine that has returned leaves no variable that is not in a closed
   upvalue.                                                                *)
LEMMA GoneIsSound ==
    ASSUME NEW cs, NEW c \in Coros, NEW w, NEW g, Fits(cs, c, w, g),
           NEW one \in Nat, one = 1, NEW v, v = Close(w, one)
    PROVE  Sound([cs EXCEPT ![c] = NoCoro], v.up, g) /\ Used(v.up) = Used(w.up)
<1> DEFINE U == Used(w.up)
<1>1. w \in Worlds(U) /\ cs \in [Coros -> CoroOf(U)] /\ w.co \in CoroOf(U) /\ g \in Values(U)
  BY DEF Fits, Worlds
<1>2. v \in Worlds(U) /\ Used(v.up) = U /\ OnlyOpen(v, w) /\ v.co.open = <<>>
  <2>1. PICK z : z = Close(w, one)
    OBVIOUS
  <2>2. z \in Worlds(U) /\ Used(z.up) = U /\ OnlyOpen(z, w)
    BY <2>1, CloseSame
  <2>3. v.co.open = <<>>
    BY NothingOpen
  <2> QED  BY <2>1, <2>2, <2>3
<1>3. w.co.block \in Nat /\ StackMin \in Nat /\ FramesMin \in Nat
  BY <1>1, CoroutineAssumption DEF CoroOf
<1>4. PICK b, o : b = [NoCoro EXCEPT !.block = w.co.block] /\ o = [v EXCEPT !.co = b]
  OBVIOUS
<1>5. /\ b \in CoroOf(U) /\ NoCoro \in CoroOf(U) /\ b.stack = <<>> /\ b.open = <<>> /\ b.block = w.co.block
      /\ NoCoro.stack = <<>> /\ NoCoro.open = <<>>
  <2>1. PICK n : n = NoCoro
    OBVIOUS
  <2>2. n.stack = <<>> /\ n.open = <<>>
    BY <2>1 DEF NoCoro
  <2>3. n \in CoroOf(U)
    <3>1. /\ <<>> \in Seq(SlotOf(U)) /\ <<>> \in Seq(FrameOf(U)) /\ <<>> \in Seq(Upvalues)
          /\ None \in Coros \cup {None} /\ 0 \in Nat
      OBVIOUS
    <3> QED  BY <1>3, <2>1, <3>1 DEF NoCoro, CoroOf
  <2>4. b \in CoroOf(U) /\ b.stack = n.stack /\ b.open = n.open /\ b.block = w.co.block
    <3>1. b = [n EXCEPT !.block = w.co.block] /\ w.co.block \in Nat
      BY <1>3, <1>4, <2>1
    <3> QED  BY ONLY <2>3, <3>1 DEF CoroOf
  <2> QED  BY <2>1, <2>2, <2>3, <2>4
<1>6. o \in Worlds(U) /\ o.co = b /\ o.up = v.up
  BY <1>2, <1>4, <1>5 DEF Worlds
<1>7. Fits(cs, c, o, g)
  <2>1. /\ o.up = Close(w, one).up /\ o.co.open = Close(w, one).co.open
        /\ o.co.block = w.co.block /\ o \in Worlds(Used(w.up))
    BY <1>2, <1>5, <1>6
  <2>2. /\ Len(o.co.stack) < one /\ Len(o.co.stack) <= Len(w.co.stack)
        /\ \A j \in 1..Len(o.co.stack) : o.co.stack[j] = w.co.stack[j]
        /\ \A j \in 1..Len(w.co.stack) : Len(o.co.stack) < j /\ j < one => w.co.stack[j].var = 0
    <3>1. Len(o.co.stack) = 0 /\ Len(w.co.stack) \in Nat
      BY <1>1, <1>5, <1>6 DEF CoroOf
    <3> QED  BY <3>1
  <2> QED  BY ONLY <2>1, <2>2, Fits(cs, c, w, g), c \in Coros, one \in Nat, ClosedCut
<1> DEFINE ds == [cs EXCEPT ![c] = b]
<1>8. /\ ds \in [Coros -> CoroOf(U)] /\ ds[c] = b /\ [ds EXCEPT ![c] = NoCoro] = [cs EXCEPT ![c] = NoCoro]
      /\ Exact(ds, v.up)
  BY <1>1, <1>5, <1>6, <1>7, PutCoro DEF Fits
<1>9. v.up \in [Upvalues -> UpvalueOf(U)]
  BY <1>2 DEF Worlds
<1> HIDE DEF ds
<1>10. MovedWith(c, NoCoro.block, v.up, v.up)
  <2>1. \A u \in Upvalues : ~(v.up[u].open = TRUE /\ v.up[u].coro = c)
    <3>1. Pointed(c, b, v.up)
      BY <1>8 DEF Exact
    <3>2. Len(b.open) = 0
      BY <1>5
    <3> QED  BY <3>1, <3>2 DEF Pointed
  <2> QED  BY <2>1 DEF MovedWith
<1>11. Exact([ds EXCEPT ![c] = NoCoro], v.up)
  BY <1>5, <1>8, <1>9, <1>10, ExactMoved
<1>12. [cs EXCEPT ![c] = NoCoro] \in [Coros -> CoroOf(U)]
  BY <1>1, <1>5, PutCoro
<1> QED  BY <1>1, <1>2, <1>8, <1>9, <1>11, <1>12 DEF Sound, Typed

(* A coroutine that was run on top of another ends. *)
LEMMA ReturnFromCoroutine ==
    ASSUME IInv, Running, Temps(F, Co) > 0, Len(Co.frames) <= 1, saved # <<>>,
           NEW w, w = Close(Drop(World, 1), F.slots),
           NEW m \in Data, NEW below, below = Last(saved).running,
           NEW p, p = Push([co |-> coro[below], up |-> w.up, ok |-> TRUE], Slot(0, m)),
           p.ok = TRUE,
           Settle([coro EXCEPT ![running] = NoCoro, ![below] = p.co], p.up, global),
           running' = below, saved' = Front(saved), result' = result
    PROVE  IInv'
<1> DEFINE U == Used(upvalues)
<1>1. /\ World \in Worlds(U) /\ Fits(coro, running, World, global) /\ running \in Coros
      /\ World.co = Co /\ World.up = upvalues /\ Shaped(Co, MaxTemps) /\ Co \in CoroOf(U)
      /\ coro \in [Coros -> CoroOf(U)] /\ Chained /\ result = "running"
  BY Alive
<1>2. F = Last(Co.frames) /\ Temps(F, Co) \in Nat /\ MaxTemps \in Nat
  BY Function
<1>3. PICK one, d : one \in Nat /\ one = 1 /\ d = Drop(World, one)
  OBVIOUS
<1>4. /\ Fits(coro, running, d, global) /\ d.up = upvalues
  <2>1. one <= Temps(Last(World.co.frames), World.co)
    BY <1>1, <1>2, <1>3
  <2>2. /\ one <= Len(World.co.stack)
        /\ \A i \in 1..Len(World.co.stack) : i > Len(World.co.stack) - one => World.co.stack[i].var = 0
    <3>1. MaxTemps \in Nat /\ Shaped(World.co, MaxTemps)
      BY <1>1, <1>2
    <3> QED  BY <1>1, <1>3, <2>1, <3>1, DropShape
  <2>3. OnlyStack(d, World)
    BY <1>1, <1>3, <2>2, DropEffect
  <2> QED  BY <1>1, <1>3, <2>2, <2>3, DropFits DEF OnlyStack
<1>5. F.slots = one
  <2>1. Len(Co.frames) = 1 /\ F = Co.frames[1]
    <3>1. PICK co \in CoroOf(U) : co = Co
      BY <1>1
    <3>2. Shaped(co, MaxTemps)
      BY <1>1, <3>1
    <3> HIDE DEF U
    <3>3. Len(co.frames) \in Nat \ {0} /\ Last(co.frames) = co.frames[Len(co.frames)]
      BY ONLY <3>2, co \in CoroOf(U), FrameFacts
    <3>4. Len(co.frames) <= 1
      BY <3>1
    <3>5. Len(co.frames) = 1
      <4>1. PICK k \in Nat \ {0} : k = Len(co.frames)
        BY <3>3
      <4>2. k <= 1
        BY <3>4, <4>1
      <4>3. k = 1
        BY ONLY <4>2, k \in Nat \ {0}
      <4> QED  BY <4>1, <4>3
    <3> QED  BY <1>2, <3>1, <3>3, <3>5
  <2>2. Co.frames[1].slots = 1
    BY <1>1 DEF Shaped, Tiled
  <2> QED  BY <1>3, <2>1, <2>2
<1>6. w = Close(d, one)
  BY <1>3, <1>5
<1> DEFINE cs == [coro EXCEPT ![running] = NoCoro]
<1>7. Sound(cs, w.up, global) /\ Used(w.up) = U
  <2>1. Fits(coro, running, d, global) /\ running \in Coros /\ one = 1
    BY <1>1, <1>3, <1>4
  <2>2. Sound([coro EXCEPT ![running] = NoCoro], w.up, global) /\ Used(w.up) = Used(d.up)
    BY ONLY <2>1, <1>6, one \in Nat, GoneIsSound
  <2> QED  BY <1>4, <2>2
<1>8. PICK n \in Nat \ {0} : n = Len(saved) /\ below = saved[n].running /\ below \in Coros /\ below # running
                             /\ Shaped(coro[below], MaxTemps - 1)
  <2>1. ChainOf(coro, running, saved)
    BY <1>1 DEF Chained
  <2>2. saved \in Seq([running : Coros, caller : Coros \cup {None}])
    BY <2>1 DEF ChainOf, Activations
  <2>3. PICK n \in Nat \ {0} : n = Len(saved)
    BY <2>2
  <2>4. n \in 1..Len(saved) /\ saved[n] \in [running : Coros, caller : Coros \cup {None}]
    <3>1. PICK A : A = [running : Coros, caller : Coros \cup {None}]
      OBVIOUS
    <3>2. saved \in Seq(A)
      BY <2>2, <3>1
    <3>3. n \in 1..Len(saved) /\ saved[n] \in A
      BY ONLY <2>3, <3>2, n \in Nat \ {0}
    <3> QED  BY <3>1, <3>3
  <2>5. below = saved[n].running
    BY <2>3 DEF Last
  <2> QED  BY <2>1, <2>3, <2>4, <2>5 DEF ChainOf
<1>9. cs[running] = NoCoro /\ \A c \in Coros : c # running => cs[c] = coro[c]
  BY <1>1
<1>10. [coro EXCEPT ![running] = NoCoro, ![below] = p.co] = [cs EXCEPT ![below] = p.co]
  OBVIOUS
<1> HIDE DEF cs
<1>11. PICK q, s : q = [co |-> cs[below], up |-> w.up, ok |-> TRUE] /\ s = Slot(0, m) /\ p = Push(q, s)
  BY <1>8, <1>9
<1>12. Fits(cs, below, q, global) /\ q.co = coro[below] /\ q.up = w.up
  BY <1>7, <1>8, <1>9, <1>11, SoundFits
<1>13. q \in Worlds(U)
  BY <1>7, <1>12 DEF Fits
<1>14. s \in SlotOf(U) /\ s.var = 0 /\ IsNew(s.var, [cs EXCEPT ![below] = q.co], q.up)
  <2>1. m \in Values(U)
    BY DEF Values
  <2> QED  BY <1>11, <2>1, Nameless
<1>15. Fits(cs, below, p, global)
  BY <1>7, <1>8, <1>11, <1>12, <1>14, PushFits
<1>16. PICK ds : ds = [cs EXCEPT ![below] = p.co]
  OBVIOUS
<1>17. Sound(ds, p.up, global)
  BY <1>8, <1>15, <1>16, FitsIsSound
<1>18. coro' = ds /\ global' = global /\ Sound(ds, upvalues', global)
  <2>1. Settle(ds, p.up, global)
    BY <1>10, <1>16
  <2> QED  BY <1>17, <2>1, SettleKeeps
<1>19. Shaped(p.co, MaxTemps) /\ p.co.caller = coro[below].caller
  <2>1. Len(q.co.stack) + 1 < End(Last(q.co.frames)) + MaxTemps
    <3>1. Len(q.co.stack) < End(Last(q.co.frames)) + (MaxTemps - 1)
      BY <1>8, <1>12 DEF Shaped
    <3>2. Len(q.co.stack) \in Nat
      BY <1>13 DEF Worlds, CoroOf
    <3>3. End(Last(q.co.frames)) \in Nat
      <4>1. q.co \in CoroOf(U) /\ Shaped(q.co, MaxTemps - 1)
        BY <1>8, <1>12, <1>13 DEF Worlds
      <4>2. Last(q.co.frames) \in FrameOf(U)
        BY <4>1, TopOfStack
      <4> QED  BY <4>2, FrameEnd
    <3> QED  BY <1>2, <3>1, <3>2, <3>3
  <2>2. Shaped(q.co, MaxTemps - 1)
    BY <1>8, <1>12
  <2>3. Push(q, s).ok = TRUE /\ s.var = 0 /\ s \in SlotOf(U)
    BY <1>11, <1>14
  <2>4. MaxTemps \in Nat /\ MaxTemps - 1 \in Int
    BY <1>2
  <2> HIDE DEF U
  <2>5. Shaped(Push(q, s).co, MaxTemps) /\ Push(q, s).co.caller = q.co.caller
    BY ONLY <1>13, <2>1, <2>2, <2>3, <2>4, PushShape
  <2> QED  BY <1>11, <1>12, <2>5
<1>20. ds[running] = NoCoro /\ ds[below] = p.co /\ \A c \in Coros : c # running /\ c # below => ds[c] = coro[c]
  <2>1. cs \in [Coros -> CoroOf(U)]
    BY <1>7 DEF Sound, Typed
  <2> QED  BY <1>1, <1>8, <1>9, <1>16, <2>1
<1>21. ChainOf(ds, below, Front(saved))
  <2>1. ChainOf(coro, running, saved)
    BY <1>1 DEF Chained
  <2>2. ds[below].caller = coro[below].caller /\ Shaped(ds[below], MaxTemps)
    BY <1>19, <1>20
  <2>3. saved # <<>> /\ n = Len(saved) /\ below = saved[n].running
    BY <1>8
  <2>4. /\ ds[running] = NoCoro /\ ds[below].caller = coro[below].caller
        /\ Shaped(ds[below], MaxTemps)
    BY <1>20, <2>2
  <2>5. \A c \in Coros : c # running /\ c # below => ds[c] = coro[c]
    BY <1>20
  <2> QED  BY ONLY <2>1, <2>3, <2>4, <2>5, ChainReturns
<1> QED  BY <1>1, <1>18, <1>21 DEF IInv, Sound, Chained

(* OP_RETURN *)
LEMMA ReturnKeeps ==
    ASSUME IInv, Return
    PROVE  IInv'
<1>1. PICK w, v, r :
        /\ w = Close(Drop(World, 1), F.slots) /\ v = Peek(0)
        /\ r = [w EXCEPT !.co.frames = Front(@), !.co.stack = SubSeq(@, 1, F.slots - 1)]
        /\ Running /\ Temps(F, Co) > 0
        /\ IF Len(Co.frames) > 1
           THEN Become(Resumed(Push(r, Slot(0, v))), global)
           ELSE IF saved = <<>>
           THEN Stop("ok")
           ELSE \E m \in Data :
                LET below == Last(saved).running
                    p == Push([co |-> coro[below], up |-> w.up, ok |-> TRUE], Slot(0, m))
                IN  IF ~p.ok THEN Stop("crash") ELSE
                    /\ Settle([coro EXCEPT ![running] = NoCoro, ![below] = p.co], p.up, global)
                    /\ running' = below /\ saved' = Front(saved) /\ UNCHANGED result
  BY DEF Return
<1>2. CASE Len(Co.frames) > 1
  BY <1>1, <1>2, ReturnToCaller
<1>3. CASE ~(Len(Co.frames) > 1) /\ saved = <<>>
  <2>1. Stop("ok") /\ "ok" \in {"ok", "error", "crash", "astray"}
    BY <1>1, <1>3
  <2> QED  BY <2>1, StopKeeps
<1>4. CASE ~(Len(Co.frames) > 1) /\ saved # <<>>
  <2>1. PICK m, below, p :
          /\ m \in Data /\ below = Last(saved).running
          /\ p = Push([co |-> coro[below], up |-> w.up, ok |-> TRUE], Slot(0, m))
          /\ IF ~p.ok THEN Stop("crash") ELSE
                    /\ Settle([coro EXCEPT ![running] = NoCoro, ![below] = p.co], p.up, global)
                    /\ running' = below /\ saved' = Front(saved) /\ UNCHANGED result
    BY <1>1, <1>4
  <2>2. CASE ~p.ok
    <3>1. Stop("crash") /\ "crash" \in {"ok", "error", "crash", "astray"}
      BY <2>1, <2>2
    <3> QED  BY <3>1, StopKeeps
  <2>3. CASE p.ok = TRUE
    <3>1. Len(Co.frames) <= 1
      <4>1. Len(Co.frames) \in Nat
        BY <1>1, Alive, FrameFacts
      <4> QED  BY <1>4, <4>1
    <3>2. /\ Settle([coro EXCEPT ![running] = NoCoro, ![below] = p.co], p.up, global)
          /\ running' = below /\ saved' = Front(saved) /\ result' = result
      BY <2>1, <2>3
    <3> QED  BY <1>1, <1>4, <2>1, <2>3, <3>1, <3>2, ReturnFromCoroutine
  <2> QED  BY <2>1, <2>2, <2>3
<1> QED  BY <1>2, <1>3, <1>4

(* A coroutine starts with the frame of its function, which has no locals
   but the function itself.                                                *)
LEMMA NewFacts ==
    ASSUME NEW U, NEW r \in Coros \cup {None}, NEW co,
           co = [NewCoro(Closure(<<>>)) EXCEPT !.caller = r]
    PROVE  /\ co \in CoroOf(U) /\ Shaped(co, MaxTemps) /\ co.caller = r
           /\ co.open = <<>> /\ co.block = 0
           /\ Len(co.stack) = 1 /\ co.stack[1].var = 0
<1>1. PICK f, s : f = Frame(Closure(<<>>), 1, 1) /\ s = Slot(0, Closure(<<>>))
  OBVIOUS
<1>2. co = [stack |-> <<s>>, cap |-> StackMin, block |-> 0, frames |-> <<f>>,
            framecap |-> FramesMin, open |-> <<>>, caller |-> r]
  BY <1>1 DEF NewCoro, NoCoro
<1>3. <<>> \in Cells(U)
  <2>1. 0 \in 0..MaxCaptures /\ <<>> \in [1..0 -> U]
    BY CoroutineAssumption
  <2> QED  BY <2>1 DEF Cells
<1>4. f = [ups |-> <<>>, slots |-> 1, locals |-> 1, try |-> -1]
  BY <1>1 DEF Frame, Closure
<1>5. f \in FrameOf(U)
  <2>1. 1 \in 1..MaxLocals /\ -1 \in -1..MaxLocals
    BY CoroutineAssumption
  <2> QED  BY <1>3, <1>4, <2>1 DEF FrameOf
<1>6. s = [var |-> 0, val |-> Closure(<<>>)]
  BY <1>1 DEF Slot
<1>7. s \in SlotOf(U)
  <2>1. 0 \in 0..MaxVars
    BY CoroutineAssumption
  <2>2. Closure(<<>>) \in Values(U)
    BY <1>3 DEF Values
  <2> QED  BY <1>6, <2>1, <2>2 DEF SlotOf
<1>8. StackMin \in Nat /\ FramesMin \in Nat /\ FramesMax \in Nat /\ MaxTemps \in Nat
      /\ StackMin >= 2 /\ FramesMin >= 2 /\ FramesMax >= 1
  BY CoroutineAssumption
<1>9. co \in CoroOf(U)
  <2>1. <<s>> \in Seq(SlotOf(U)) /\ <<f>> \in Seq(FrameOf(U)) /\ <<>> \in Seq(Upvalues)
    BY <1>5, <1>7
  <2>2. PICK S, T, V : S = Seq(SlotOf(U)) /\ T = Seq(FrameOf(U)) /\ V = Seq(Upvalues)
    OBVIOUS
  <2>3. PICK ss \in S : ss = <<s>>
    BY <2>1, <2>2
  <2>4. PICK fs \in T : fs = <<f>>
    BY <2>1, <2>2
  <2>5. PICK us \in V : us = <<>>
    BY <2>1, <2>2
  <2>6. co = [stack |-> ss, cap |-> StackMin, block |-> 0, frames |-> fs,
              framecap |-> FramesMin, open |-> us, caller |-> r]
    BY <1>2, <2>3, <2>4, <2>5
  <2>7. co \in [stack : S, cap : Nat, block : Nat, frames : T, framecap : Nat,
                open : V, caller : Coros \cup {None}]
    BY ONLY <1>8, <2>6, ss \in S, fs \in T, us \in V, r \in Coros \cup {None}
  <2> QED  BY <2>2, <2>7 DEF CoroOf
<1>10. Len(co.frames) = 1 /\ co.frames[1] = f /\ Last(co.frames) = f /\ co.frames # <<>>
  <2>1. PICK fs : fs = <<f>>
    OBVIOUS
  <2>2. Len(fs) = 1 /\ fs[1] = f /\ fs # <<>>
    BY <2>1
  <2>3. Last(fs) = f
    BY <2>2 DEF Last
  <2>4. co.frames = fs
    BY <1>2, <2>1
  <2> QED  BY <2>2, <2>3, <2>4
<1>11. Len(co.stack) = 1 /\ co.stack[1].var = 0
  BY <1>2, <1>6
<1>12. f.slots = 1 /\ f.try = -1 /\ End(f) = 2
  BY <1>4 DEF End
<1>13. Tiled(co.frames)
  BY <1>10, <1>12 DEF Tiled
<1>14. \A j \in 1..Len(co.stack) : ~IsLocal(co.frames, j)
  BY <1>10, <1>11, <1>12 DEF IsLocal
<1>15. Shaped(co, MaxTemps)
  <2>1. co.cap = StackMin /\ co.framecap = FramesMin
    BY <1>2
  <2>2. \A j \in 1..Len(co.stack) : co.stack[j].var # 0 <=> IsLocal(co.frames, j)
    BY <1>11, <1>14
  <2>3. End(Last(co.frames)) = 2 /\ Len(co.stack) = 1 /\ Len(co.frames) = 1
    BY <1>10, <1>11, <1>12
  <2>4. End(Last(co.frames)) <= Len(co.stack) + 1
    BY <2>3
  <2>5. Len(co.stack) < End(Last(co.frames)) + MaxTemps
    BY <1>8, <2>3, SMTT(30)
  <2>6. Len(co.stack) < co.cap
    <3>1. 1 < StackMin
      BY ONLY <1>8
    <3> QED  BY ONLY <2>1, <2>3, <3>1
  <2>7. Len(co.frames) <= FramesMax /\ Len(co.frames) < co.framecap
    <3>1. 1 <= FramesMax /\ 1 < FramesMin
      BY ONLY <1>8
    <3> QED  BY ONLY <2>1, <2>3, <3>1
  <2> QED  BY ONLY <1>13, <2>2, <2>4, <2>5, <2>6, <2>7 DEF Shaped
<1> QED  BY <1>2, <1>9, <1>11, <1>15

(* A coroutine that nothing runs has no frames. *)
LEMMA NotShaped ==
    ASSUME NEW temps, Shaped(NoCoro, temps)
    PROVE  FALSE
  BY DEF Shaped, Tiled, NoCoro

(* One more coroutine on top of those that run. *)
LEMMA ChainCalls ==
    ASSUME NEW cs, NEW top, NEW below, ChainOf(cs, top, below),
           Shaped(cs[top], MaxTemps - 1),
           NEW c \in Coros, cs[c] = NoCoro, NEW r \in Coros \cup {None},
           NEW ds, ds[c].caller = top, Shaped(ds[c], MaxTemps),
           \A d \in Coros : d # c => ds[d] = cs[d]
    PROVE  ChainOf(ds, c, Append(below, [running |-> top, caller |-> r]))
<1> DEFINE e == [running |-> top, caller |-> r]
           more == Append(below, e)
<1>1. PICK n \in Nat, n1 \in Nat : n = Len(below) /\ n1 = n + 1
  BY DEF ChainOf, Activations
<1>2. /\ top \in Coros /\ below \in Activations
      /\ \A k \in 1..n : below[k].running # top
      /\ \A j, k \in 1..n : below[j].running = below[k].running => j = k
      /\ \A k \in 1..n :
            cs[IF k = n THEN top ELSE below[k + 1].running].caller = below[k].running
      /\ cs[Main].caller = None
      /\ Main = top \/ \E k \in 1..n : below[k].running = Main
      /\ \A k \in 1..n : Shaped(cs[below[k].running], MaxTemps - 1)
      /\ \A d \in Coros : d # top /\ (\A k \in 1..n : below[k].running # d) => cs[d] = NoCoro
  BY <1>1 DEF ChainOf
<1>3. \A k \in 1..n : below[k].running \in Coros
  <2>1. PICK A : A = [running : Coros, caller : Coros \cup {None}]
    OBVIOUS
  <2>2. below \in Seq(A) /\ n = Len(below)
    BY <1>1, <1>2, <2>1 DEF Activations
  <2>3. \A k \in 1..n : below[k] \in A
    BY ONLY <2>2
  <2> QED  BY <2>1, <2>3
<1>4. e \in [running : Coros, caller : Coros \cup {None}] /\ e.running = top
  BY <1>2
<1> HIDE DEF e
<1>5. more \in Activations /\ Len(more) = n1 /\ more[n1] = e /\ \A k \in 1..n : more[k] = below[k]
  BY <1>1, <1>2, <1>4 DEF Activations
<1> HIDE DEF more
<1>6. c # top /\ \A k \in 1..n : below[k].running # c
  BY <1>2, NotShaped
<1>7. \A k \in 1..n1 : k \in 1..n \/ k = n1
  BY <1>1
<1>8. \A k \in 1..n1 : more[k].running \in Coros /\ more[k].running # c
  BY <1>2, <1>3, <1>4, <1>5, <1>6, <1>7
<1>9. \A j, k \in 1..n1 : more[j].running = more[k].running => j = k
  BY <1>2, <1>4, <1>5, <1>7
<1>10. ASSUME NEW k \in 1..n1
       PROVE  ds[IF k = n1 THEN c ELSE more[k + 1].running].caller = more[k].running
  <2>1. CASE k = n1
    BY <1>4, <1>5, <2>1
  <2>2. CASE k # n1 /\ k # n
    <3>1. k \in 1..n /\ k + 1 \in 1..n
      BY <1>1, <2>2
    <3>2. more[k + 1] = below[k + 1] /\ more[k] = below[k]
      BY <1>5, <3>1
    <3>3. cs[below[k + 1].running].caller = below[k].running
      BY <1>2, <2>2, <3>1
    <3>4. below[k + 1].running \in Coros /\ below[k + 1].running # c
      BY <1>3, <1>6, <3>1
    <3>5. ds[below[k + 1].running] = cs[below[k + 1].running]
      BY <3>4
    <3> QED  BY <2>2, <3>2, <3>3, <3>5
  <2>3. CASE k # n1 /\ k = n
    <3>1. k \in 1..n /\ k + 1 = n1
      BY <1>1, <2>3
    <3>2. more[k + 1].running = top /\ more[k] = below[k]
      BY <1>4, <1>5, <3>1
    <3>3. cs[top].caller = below[k].running
      BY <1>2, <2>3, <3>1
    <3>4. ds[top] = cs[top]
      BY <1>2, <1>6
    <3> QED  BY <2>3, <3>2, <3>3, <3>4
  <2> QED  BY <2>1, <2>2, <2>3
<1>11. Main # c /\ ds[Main].caller = None /\ \E k \in 1..n1 : more[k].running = Main
  <2>1. CASE Main = top
    <3>1. n1 \in 1..n1
      BY <1>1
    <3> QED  BY <1>2, <1>4, <1>5, <1>6, <2>1, <3>1
  <2>2. CASE Main # top
    <3>1. PICK k \in 1..n : below[k].running = Main
      BY <1>2, <2>2
    <3>2. k \in 1..n1
      BY <1>1
    <3>3. Main \in Coros /\ Main # c
      BY <1>3, <1>6, <3>1
    <3> QED  BY <1>2, <1>5, <3>1, <3>2, <3>3
  <2> QED  BY <2>1, <2>2
<1>12. \A k \in 1..n1 : Shaped(ds[more[k].running], MaxTemps - 1)
  <2> TAKE k \in 1..n1
  <2>1. ds[more[k].running] = cs[more[k].running]
    BY <1>8
  <2>2. Shaped(cs[more[k].running], MaxTemps - 1)
    BY <1>2, <1>4, <1>5, <1>7
  <2> QED  BY <2>1, <2>2
<1>13. \A d \in Coros : d # c /\ (\A k \in 1..n1 : more[k].running # d) => ds[d] = NoCoro
  <2> SUFFICES ASSUME NEW d \in Coros, d # c, \A k \in 1..n1 : more[k].running # d
               PROVE  ds[d] = NoCoro
    OBVIOUS
  <2>1. n1 \in 1..n1 /\ \A k \in 1..n : k \in 1..n1
    BY <1>1
  <2>2. d # top /\ \A k \in 1..n : below[k].running # d
    BY <1>4, <1>5, <2>1
  <2> QED  BY <1>2, <2>2
<1>14. ChainOf(ds, c, more)
  BY <1>5, <1>8, <1>9, <1>10, <1>11, <1>12, <1>13 DEF ChainOf
<1> QED  BY <1>14 DEF more, e

(* OP_IMPORT *)
LEMMA ImportKeeps ==
    ASSUME IInv, NEW c \in Coros, Import(c)
    PROVE  IInv'
<1> DEFINE U == Used(upvalues)
           co == [NewCoro(Closure(<<>>)) EXCEPT !.caller = running]
<1>1. Running /\ Room /\ coro[c] = NoCoro
  BY DEF Import
<1>2. /\ coro' = [coro EXCEPT ![c] = co]
      /\ saved' = Append(saved, [running |-> running, caller |-> coro[c].caller])
      /\ running' = c /\ upvalues' = upvalues /\ global' = global /\ result' = result
  BY DEF Import
<1>3. /\ running \in Coros /\ Shaped(Co, MaxTemps) /\ Co \in CoroOf(U)
      /\ coro \in [Coros -> CoroOf(U)] /\ Chained /\ result = "running"
  BY <1>1, Alive
<1>4. Typed(coro, upvalues, global) /\ Exact(coro, upvalues)
  BY <1>1 DEF IInv, Stopped, Running
<1>5. /\ co \in CoroOf(U) /\ Shaped(co, MaxTemps) /\ co.caller = running
      /\ co.open = <<>> /\ co.block = 0 /\ Len(co.stack) = 1 /\ co.stack[1].var = 0
  BY <1>3, NewFacts
<1> HIDE DEF co, U
<1>6. NoCoro.stack = <<>> /\ NoCoro.open = <<>> /\ NoCoro.block = 0 /\ NoCoro.caller = None
  BY DEF NoCoro
<1>7. Exact(coro', upvalues)
  <2>1. co.open = coro[c].open /\ co.block = coro[c].block
    BY <1>1, <1>5, <1>6
  <2>2. 0 \in Nat /\ 0 \in 0..MaxVars /\ IsNew(0, coro, upvalues)
    BY CoroutineAssumption DEF IsNew
  <2>3. SlotsKept(co.stack, coro[c].stack, 0, 0)
    BY <1>5 DEF SlotsKept
  <2>4. NamesKept(co.stack, coro[c].stack)
    BY <1>1, <1>6 DEF NamesKept
  <2>5. upvalues \in [Upvalues -> UpvalueOf(U)]
    BY <1>4 DEF Typed, U
  <2> QED  BY <1>2, <1>3, <1>4, <1>5, <2>1, <2>2, <2>3, <2>4, <2>5, ExactStack
<1>8. coro'[c] = co /\ \A d \in Coros : d # c => coro'[d] = coro[d]
  BY <1>2, <1>3
<1>9. Typed(coro', upvalues, global)
  <2>1. coro' \in [Coros -> CoroOf(U)]
    BY <1>2, <1>3, <1>5
  <2> QED  BY <1>4, <2>1 DEF Typed, U
<1>10. Shaped(Co, MaxTemps - 1)
  <2>1. F = Last(Co.frames) /\ MaxTemps \in Nat
    BY <1>1, Function
  <2>2. F \in FrameOf(U)
    BY <1>3, <2>1, TopOfStack
  <2>3. /\ F.slots \in Nat /\ F.locals \in Nat /\ End(F) = F.slots + F.locals
    BY <2>2, FrameEnd
  <2>4. Len(Co.stack) \in Nat
    BY <1>3 DEF CoroOf
  <2>5. Len(Co.stack) - (F.slots + F.locals - 1) < MaxTemps
    BY <1>1 DEF Room, Temps
  <2>6. Len(Co.stack) < End(F) + (MaxTemps - 1)
    BY ONLY <2>1, <2>3, <2>4, <2>5
  <2> QED  BY <1>3, <2>1, <2>6 DEF Shaped
<1>11. ChainOf(coro', c, saved')
  <2>1. ChainOf(coro, running, saved) /\ coro[running] = Co
    BY <1>3 DEF Chained, Co
  <2>2. coro[c].caller \in Coros \cup {None}
    BY <1>1, <1>6
  <2> QED  BY <1>1, <1>2, <1>5, <1>8, <1>10, <2>1, <2>2, ChainCalls
<1> QED  BY <1>2, <1>3, <1>7, <1>9, <1>11 DEF IInv, Chained

-----------------------------------------------------------------------------
(* The invariant. *)

(* The first coroutine is alone on the chain, and no variable exists. *)
LEMMA InitHolds == Init => IInv
<1> SUFFICES ASSUME Init PROVE IInv
  OBVIOUS
<1> DEFINE co == NewCoro(Closure(<<>>))
           U == {}
<1>1. /\ coro = [c \in Coros |-> IF c = Main THEN co ELSE NoCoro]
      /\ upvalues = [u \in Upvalues |-> Free] /\ global = None
      /\ running = Main /\ saved = <<>> /\ result = "running" /\ Main \in Coros
  BY CoroutineAssumption DEF Init
<1>2. co = [NewCoro(Closure(<<>>)) EXCEPT !.caller = None]
  <2>1. PICK s, f : s = <<Slot(0, Closure(<<>>))>> /\ f = <<Frame(Closure(<<>>), 1, 1)>>
    OBVIOUS
  <2>2. co = [stack |-> s, cap |-> StackMin, block |-> 0, frames |-> f,
              framecap |-> FramesMin, open |-> <<>>, caller |-> None]
    <3>1. PICK n : n = NoCoro
      OBVIOUS
    <3>2. n = [stack |-> <<>>, cap |-> StackMin, block |-> 0, frames |-> <<>>,
               framecap |-> FramesMin, open |-> <<>>, caller |-> None]
      BY <3>1 DEF NoCoro
    <3>3. co = [n EXCEPT !.stack = s, !.frames = f]
      BY <2>1, <3>1 DEF NewCoro
    <3> HIDE DEF co
    <3> QED  BY ONLY <3>2, <3>3
  <2>3. PICK n : n = NewCoro(Closure(<<>>))
    OBVIOUS
  <2>4. n = [n EXCEPT !.caller = None]
    BY <2>2, <2>3
  <2> QED  BY <2>3, <2>4
<1> HIDE DEF co
<1>3. /\ co \in CoroOf(U) /\ Shaped(co, MaxTemps) /\ co.caller = None
      /\ co.open = <<>> /\ co.block = 0 /\ Len(co.stack) = 1 /\ co.stack[1].var = 0
  BY <1>2, NewFacts
<1>4. NoCoro \in CoroOf(U) /\ NoCoro.open = <<>> /\ NoCoro.stack = <<>> /\ NoCoro.caller = None
  <2>1. StackMin \in Nat /\ FramesMin \in Nat
    BY CoroutineAssumption
  <2> QED  BY <2>1 DEF NoCoro, CoroOf
<1>5. Free.open = FALSE /\ Free.var = 0 /\ Free \in UpvalueOf(U)
  BY CoroutineAssumption DEF Free, UpvalueOf, Values
<1>6. Used(upvalues) = U
  BY <1>1, <1>5 DEF Used
<1> HIDE DEF U
<1>7. coro[Main] = co /\ \A c \in Coros : c # Main => coro[c] = NoCoro
  BY <1>1
<1>8. Typed(coro, upvalues, global)
  <2>1. coro \in [Coros -> CoroOf(U)]
    BY <1>1, <1>3, <1>4
  <2>2. upvalues \in [Upvalues -> UpvalueOf(U)]
    BY <1>1, <1>5
  <2>3. None \in Values(U)
    BY DEF Values
  <2> QED  BY <1>1, <1>6, <2>1, <2>2, <2>3 DEF Typed
<1>9. \A u \in Upvalues : upvalues[u] = Free
  BY <1>1
<1>10. \A c \in Coros : coro[c].open = <<>> /\ \A i \in 1..Len(coro[c].stack) : coro[c].stack[i].var = 0
  <2> SUFFICES ASSUME NEW c \in Coros
               PROVE  coro[c].open = <<>> /\ \A i \in 1..Len(coro[c].stack) : coro[c].stack[i].var = 0
    OBVIOUS
  <2>1. CASE c = Main
    BY <1>3, <1>7, <2>1
  <2>2. CASE c # Main
    BY <1>4, <1>7, <2>2
  <2> QED  BY <2>1, <2>2
<1>11. Exact(coro, upvalues)
  <2>1. \A c \in Coros : Pointed(c, coro[c], upvalues)
    BY <1>5, <1>9, <1>10 DEF Pointed
  <2>2. OnOneSlot(coro)
    BY <1>10 DEF OnOneSlot
  <2>3. InOneCell(coro, upvalues)
    BY <1>5, <1>9 DEF InOneCell
  <2> QED  BY <2>1, <2>2, <2>3 DEF Exact
<1>12. Chained
  <2>1. saved \in Activations /\ Len(saved) = 0
    BY <1>1 DEF Activations
  <2> QED  BY <1>1, <1>3, <1>7, <2>1 DEF Chained, ChainOf
<1> QED  BY <1>1, <1>8, <1>11, <1>12 DEF IInv

(* Each instruction keeps the invariant. *)
LEMMA NextKeeps ==
    ASSUME IInv, Next
    PROVE  IInv'
<1>1. CASE Running /\ GetLocal
  BY <1>1, GetLocalKeeps
<1>2. CASE Running /\ GetUpvalue
  BY <1>2, GetUpvalueKeeps
<1>3. CASE Running /\ \E i \in Locals : SetLocal(i)
  <2>1. PICK i \in Locals : SetLocal(i)
    BY <1>3
  <2> QED  BY <1>3, <2>1, SetLocalKeeps
<1>4. CASE Running /\ \E j \in DOMAIN F.ups : SetUpvalue(j)
  <2>1. PICK j \in DOMAIN F.ups : SetUpvalue(j)
    BY <1>4
  <2> QED  BY <1>4, <2>1, SetUpvalueKeeps
<1>5. CASE Running /\ OpClosure
  BY <1>5, ClosureKeeps
<1>6. CASE \E c \in Coros : Import(c)
  BY <1>6, ImportKeeps
<1>7. CASE Const \/ GetGlobal \/ SetGlobal \/ Pop \/ Let \/ EndScope
  BY <1>7, ConstKeeps, GetGlobalKeeps, SetGlobalKeeps, PopKeeps, LetKeeps, EndScopeKeeps
<1>8. CASE OpCall \/ OpCallNative \/ Spread \/ Return \/ Fail
  BY <1>8, OpCallKeeps, OpCallNativeKeeps, SpreadKeeps, ReturnKeeps, FailKeeps
<1> QED  BY <1>1, <1>2, <1>3, <1>4, <1>5, <1>6, <1>7, <1>8 DEF Next

(* The invariant speaks of the variables alone. *)
LEMMA StutterKeeps ==
    ASSUME IInv, UNCHANGED vars
    PROVE  IInv'
BY DEF vars, IInv, Stopped, Chained

(* IInv holds in every state of every program. *)
THEOREM InductiveInvariant == Spec => []IInv
<1>1. IInv /\ [Next]_vars => IInv'
  BY NextKeeps, StutterKeeps
<1> QED  BY InitHolds, <1>1, PTL DEF Spec

-----------------------------------------------------------------------------
(* What it says of the stacks and of the upvalues. *)

(* A coroutine is live when it runs or waits for a nested one. *)
LEMMA LiveOnes ==
    ASSUME IInv, result = "running"
    PROVE  /\ Live = {running} \cup {saved[k].running : k \in 1..Len(saved)}
           /\ \A c \in Coros : c \in Live => Shaped(coro[c], MaxTemps) \/ Shaped(coro[c], MaxTemps - 1)
           /\ \A c \in Coros : c \notin Live => coro[c] = NoCoro
<1>1. ChainOf(coro, running, saved)
  BY DEF IInv, Stopped, Chained
<1>2. saved \in Seq([running : Coros, caller : Coros \cup {None}]) /\ running \in Coros
  BY <1>1 DEF ChainOf, Activations
<1>3. \A k \in 1..Len(saved) : saved[k].running \in Coros
  <2>1. PICK A : A = [running : Coros, caller : Coros \cup {None}]
    OBVIOUS
  <2>2. saved \in Seq(A)
    BY <1>2, <2>1
  <2>3. \A k \in 1..Len(saved) : saved[k] \in A
    BY ONLY <2>2
  <2> QED  BY <2>1, <2>3
<1> DEFINE On == {running} \cup {saved[k].running : k \in 1..Len(saved)}
<1>4. ASSUME NEW c \in Coros, c \in On
      PROVE  Shaped(coro[c], MaxTemps) \/ Shaped(coro[c], MaxTemps - 1)
  BY <1>1, <1>4 DEF ChainOf
<1>5. ASSUME NEW c \in Coros, c \notin On PROVE coro[c] = NoCoro
  BY <1>1, <1>5 DEF ChainOf
<1>6. On \subseteq Coros
  BY <1>2, <1>3
<1> HIDE DEF On
<1>7. \A c \in Coros : c \in On => coro[c].frames # <<>>
  BY <1>4 DEF Shaped, Tiled
<1>8. \A c \in Coros : c \notin On => coro[c].frames = <<>>
  BY <1>5 DEF NoCoro
<1>9. Live = On
  BY <1>6, <1>7, <1>8 DEF Live
<1> QED  BY <1>4, <1>5, <1>9 DEF On

(* What the run checks of a slot is what Typed says of all upvalues. *)
LEMMA SlotTypes == SlotType = SlotOf(Upvalues)
BY DEF SlotType, SlotOf, Values, Cells

(* The invariant gives the types the run checks, *)
LEMMA TypesHold ==
    ASSUME IInv
    PROVE  TypeOK
<1>1. NoCoro \in CoroOf({}) /\ Len(NoCoro.stack) = 0 /\ Len(NoCoro.frames) = 0
      /\ NoCoro.cap = StackMin /\ NoCoro.framecap = FramesMin
  <2>1. StackMin \in Nat /\ FramesMin \in Nat
    BY CoroutineAssumption
  <2> QED  BY <2>1 DEF NoCoro, CoroOf
<1>2. StackMin \in Nat /\ FramesMin \in Nat /\ FramesMax \in Nat /\ StackMin >= 2 /\ FramesMin >= 2
      /\ MaxLocals \in Nat
  BY CoroutineAssumption
<1>3. \A c \in Coros : /\ coro[c] \in CoroOf(Upvalues)
                       /\ Len(coro[c].stack) < coro[c].cap
                       /\ Len(coro[c].frames) <= FramesMax /\ Len(coro[c].frames) < coro[c].framecap
  <2>1. CoroOf({}) \subseteq CoroOf(Upvalues)
    BY TypesGrow
  <2>2. CASE Stopped
    BY <1>1, <1>2, <2>1, <2>2 DEF Stopped
  <2>3. CASE result = "running" /\ Typed(coro, upvalues, global)
    <3> SUFFICES ASSUME NEW c \in Coros
                 PROVE  /\ coro[c] \in CoroOf(Upvalues)
                        /\ Len(coro[c].stack) < coro[c].cap
                        /\ Len(coro[c].frames) <= FramesMax /\ Len(coro[c].frames) < coro[c].framecap
      OBVIOUS
    <3>1. coro[c] \in CoroOf(Upvalues)
      <4>1. Used(upvalues) \subseteq Upvalues
        BY DEF Used
      <4>2. CoroOf(Used(upvalues)) \subseteq CoroOf(Upvalues)
        BY <4>1, TypesGrow
      <4> QED  BY <2>3, <4>2 DEF Typed
    <3>2. CASE c \in Live
      BY <2>3, <3>1, <3>2, LiveOnes DEF Shaped
    <3>3. CASE c \notin Live
      BY <1>1, <1>2, <2>3, <3>1, <3>3, LiveOnes
    <3> QED  BY <3>1, <3>2, <3>3
  <2> QED  BY <2>2, <2>3 DEF IInv
<1>4. ASSUME NEW c \in Coros
      PROVE  /\ ToSet(coro[c].stack) \subseteq SlotType
             /\ \A f \in ToSet(coro[c].frames) : f.try \in -1..MaxLocals /\ f.locals \in 1..MaxLocals
             /\ ToSet(coro[c].open) \subseteq Upvalues
             /\ coro[c].caller \in Coros \cup {None}
  <2>1. PICK st, fs, op : st = coro[c].stack /\ fs = coro[c].frames /\ op = coro[c].open
    OBVIOUS
  <2>2. st \in Seq(SlotOf(Upvalues)) /\ fs \in Seq(FrameOf(Upvalues)) /\ op \in Seq(Upvalues)
        /\ coro[c].caller \in Coros \cup {None}
    BY <1>3, <2>1 DEF CoroOf
  <2>3. ToSet(st) \subseteq SlotOf(Upvalues)
    BY <2>2 DEF ToSet
  <2>4. ToSet(fs) \subseteq FrameOf(Upvalues)
    BY <2>2 DEF ToSet
  <2>5. ToSet(op) \subseteq Upvalues
    BY <2>2 DEF ToSet
  <2>6. \A f \in FrameOf(Upvalues) : f.try \in -1..MaxLocals /\ f.locals \in 1..MaxLocals
    BY DEF FrameOf
  <2> QED  BY <2>1, <2>2, <2>3, <2>4, <2>5, <2>6, SlotTypes
<1>5. ASSUME NEW u \in Upvalues PROVE Slot(upvalues[u].var, upvalues[u].val) \in SlotType
  <2>1. upvalues[u] \in UpvalueOf(Upvalues)
    <3>1. CASE Stopped
      BY <3>1, CoroutineAssumption DEF Stopped, Free, UpvalueOf, Values
    <3>2. CASE Typed(coro, upvalues, global)
      <4>1. Used(upvalues) \subseteq Upvalues
        BY DEF Used
      <4>2. UpvalueOf(Used(upvalues)) \subseteq UpvalueOf(Upvalues)
        BY <4>1, TypesGrow
      <4> QED  BY <3>2, <4>2 DEF Typed
    <3> QED  BY <3>1, <3>2 DEF IInv
  <2> QED  BY <2>1, SlotTypes DEF UpvalueOf, SlotOf, Slot
<1>6. running \in Coros \cup {None} /\ result \in {"running", "ok", "error", "crash", "astray"}
  BY DEF IInv, Stopped, Chained, ChainOf
<1> QED  BY <1>3, <1>4, <1>5, <1>6 DEF TypeOK

(* that the frames tile the stacks (jml_vm_call, jml_vm_exception), *)
LEMMA FramesTile ==
    ASSUME IInv
    PROVE  FramesTileTheStack
<1> SUFFICES ASSUME result = "running", NEW c \in Live
             PROVE  /\ coro[c].frames[1].slots = 1
                    /\ \A i \in 1..(Len(coro[c].frames) - 1) :
                          coro[c].frames[i].slots + coro[c].frames[i].locals <= coro[c].frames[i + 1].slots
                    /\ c = running => Temps(Last(coro[c].frames), coro[c]) \in 0..MaxTemps
  BY DEF FramesTileTheStack
<1>1. c \in Coros
  BY DEF Live
<1>2. PICK temps : Shaped(coro[c], temps)
  BY <1>1, LiveOnes
<1>3. coro[c] \in CoroOf(Used(upvalues))
  BY <1>1 DEF IInv, Stopped, Typed
<1>4. PICK n, fs : n \in Nat \ {0} /\ n = Len(fs) /\ fs = coro[c].frames
  BY <1>2, <1>3, FrameFacts
<1>5. fs[1].slots = 1 /\ \A i \in 1..n : i < n => Waits(fs[i], fs[i + 1])
  BY <1>2, <1>4 DEF Shaped, Tiled
<1>6. \A i \in 1..(n - 1) : i \in 1..n /\ i < n
  BY <1>4
<1>7. \A i \in 1..(n - 1) : fs[i].slots + fs[i].locals <= fs[i + 1].slots
  BY <1>5, <1>6 DEF Waits, End
<1>8. ASSUME c = running PROVE Temps(Last(fs), coro[c]) \in 0..MaxTemps
  <2>1. running # None
    BY <1>1, <1>8, CoroutineAssumption
  <2>2. /\ F = Last(Co.frames) /\ Len(Co.stack) \in Nat /\ End(F) \in Nat /\ MaxTemps \in Nat
        /\ Temps(F, Co) = Len(Co.stack) + 1 - End(F) /\ Temps(F, Co) \in Nat
        /\ Len(Co.stack) < End(F) + MaxTemps
    BY <2>1, Function DEF Running
  <2>3. Temps(F, Co) <= MaxTemps
    BY ONLY <2>2
  <2>4. Temps(F, Co) \in 0..MaxTemps
    BY <2>2, <2>3
  <2> QED  BY <1>4, <1>8, <2>2, <2>4 DEF Co
<1> QED  BY <1>4, <1>5, <1>7, <1>8

(* that the callers are chained (jml_vm_call_coroutine), *)
LEMMA CallersChain ==
    ASSUME IInv
    PROVE  CallersAreChained
<1> SUFFICES ASSUME result = "running"
             PROVE  /\ \A k \in 1..Len(saved) :
                          coro[IF k = Len(saved) THEN running ELSE saved[k + 1].running].caller = saved[k].running
                    /\ Live = {running} \cup {saved[k].running : k \in 1..Len(saved)}
                    /\ coro[Main].caller = None
  BY DEF CallersAreChained
<1>1. ChainOf(coro, running, saved)
  BY DEF IInv, Stopped, Chained
<1> QED  BY <1>1, LiveOnes DEF ChainOf

(* An upvalue is in use when it stands for a variable. *)
LEMMA InUseIsUsed ==
    ASSUME IInv, result = "running"
    PROVE  /\ InUse = Used(upvalues)
           /\ \A u \in Upvalues : upvalues[u].open \in BOOLEAN
           /\ Exact(coro, upvalues) /\ coro \in [Coros -> CoroOf(Used(upvalues))]
<1>1. Typed(coro, upvalues, global) /\ Exact(coro, upvalues)
  BY DEF IInv, Stopped
<1>2. \A u \in Upvalues : upvalues[u].var = 0 <=> upvalues[u] = Free
  <2>1. Free.var = 0
    BY DEF Free
  <2> QED  BY <1>1, <2>1 DEF Exact, InOneCell
<1>3. \A u \in Upvalues : upvalues[u].open \in BOOLEAN
  BY <1>1 DEF Typed, UpvalueOf
<1> QED  BY <1>1, <1>2, <1>3 DEF InUse, Used, Typed

(* that the list of open upvalues is exact (jml_vm_upvalue_capture), *)
LEMMA ListsAreExact ==
    ASSUME IInv
    PROVE  OpenListIsExact
<1> SUFFICES ASSUME result = "running", NEW c \in Coros
             PROVE  /\ ToSet(coro[c].open) = {u \in InUse : upvalues[u].open /\ upvalues[u].coro = c}
                    /\ \A k \in DOMAIN coro[c].open :
                          /\ upvalues[coro[c].open[k]].block = coro[c].block
                          /\ upvalues[coro[c].open[k]].idx <= Len(coro[c].stack)
                          /\ k > 1 => upvalues[coro[c].open[k]].idx < upvalues[coro[c].open[k - 1]].idx
  BY DEF OpenListIsExact
<1>1. PICK op : op = coro[c].open
  OBVIOUS
<1>2. op \in Seq(Upvalues) /\ Len(coro[c].stack) \in Nat /\ Len(op) \in Nat /\ DOMAIN op = 1..Len(op)
  BY <1>1, InUseIsUsed DEF CoroOf
<1>3. /\ \A k \in 1..Len(op) : Points(upvalues[op[k]], c, coro[c])
      /\ \A j, k \in 1..Len(op) : j < k => upvalues[op[k]].idx < upvalues[op[j]].idx
      /\ \A u \in Upvalues : upvalues[u].open = TRUE /\ upvalues[u].coro = c =>
            \E k \in 1..Len(op) : op[k] = u
  BY <1>1, InUseIsUsed DEF Exact, Pointed
<1>4. ToSet(op) = {op[k] : k \in 1..Len(op)}
  BY <1>2 DEF ToSet
<1>5. \A k \in 1..Len(op) : op[k] \in InUse /\ upvalues[op[k]].open /\ upvalues[op[k]].coro = c
  <2>1. \A k \in 1..Len(op) : op[k] \in Upvalues
    BY <1>2
  <2> QED  BY <1>3, <2>1, InUseIsUsed DEF Points, Used
<1>6. ASSUME NEW u \in InUse, upvalues[u].open, upvalues[u].coro = c PROVE u \in ToSet(op)
  <2>1. u \in Upvalues /\ upvalues[u].open = TRUE
    BY <1>6, InUseIsUsed DEF InUse
  <2> QED  BY <1>3, <1>4, <1>6, <2>1
<1>7. ToSet(op) = {u \in InUse : upvalues[u].open /\ upvalues[u].coro = c}
  BY <1>4, <1>5, <1>6
<1>8. ASSUME NEW k \in 1..Len(op)
      PROVE  /\ upvalues[op[k]].block = coro[c].block
             /\ upvalues[op[k]].idx <= Len(coro[c].stack)
             /\ k > 1 => upvalues[op[k]].idx < upvalues[op[k - 1]].idx
  <2>1. upvalues[op[k]].block = coro[c].block /\ upvalues[op[k]].idx \in 1..Len(coro[c].stack)
    BY <1>3 DEF Points
  <2>2. ASSUME k > 1 PROVE upvalues[op[k]].idx < upvalues[op[k - 1]].idx
    <3>1. PICK j \in 1..Len(op) : j = k - 1 /\ j < k
      BY <1>2, <2>2
    <3> QED  BY <1>3, <3>1
  <2> QED  BY <1>2, <2>1, <2>2
<1> QED  BY <1>1, <1>2, <1>7, <1>8

(* and that a variable has one cell (jml_vm_upvalue_close). *)
LEMMA CellsAreOne ==
    ASSUME IInv
    PROVE  OneCellPerVariable
<1> SUFFICES ASSUME result = "running", NEW u \in InUse
             PROVE  /\ upvalues[u].var # 0
                    /\ \A t \in InUse : upvalues[t].var = upvalues[u].var => t = u
                    /\ upvalues[u].open =>
                          coro[upvalues[u].coro].stack[upvalues[u].idx].var = upvalues[u].var
                    /\ ~upvalues[u].open =>
                          \A c \in Live : \A s \in ToSet(coro[c].stack) : s.var # upvalues[u].var
  BY DEF OneCellPerVariable
<1>1. u \in Upvalues /\ upvalues[u].var # 0
  BY InUseIsUsed DEF Used
<1>2. OnOneSlot(coro) /\ InOneCell(coro, upvalues) /\ \A c \in Coros : Pointed(c, coro[c], upvalues)
  BY InUseIsUsed DEF Exact
<1>3. ASSUME NEW t \in Upvalues, upvalues[t].open = TRUE
      PROVE  \E c \in Coros : \E k \in 1..Len(coro[c].open) :
                upvalues[t].coro = c /\ coro[c].open[k] = t /\ Points(upvalues[t], c, coro[c])
  <2>1. PICK c \in Coros : upvalues[t].coro = c
    BY <1>2, <1>3 DEF InOneCell
  <2>2. PICK k \in 1..Len(coro[c].open) : coro[c].open[k] = t
    BY <1>2, <1>3, <2>1 DEF Pointed
  <2>3. Points(upvalues[t], c, coro[c])
    BY <1>2, <2>2 DEF Pointed
  <2> QED  BY <2>1, <2>2, <2>3
<1>4. ASSUME NEW t \in Upvalues, upvalues[t].open = TRUE, NEW s \in Upvalues, upvalues[s].open = FALSE,
             upvalues[s].var # 0
      PROVE  upvalues[t].var # upvalues[s].var
  <2>1. PICK c \in Coros : Points(upvalues[t], c, coro[c])
    BY <1>3, <1>4
  <2>2. Off(coro, upvalues[s].var)
    BY <1>2, <1>4 DEF InOneCell
  <2> QED  BY <2>1, <2>2 DEF Points, Off
<1>5. ASSUME NEW t \in InUse, upvalues[t].var = upvalues[u].var PROVE t = u
  <2>1. t \in Upvalues /\ upvalues[t].open \in BOOLEAN /\ upvalues[u].open \in BOOLEAN
    BY <1>1, InUseIsUsed DEF InUse
  <2>2. CASE upvalues[t].open = TRUE /\ upvalues[u].open = TRUE
    <3>1. PICK c \in Coros : \E k \in 1..Len(coro[c].open) :
                 upvalues[t].coro = c /\ coro[c].open[k] = t /\ Points(upvalues[t], c, coro[c])
      BY <1>3, <2>1, <2>2
    <3>2. PICK d \in Coros : \E k \in 1..Len(coro[d].open) :
                 upvalues[u].coro = d /\ coro[d].open[k] = u /\ Points(upvalues[u], d, coro[d])
      BY <1>1, <1>3, <2>2
    <3>3. c = d /\ upvalues[t].idx = upvalues[u].idx
      <4>1. PICK i, j : i = upvalues[t].idx /\ j = upvalues[u].idx
        OBVIOUS
      <4>2. /\ i \in 1..Len(coro[c].stack) /\ j \in 1..Len(coro[d].stack)
            /\ coro[c].stack[i].var = upvalues[t].var /\ coro[d].stack[j].var = upvalues[u].var
        BY <3>1, <3>2, <4>1 DEF Points
      <4>3. coro[c].stack[i].var = coro[d].stack[j].var /\ coro[c].stack[i].var # 0
        BY <1>1, <1>5, <4>2
      <4> QED  BY <1>2, <4>1, <4>2, <4>3 DEF OnOneSlot
    <3>4. PICK j, k \in 1..Len(coro[c].open) : coro[c].open[j] = t /\ coro[c].open[k] = u
      BY <3>1, <3>2, <3>3
    <3>5. coro[c] \in CoroOf(Used(upvalues)) /\ upvalues[t].idx \in 1..Len(coro[c].stack)
      BY <3>1, InUseIsUsed DEF Points
    <3>6. Len(coro[c].open) \in Nat /\ upvalues[t].idx \in Int
      BY <3>5 DEF CoroOf
    <3>7. ~(j < k) /\ ~(k < j)
      <4>1. \A a, b \in 1..Len(coro[c].open) :
               a < b => upvalues[coro[c].open[b]].idx < upvalues[coro[c].open[a]].idx
        BY <1>2 DEF Pointed
      <4>2. (j < k => upvalues[u].idx < upvalues[t].idx) /\ (k < j => upvalues[t].idx < upvalues[u].idx)
        BY <3>4, <4>1
      <4> QED  BY ONLY <3>3, <3>6, <4>2
    <3> QED  BY <3>4, <3>6, <3>7
  <2>3. CASE upvalues[t].open = FALSE /\ upvalues[u].open = FALSE
    BY <1>1, <1>2, <1>5, <2>1, <2>3 DEF InOneCell
  <2> QED  BY <1>1, <1>4, <1>5, <2>1, <2>2, <2>3
<1>6. ASSUME upvalues[u].open
      PROVE  coro[upvalues[u].coro].stack[upvalues[u].idx].var = upvalues[u].var
  <2>1. upvalues[u].open = TRUE
    BY <1>1, <1>6, InUseIsUsed
  <2> QED  BY <1>1, <1>3, <2>1 DEF Points
<1>7. ASSUME ~upvalues[u].open, NEW c \in Live, NEW s \in ToSet(coro[c].stack)
      PROVE  s.var # upvalues[u].var
  <2>1. upvalues[u].open = FALSE
    BY <1>1, <1>7, InUseIsUsed
  <2>2. c \in Coros /\ Off(coro, upvalues[u].var)
    BY <1>1, <1>2, <2>1 DEF InOneCell, Live
  <2>3. PICK i \in 1..Len(coro[c].stack) : s = coro[c].stack[i]
    <3>1. DOMAIN coro[c].stack = 1..Len(coro[c].stack)
      BY <2>2, InUseIsUsed DEF CoroOf
    <3> QED  BY <3>1 DEF ToSet
  <2> QED  BY <2>2, <2>3 DEF Off
<1> QED  BY <1>1, <1>5, <1>6, <1>7

-----------------------------------------------------------------------------
(* The stacks of the coroutines belong to their frames and the live ones to
   the chain of callers, in every state of every program (jml_vm_push,
   jml_vm_call, jml_vm_exception, jml_vm_call_coroutine).                  *)
THEOREM StacksAlwaysSound == Spec => []StacksAreSound
<1>1. IInv => StacksAreSound
  BY TypesHold, FramesTile, CallersChain DEF StacksAreSound
<1> QED  BY InductiveInvariant, <1>1, PTL

(* A captured variable has one cell, open where it still is on a stack and in
   the list of that coroutine (jml_vm_upvalue_capture, jml_vm_upvalue_close,
   jml_obj_coroutine_grow).                                                *)
THEOREM UpvaluesAlwaysExact == Spec => []UpvaluesAreExact
<1>1. IInv => UpvaluesAreExact
  BY ListsAreExact, CellsAreOne DEF UpvaluesAreExact
<1> QED  BY InductiveInvariant, <1>1, PTL

(* An exception ends the program only if nothing tries.  Where no operand
   is taken for a try instruction, it lands on top of the locals that the
   function had at the innermost `try` and leaves them as they were
   (jml_vm_exception).                                                     *)
THEOREM CaughtAlwaysWhereTried == Spec => CaughtWhereTried
<1>1. IInv /\ [Next]_vars => [LandsWhereTried]_vars
  <2> SUFFICES ASSUME IInv PROVE LandsWhereTried
    OBVIOUS
  <2>1. CASE Spread
    BY <2>1, SpreadKeeps
  <2>2. CASE ~Spread
    BY <2>2 DEF LandsWhereTried
  <2> QED  BY <2>1, <2>2
<1>2. Spec => [][Next]_vars
  BY PTL DEF Spec
<1> QED  BY InductiveInvariant, <1>1, <1>2, PTL DEF CaughtWhereTried

-----------------------------------------------------------------------------
(* No step holds what it should not. *)

(* The collector takes upvalues and changes none. *)
LEMMA SettleKnows ==
    ASSUME NEW cs, NEW up, NEW g, Settle(cs, up, g), KnownCells(up),
           \A c \in Coros : KnownSlots(cs[c].stack)
    PROVE  KnownAfter
<1>1. coro' = cs /\ \A u \in Upvalues : upvalues'[u] = up[u] \/ upvalues'[u] = Free
  BY DEF Settle
<1> SUFFICES ASSUME NEW x, NEW v, x # 0, BindsIn(coro', upvalues', x, v)
             PROVE  Known(x, v)
  BY DEF KnownAfter
<1>2. CASE \E c \in Coros : \E i \in 1..Len(coro'[c].stack) :
               coro'[c].stack[i].var = x /\ coro'[c].stack[i].val = v
  BY <1>1, <1>2 DEF KnownSlots
<1>3. CASE \E u \in Upvalues : upvalues'[u].open = FALSE /\ upvalues'[u].var = x /\ upvalues'[u].val = v
  <2>1. PICK u \in Upvalues : upvalues'[u].open = FALSE /\ upvalues'[u].var = x /\ upvalues'[u].val = v
    BY <1>3
  <2>2. upvalues'[u] # Free
    BY <2>1 DEF Free
  <2> QED  BY <1>1, <2>1, <2>2 DEF KnownCells
<1> QED  BY <1>2, <1>3 DEF BindsIn

(* A program that has stopped holds nothing. *)
LEMMA StopKnows ==
    ASSUME NEW r, Stop(r)
    PROVE  KnownAfter
<1>1. \A c \in Coros : coro'[c] = NoCoro
  BY DEF Stop
<1>2. \A u \in Upvalues : upvalues'[u].var = 0
  BY DEF Stop, Free
<1>3. NoCoro.stack = <<>>
  BY DEF NoCoro
<1>4. PICK s : s = <<>> /\ \A i \in 1..Len(s) : FALSE
  OBVIOUS
<1>5. \A c \in Coros : coro'[c].stack = s
  BY <1>1, <1>3, <1>4
<1> QED  BY <1>2, <1>4, <1>5 DEF KnownAfter, BindsIn

(* What the stacks hold *)
LEMMA StateKnows ==
    /\ \A c \in Coros : KnownSlots(coro[c].stack)
    /\ KnownCells(upvalues)
BY DEF KnownSlots, KnownCells, Known, BindsIn

(* A slot without a name holds any value. *)
LEMMA NamelessIsKnown ==
    ASSUME NEW v
    PROVE  Known(Slot(0, v).var, Slot(0, v).val)
BY DEF Slot, Known, IsNew

(* The running coroutine goes on with a world that remembers. *)
LEMMA BecomeKnows ==
    ASSUME IInv, Running, NEW w, NEW g, Become(w, g), Remembers(w)
    PROVE  KnownAfter
<1>1. CASE w.ok = TRUE
  <2>1. PICK cs : cs = [coro EXCEPT ![running] = w.co] /\ Settle(cs, w.up, g)
    BY <1>1 DEF Become
  <2>2. \A c \in Coros : cs[c] = w.co \/ cs[c] = coro[c]
    BY <2>1, Alive
  <2>3. \A c \in Coros : KnownSlots(cs[c].stack)
    BY <2>2, StateKnows DEF Remembers
  <2> QED  BY <2>1, <2>3, SettleKnows DEF Remembers
<1>2. CASE w.ok # TRUE
  <2>1. CASE w.ok
    BY <1>2, <2>1
  <2>2. CASE ~w.ok
    BY <2>2, StopKnows DEF Become
  <2> QED  BY <2>1, <2>2
<1> QED  BY <1>1, <1>2

(* OP_CONST and the OP_GET_ instructions *)
LEMMA PushKnows ==
    ASSUME IInv, NEW v, PushValue(v)
    PROVE  KnownAfter
<1>1. Running /\ Become(Push(World, Slot(0, v)), global)
  BY DEF PushValue
<1>2. PICK w : w = Push(World, Slot(0, v))
  OBVIOUS
<1>3. Remembers(w)
  BY <1>1, <1>2, NamelessIsKnown, WorldRemembers, PushRemembers
<1> QED  BY <1>1, <1>2, <1>3, BecomeKnows

(* OP_SET_LOCAL: the variable is the one assigned to. *)
LEMMA SetLocalKnows ==
    ASSUME IInv, Running, NEW i \in Locals, SetLocal(i)
    PROVE  KnownAfter
<1> DEFINE w == [World EXCEPT !.co.stack[F.slots + i].val = Peek(0)]
           s == Co.stack
<1>1. Become(w, global)
  BY DEF SetLocal
<1>2. World.co = Co /\ Remembers(World)
  BY Alive, WorldRemembers
<1>3. PICK at \in 1..Len(s) : at = F.slots + i
  BY Function
<1>4. Assigns(s[at].var)
  BY <1>3 DEF Assigns
<1>5. s \in Seq(SlotOf(Used(upvalues)))
  BY Function
<1>6. PICK e : e = [s[at] EXCEPT !.val = Peek(0)]
  OBVIOUS
<1>7. e.var = s[at].var
  <2>1. s[at] \in SlotOf(Used(upvalues))
    BY <1>5
  <2> QED  BY <1>6, <2>1 DEF SlotOf
<1>8. Known(e.var, e.val)
  BY <1>4, <1>7 DEF Known
<1>9. w = WithStack(World, [World.co.stack EXCEPT ![at] = e])
  BY <1>2, <1>3, <1>6 DEF WithStack
<1> HIDE DEF w
<1>10. Remembers(w)
  BY <1>2, <1>3, <1>8, <1>9, PokeRemembers
<1> QED  BY <1>1, <1>10, BecomeKnows

(* OP_SET_UPVALUE: so is the variable of the upvalue. *)
LEMMA SetUpvalueKnows ==
    ASSUME IInv, Running, NEW j \in DOMAIN F.ups, SetUpvalue(j)
    PROVE  KnownAfter
<1>1. PICK u \in Upvalues : u = F.ups[j]
  BY CapturedInUse
<1>2. Assigns(upvalues[u].var)
  BY <1>1 DEF Assigns
<1>3. upvalues \in [Upvalues -> UpvalueOf(Used(upvalues))] /\ coro \in [Coros -> CoroOf(Used(upvalues))]
  BY Alive DEF Sound, Typed
<1>4. PICK o \in UpvalueOf(Used(upvalues)) : o = upvalues[u]
  BY <1>3
<1>5. CASE o.open = TRUE
  <2>1. PICK cs : cs = [coro EXCEPT ![o.coro].stack[o.idx].val = Peek(0)] /\ Settle(cs, upvalues, global)
    BY <1>1, <1>4, <1>5 DEF SetUpvalue
  <2>0. PICK c \in Coros : /\ c = o.coro /\ Points(o, c, coro[c])
                          /\ coro[c].stack \in Seq(SlotOf(Used(upvalues)))
    BY <1>4, <1>5, OpenPoints
  <2>2. PICK at \in 1..Len(coro[c].stack) : at = o.idx /\ coro[c].stack[at].var = o.var
    BY <2>0 DEF Points
  <2>3. PICK s, t : s = coro[c].stack /\ t = [s EXCEPT ![at].val = Peek(0)]
    OBVIOUS
  <2>4. PICK e : e.var = s[at].var /\ t = [s EXCEPT ![at] = e]
    <3>1. PICK b \in SlotOf(Used(upvalues)) : b = s[at]
      BY <2>0, <2>2, <2>3
    <3>2. PICK e : e = [b EXCEPT !.val = Peek(0)]
      OBVIOUS
    <3>3. e.var = b.var /\ t = [s EXCEPT ![at] = e]
      BY <2>3, <3>1, <3>2 DEF SlotOf
    <3> QED  BY <3>1, <3>3
  <2>5. cs[c] = [coro[c] EXCEPT !.stack = t] /\ \A d \in Coros : d # c => cs[d] = coro[d]
    BY <1>3, <2>0, <2>1, <2>2, <2>3
  <2>6. cs[c].stack = t
    BY <1>3, <2>5 DEF CoroOf
  <2>7. KnownSlots(t)
    <3>1. Known(e.var, e.val)
      BY <1>2, <1>4, <2>2, <2>3, <2>4 DEF Known
    <3>2. KnownSlots(s)
      BY <2>3, StateKnows
    <3> QED  BY <2>0, <2>2, <2>3, <2>4, <3>1, <3>2, SlotsRemember, SMTT(30)
  <2>8. \A d \in Coros : KnownSlots(cs[d].stack)
    BY <2>5, <2>6, <2>7, StateKnows
  <2> QED  BY <2>1, <2>8, StateKnows, SettleKnows
<1>6. CASE o.open = FALSE
  <2>1. PICK w : w = [World EXCEPT !.up[u].val = Peek(0)] /\ Become(w, global)
    BY <1>1, <1>4, <1>6 DEF SetUpvalue
  <2>2. Whole(World) /\ World.up = upvalues /\ Remembers(World)
    BY WorldRemembers DEF Remembers
  <2>3. PICK p : p = [o EXCEPT !.val = Peek(0)]
    OBVIOUS
  <2>4. p.var = o.var /\ p = [open |-> p.open, coro |-> p.coro, block |-> p.block,
                              idx |-> p.idx, val |-> p.val, var |-> p.var]
    BY <2>3 DEF UpvalueOf
  <2>5. w.co = World.co /\ w.up = [upvalues EXCEPT ![u] = p] /\ w = [co |-> w.co, up |-> w.up, ok |-> w.ok]
    BY <1>4, <2>1, <2>2, <2>3 DEF Whole
  <2>6. w.up = [t \in Upvalues |-> w.up[t]] /\ \A t \in Upvalues : w.up[t] = p \/ w.up[t] = upvalues[t]
    BY <1>3, <2>5
  <2>7. KnownCells(w.up)
    <3>1. Known(p.var, p.val)
      BY <1>2, <1>4, <2>4 DEF Known
    <3> QED  BY <2>6, <3>1, StateKnows DEF KnownCells
  <2>8. Whole(w)
    <3>1. ASSUME NEW t \in Upvalues, NEW q, q = w.up[t]
          PROVE  q = [open |-> q.open, coro |-> q.coro, block |-> q.block,
                      idx |-> q.idx, val |-> q.val, var |-> q.var]
      <4>1. CASE q = p
        BY <2>4, <4>1
      <4>2. CASE q = upvalues[t]
        BY <2>2, <4>2 DEF Whole
      <4> QED  BY <2>6, <3>1, <4>1, <4>2
    <3> QED  BY <2>2, <2>5, <2>6, <3>1 DEF Whole
  <2>9. Remembers(w)
    BY <2>2, <2>5, <2>7, <2>8 DEF Remembers
  <2> QED  BY <2>1, <2>9, BecomeKnows
<1>7. o.open = TRUE \/ o.open = FALSE
  BY DEF UpvalueOf
<1> QED  BY <1>5, <1>6, <1>7

(* OP_SET_GLOBAL *)
LEMMA SetGlobalKnows ==
    ASSUME IInv, SetGlobal
    PROVE  KnownAfter
<1>1. PICK g : Running /\ Become(World, g)
  BY DEF SetGlobal
<1> QED  BY <1>1, WorldRemembers, BecomeKnows

(* Slots that are dropped. *)
LEMMA DropRemembers ==
    ASSUME NEW w, Remembers(w), NEW n \in Nat, n <= Len(w.co.stack), NEW v, v = Drop(w, n)
    PROVE  Remembers(v) /\ v.co.stack = SubSeq(w.co.stack, 1, Len(w.co.stack) - n) /\ v.up = w.up
<1>1. PICK S : w.co.stack \in Seq(S)
  BY DEF Remembers, Whole
<1>2. PICK l \in Nat : l = Len(w.co.stack) /\ l - n \in 0..l
  BY <1>1
<1> DEFINE m == l - n
<1>3. v = WithStack(w, SubSeq(w.co.stack, 1, m))
  BY <1>2 DEF Drop, WithStack
<1>4. m \in 0..Len(w.co.stack)
  BY <1>2
<1>5. Remembers(v) /\ v.co.stack = SubSeq(w.co.stack, 1, m) /\ v.up = w.up
  BY <1>3, <1>4, CutRemembers
<1> QED  BY <1>2, <1>5

(* OP_POP *)
LEMMA PopKnows ==
    ASSUME IInv, Pop
    PROVE  KnownAfter
<1>1. Running /\ Temps(F, Co) > 0 /\ Become(Drop(World, 1), global)
  BY DEF Pop
<1>2. PICK n \in Nat : n = 1
  OBVIOUS
<1>3. World.co = Co /\ Remembers(World)
  BY <1>1, Alive, WorldRemembers
<1>4. n <= Len(Co.stack)
  BY <1>1, <1>2, Function
<1>5. Remembers(Drop(World, n))
  BY <1>3, <1>4, DropRemembers
<1> QED  BY <1>1, <1>2, <1>5, BecomeKnows

(* `let`: the variable is new. *)
LEMMA LetKnows ==
    ASSUME IInv, Let
    PROVE  KnownAfter
<1> DEFINE a == [World EXCEPT !.co.stack[Len(Co.stack)].var = NewVar]
<1>1. Running /\ NewVars # {} /\ Become(Declared(a, 1), global)
  BY DEF Let
<1>2. World.co = Co /\ Remembers(World)
  BY <1>1, Alive, WorldRemembers
<1>3. IsNew(NewVar, coro, upvalues)
  BY <1>1, Fresh
<1>4. PICK L \in 1..Len(Co.stack) : L = Len(Co.stack)
  <2>1. Len(Co.stack) \in Nat /\ F.slots \in 1..Len(Co.stack)
    BY <1>1, Function
  <2> QED  BY ONLY <2>1
<1>5. PICK e : e = [Co.stack[L] EXCEPT !.var = NewVar]
  OBVIOUS
<1>6. e.var = NewVar
  <2>1. Co.stack[L] \in SlotOf(Used(upvalues))
    BY <1>1, <1>4, Function
  <2> QED  BY <1>5, <2>1 DEF SlotOf
<1>7. Known(e.var, e.val)
  BY <1>3, <1>6 DEF Known
<1>8. a = WithStack(World, [World.co.stack EXCEPT ![L] = e])
  BY <1>2, <1>4, <1>5 DEF WithStack
<1> HIDE DEF a
<1>9. Remembers(a)
  BY <1>2, <1>4, <1>7, <1>8, PokeRemembers
<1>10. Remembers(Declared(a, 1))
  BY <1>9, TopRemembers
<1> QED  BY <1>1, <1>10, BecomeKnows

(* The end of a scope *)
LEMMA EndScopeKnows ==
    ASSUME IInv, EndScope
    PROVE  KnownAfter
<1>1. /\ Running /\ Temps(F, Co) = 0 /\ F.locals > 1
      /\ Become(Declared(Drop(Close(World, Len(Co.stack)), 1), -1), global)
  BY DEF EndScope
<1>2. /\ World.co = Co /\ Remembers(World) /\ Fits(coro, running, World, global) /\ running \in Coros
  BY <1>1, Alive, WorldRemembers
<1>3. PICK L \in Nat, n \in Nat : L = Len(Co.stack) /\ n = 1 /\ n <= L
  BY <1>1, Function
<1>4. PICK b : b = Close(World, L)
  OBVIOUS
<1>5. Remembers(b) /\ b.co.stack = Co.stack
  BY <1>2, <1>4, CloseRemembers
<1>6. PICK d : d = Drop(b, n)
  OBVIOUS
<1>7. Remembers(d)
  BY <1>3, <1>5, <1>6, DropRemembers
<1>8. PICK v : v = Declared(d, -1)
  OBVIOUS
<1>9. Remembers(v)
  BY <1>7, <1>8, TopRemembers
<1>10. Become(v, global)
  BY <1>1, <1>3, <1>4, <1>6, <1>8
<1> QED  BY <1>1, <1>9, <1>10, BecomeKnows

(* Temporaries of the running function are dropped. *)
LEMMA TempsRemember ==
    ASSUME IInv, Running, NEW n \in Nat, n <= Temps(F, Co), NEW d, d = Drop(World, n)
    PROVE  /\ Fits(coro, running, d, global) /\ Remembers(d)
           /\ n <= Len(Co.stack) /\ d.co.stack = SubSeq(Co.stack, 1, Len(Co.stack) - n)
           /\ Len(d.co.stack) = Len(Co.stack) - n
<1>1. /\ World \in Worlds(Used(upvalues)) /\ Fits(coro, running, World, global) /\ running \in Coros
      /\ World.co = Co /\ Shaped(Co, MaxTemps) /\ F = Last(Co.frames) /\ MaxTemps \in Nat
  BY Alive, Function
<1>2. /\ n <= Len(World.co.stack)
      /\ \A i \in 1..Len(World.co.stack) : i > Len(World.co.stack) - n => World.co.stack[i].var = 0
  <2>1. n <= Temps(Last(World.co.frames), World.co) /\ Shaped(World.co, MaxTemps)
    BY <1>1
  <2> QED  BY <1>1, <2>1, DropShape
<1>3. Fits(coro, running, d, global)
  BY <1>1, <1>2, DropFits
<1>4. Len(d.co.stack) = Len(World.co.stack) - n
  BY <1>1, <1>2, DropEffect
<1>5. Remembers(d) /\ d.co.stack = SubSeq(World.co.stack, 1, Len(World.co.stack) - n)
  BY <1>2, WorldRemembers, DropRemembers
<1> QED  BY <1>1, <1>2, <1>3, <1>4, <1>5

(* One slot more, whatever room there is. *)
LEMMA AppendRemembers ==
    ASSUME NEW w, Remembers(w), NEW s, Known(s.var, s.val), NEW v, v = WithStack(w, Append(w.co.stack, s))
    PROVE  Remembers(v) /\ v.co.stack = Append(w.co.stack, s)
<1>1. PICK S : w.co.stack \in Seq(S)
  BY DEF Remembers, Whole
<1>2. KnownSlots(w.co.stack)
  BY DEF Remembers
<1>3. PICK t : t = Append(w.co.stack, s)
  OBVIOUS
<1>4. PICK T : t \in Seq(T) /\ KnownSlots(t)
  BY <1>1, <1>2, <1>3, SlotsRemember
<1>5. Remembers(v) /\ v.co.stack = t
  <2>1. v = WithStack(w, t)
    BY <1>3
  <2> QED  BY <1>4, <2>1, StackRemembers
<1> QED  BY <1>3, <1>5

(* OP_CALL and OP_TRY_CALL of a C function *)
LEMMA CallNativeKnows ==
    ASSUME IInv, NEW n \in 0..1, NEW v \in Data \cup {Exc}, CallNative(n, v)
    PROVE  KnownAfter
<1>1. /\ Running /\ Temps(F, Co) > n
      /\ Error \/ Become(Push(Drop(World, n + 1), Slot(0, v)), global)
  BY DEF CallNative
<1>2. CASE Error
  BY <1>2, StopKnows DEF Error
<1>3. CASE Become(Push(Drop(World, n + 1), Slot(0, v)), global)
  <2>1. PICK m \in Nat : m = n + 1 /\ m <= Temps(F, Co)
    BY <1>1, Function
  <2>2. PICK d, p : d = Drop(World, m) /\ p = Push(d, Slot(0, v))
    OBVIOUS
  <2>3. Remembers(d)
    BY <1>1, <2>1, <2>2, TempsRemember
  <2>4. Remembers(p)
    BY <2>2, <2>3, NamelessIsKnown, PushRemembers
  <2>5. Become(p, global)
    BY <1>3, <2>1, <2>2
  <2> QED  BY <1>1, <2>4, <2>5, BecomeKnows
<1> QED  BY <1>1, <1>2, <1>3

(* OP_CLOSURE: a declared function is a new variable. *)
LEMMA MakeClosureKnows ==
    ASSUME IInv, Running, NEW decl \in BOOLEAN, NEW n \in 0..MaxCaptures,
           NEW caps \in [1..n -> Captures(decl)], MakeClosure(caps, decl)
    PROVE  KnownAfter
<1>1. PICK x, s, w0, w1, w2 :
        /\ x = (IF decl THEN NewVar ELSE 0) /\ s = Slot(x, None)
        /\ w0 = Push(World, s) /\ w1 = CaptureAll(w0, caps)
        /\ w2 = Filled(w1, w0)
        /\ decl => NewVars # {}
        /\ Become(IF w0.ok /\ decl THEN Declared(w2, 1) ELSE w2, global)
  BY DEF MakeClosure, Filled
<1>2. \A v : Known(x, v)
  <2>1. CASE decl = TRUE
    <3>1. IsNew(x, coro, upvalues)
      BY <1>1, <2>1, Fresh
    <3> QED  BY <3>1 DEF Known
  <2>2. CASE decl = FALSE
    BY <1>1, <2>2 DEF Known, IsNew
  <2> QED  BY <2>1, <2>2
<1>3. s.var = x /\ World.co = Co /\ Co.stack \in Seq(SlotOf(Used(upvalues)))
  BY <1>1, Alive, Function DEF Slot
<1>4. Remembers(w0) /\ w0.co.stack = Append(Co.stack, s)
  BY <1>1, <1>2, <1>3, WorldRemembers, PushRemembers
<1>5. Len(caps) \in Nat
  <2>1. n \in Nat /\ DOMAIN caps = 1..n /\ caps \in Seq(Captures(decl))
    BY CoroutineAssumption
  <2> QED  BY <2>1
<1>6. PICK a : a = w1.w
  OBVIOUS
<1>7. Remembers(a) /\ a.co.stack = Append(Co.stack, s)
  BY <1>1, <1>4, <1>5, <1>6, CaptureAllRemembers
<1>8. PICK L \in Nat : L = Len(Append(Co.stack, s)) /\ L \in 1..L /\ Append(Co.stack, s)[L] = s
  BY <1>3, AppendProperties
<1>9. PICK c, e : c = Closure(w1.us) /\ e = [s EXCEPT !.val = c]
  OBVIOUS
<1>10. e.var = x
  BY <1>1, <1>9 DEF Slot
<1>11. w2 = WithStack(a, [a.co.stack EXCEPT ![L] = e])
  <2>1. w2 = [a EXCEPT !.co.stack[L].val = c]
    BY <1>1, <1>4, <1>6, <1>8, <1>9 DEF Filled
  <2>2. a.co.stack[L] = s
    BY <1>7, <1>8
  <2> QED  BY <1>9, <2>1, <2>2 DEF WithStack
<1>12. Remembers(w2)
  <2>1. L \in 1..Len(a.co.stack)
    BY <1>7, <1>8
  <2> QED  BY <1>2, <1>7, <1>10, <1>11, <2>1, PokeRemembers
<1>13. Remembers(Declared(w2, 1))
  BY <1>12, TopRemembers
<1> QED  BY <1>1, <1>12, <1>13, BecomeKnows

(* OP_CALL and OP_TRY_CALL: the argument becomes a new variable. *)
LEMMA CallKnows ==
    ASSUME IInv, NEW n \in 0..1, NEW try \in {-1, F.locals}, Call(n, try)
    PROVE  KnownAfter
<1>1. PICK f, at, w0, w1, w2 : CallSteps(n, try, f, at, w0, w1, w2)
  BY CallUnfolds
<1>2. /\ at = Len(Co.stack) - n
      /\ w0 = TriedAt(World, try) /\ w1 = Roomy(w0)
      /\ w2 = WithFrames(w1, Append(w1.co.frames, Frame(f, at, n + 1)))
      /\ Running /\ Temps(F, Co) > n /\ n <= Cardinality(NewVars)
      /\ Error \/ Become(IF n = 0 THEN w2 ELSE Named(w2, at + 1, NewVar), global)
  BY <1>1 DEF CallSteps
<1>3. CASE Error
  BY <1>3, StopKnows DEF Error
<1>4. CASE Become(IF n = 0 THEN w2 ELSE Named(w2, at + 1, NewVar), global)
  <2>1. World.co = Co /\ Remembers(World) /\ Co.stack \in Seq(SlotOf(Used(upvalues))) /\ Len(Co.stack) \in Nat
        /\ F.slots \in 1..Len(Co.stack)
    BY <1>2, Alive, Function, WorldRemembers
  <2>2. Remembers(w0) /\ w0.co.stack = Co.stack
    BY <1>2, <2>1, TopRemembers
  <2>3. Remembers(w1) /\ w1.co.stack = Co.stack
    <3>1. PICK k : k = [w0 EXCEPT !.co.framecap = 2 * @]
      OBVIOUS
    <3>2. k = [w0 EXCEPT !.co.framecap = 2 * w0.co.framecap]
      BY <3>1
    <3>3. Remembers(k) /\ k.co.stack = Co.stack
      BY <2>2, <3>2, FrameCapRemembers
    <3>4. w1 = w0 \/ w1 = Grow(k)
      BY <1>2, <3>1 DEF Roomy
    <3> QED  BY <2>2, <3>3, <3>4, GrowRemembers
  <2>4. Remembers(w2) /\ w2.co.stack = Co.stack
    BY <1>2, <2>3, FramesRemember
  <2>5. CASE n = 0
    BY <1>2, <1>4, <2>4, <2>5, BecomeKnows
  <2>6. CASE n = 1
    <3>1. PICK L \in 1..Len(Co.stack) : L = at + 1
      BY <1>2, <2>1, <2>6
    <3>2. NewVars # {}
      <4>1. 1 <= Cardinality(NewVars)
        BY <1>2, <2>6
      <4> QED  BY ONLY <4>1, FS_EmptySet
    <3>3. IsNew(NewVar, coro, upvalues)
      BY <1>2, <3>2, Fresh
    <3>4. PICK e : e = [Co.stack[L] EXCEPT !.var = NewVar]
      OBVIOUS
    <3>5. e.var = NewVar
      <4>1. Co.stack[L] \in SlotOf(Used(upvalues))
        BY <2>1
      <4> QED  BY <3>4, <4>1 DEF SlotOf
    <3>6. Known(e.var, e.val)
      BY <3>3, <3>5 DEF Known
    <3>7. PICK v : v = Named(w2, at + 1, NewVar)
      OBVIOUS
    <3>8. v = WithStack(w2, [w2.co.stack EXCEPT ![L] = e])
      BY <2>4, <3>1, <3>4, <3>7 DEF Named, WithStack
    <3>9. Remembers(v)
      BY <2>4, <3>6, <3>8, PokeRemembers
    <3>10. Become(v, global)
      BY <1>4, <2>6, <3>7
    <3> QED  BY <1>2, <3>9, <3>10, BecomeKnows
  <2> QED  BY <2>5, <2>6
<1> QED  BY <1>2, <1>3, <1>4

(* OP_SPREAD: the locals above the handler's are closed or gone. *)
LEMMA SpreadKnows ==
    ASSUME IInv, Spread
    PROVE  KnownAfter
<1>0. CASE Stop("astray")
  BY <1>0, StopKnows
<1> SUFFICES ASSUME ~Stop("astray") PROVE KnownAfter
  BY <1>0
<1>1. PICK i, h, end, b :
        /\ i = Handler(Co) /\ h = Co.frames[i] /\ end = h.slots + h.try + 1 /\ b = Close(World, end)
        /\ Running /\ Temps(F, Co) > 0
        /\ IF i = 0
           THEN Error
           ELSE Become(Resumed([b EXCEPT !.co.frames = SubSeq(@, 1, i),
                                         !.co.stack = Append(SubSeq(@, 1, end - 2), Slot(0, Exc))]),
                       global)
  BY DEF Spread
<1>2. CASE i = 0
  BY <1>1, <1>2, StopKnows DEF Error
<1>3. CASE i # 0
  <2>1. /\ Fits(coro, running, World, global) /\ running \in Coros /\ World.co = Co /\ Remembers(World)
        /\ Shaped(Co, MaxTemps) /\ Co \in CoroOf(Used(upvalues)) /\ Len(Co.stack) \in Nat
    BY <1>1, Alive, Function, WorldRemembers
  <2>2. i \in 1..Len(Co.frames) /\ h.try = h.locals /\ End(h) <= Len(Co.stack)
    BY <1>1, <1>3, <2>1, HandlerWaits
  <2>3. h.slots \in Nat \ {0} /\ h.locals \in Nat \ {0} /\ End(h) = h.slots + h.locals
    BY <1>1, <2>1, <2>2, FrameFacts
  <2>4. end \in Nat /\ end - 2 \in 0..Len(Co.stack)
    <3>1. PICK a, k, e, l \in Nat : a = h.slots /\ k = h.locals /\ e = End(h) /\ l = Len(Co.stack)
      BY <2>1, <2>3
    <3>2. end = a + k + 1 /\ e = a + k /\ a # 0 /\ k # 0 /\ e <= l
      BY <1>1, <2>2, <2>3, <3>1
    <3>3. end \in Nat /\ end - 2 \in 0..l
      BY ONLY <3>2, a \in Nat, k \in Nat, l \in Nat
    <3> QED  BY <3>1, <3>3
  <2>5. Remembers(b) /\ b.co.stack = Co.stack
    BY <1>1, <2>1, <2>4, CloseRemembers
  <2>6. PICK m, x : m = end - 2 /\ x = Slot(0, Exc) /\ m \in 0..Len(Co.stack)
    BY <2>4
  <2>7. PICK r, s, fs : r = SubSeq(b.co.stack, 1, m) /\ s = Append(r, x) /\ fs = SubSeq(b.co.frames, 1, i)
    OBVIOUS
  <2>8. PICK a, c, d : a = WithStack(b, r) /\ c = WithStack(a, s) /\ d = WithFrames(c, fs)
    OBVIOUS
  <2>9. Remembers(a) /\ a.co.stack = r
    BY <2>5, <2>6, <2>7, <2>8, CutRemembers
  <2>10. Remembers(c)
    BY <2>6, <2>7, <2>8, <2>9, NamelessIsKnown, AppendRemembers
  <2>11. Remembers(Resumed(d))
    BY <2>8, <2>10, FramesRemember, TopRemembers
  <2>12. d = [b EXCEPT !.co.frames = SubSeq(@, 1, i),
                       !.co.stack = Append(SubSeq(@, 1, end - 2), Slot(0, Exc))]
    <3>1. d = [b EXCEPT !.co.frames = fs, !.co.stack = s]
      BY <2>5, <2>8 DEF WithStack, WithFrames, Remembers, Whole
    <3> QED  BY <2>6, <2>7, <3>1
  <2>13. Become(Resumed(d), global)
    BY <1>1, <1>3, <2>12
  <2> QED  BY <1>1, <2>11, <2>13, BecomeKnows
<1> QED  BY <1>2, <1>3

(* What OP_RETURN closes: the value is dropped, and the slots of the function
   with what it captured.                                                  *)
LEMMA ReturnRemembers ==
    ASSUME IInv, Running, Temps(F, Co) > 0, NEW w, w = Close(Drop(World, 1), F.slots)
    PROVE  Remembers(w) /\ F.slots - 1 \in 0..Len(w.co.stack)
<1>1. /\ Len(Co.stack) \in Nat /\ F.slots \in Nat \ {0} /\ F.slots < End(F) /\ End(F) \in Nat
      /\ Temps(F, Co) = Len(Co.stack) + 1 - End(F) /\ running \in Coros
  BY Function, Alive
<1>2. PICK one, d : one \in Nat /\ one = 1 /\ d = Drop(World, one)
  OBVIOUS
<1>3. PICK l, a, e \in Nat : l = Len(Co.stack) /\ a = F.slots /\ e = End(F) /\ a # 0 /\ a < e
  BY <1>1
<1>4. l + 1 - e > 0 /\ one <= Temps(F, Co)
  BY <1>1, <1>2, <1>3
<1>5. a - 1 \in 0..(l - 1)
  BY ONLY <1>3, <1>4, l \in Nat, a \in Nat, e \in Nat
<1>6. Fits(coro, running, d, global) /\ Remembers(d) /\ Len(d.co.stack) = l - 1
  BY <1>2, <1>3, <1>4, TempsRemember
<1>7. Remembers(w) /\ w.co.stack = d.co.stack
  <2>1. w = Close(d, a)
    BY <1>2, <1>3
  <2> QED  BY <1>1, <1>6, <2>1, CloseRemembers
<1> QED  BY <1>3, <1>5, <1>6, <1>7

(* A function returns to its caller. *)
LEMMA ReturnToCallerKnows ==
    ASSUME IInv, Running, Temps(F, Co) > 0,
           NEW w, w = Close(Drop(World, 1), F.slots),
           NEW r, r = [w EXCEPT !.co.frames = Front(@), !.co.stack = SubSeq(@, 1, F.slots - 1)],
           NEW v, Become(Resumed(Push(r, Slot(0, v))), global)
    PROVE  KnownAfter
<1>1. Remembers(w) /\ F.slots - 1 \in 0..Len(w.co.stack)
  BY ReturnRemembers
<1>2. PICK m \in 0..Len(w.co.stack) : m = F.slots - 1
  BY <1>1
<1>3. PICK q, fs : q = SubSeq(w.co.stack, 1, m) /\ fs = Front(w.co.frames)
  OBVIOUS
<1>4. PICK a, b : a = WithStack(w, q) /\ b = WithFrames(a, fs)
  OBVIOUS
<1>5. Remembers(a)
  BY <1>1, <1>3, <1>4, CutRemembers
<1>6. Remembers(b)
  BY <1>4, <1>5, FramesRemember
<1>7. b = r
  <2>1. b = [w EXCEPT !.co.frames = fs, !.co.stack = q]
    BY <1>1, <1>4 DEF WithStack, WithFrames, Remembers, Whole
  <2> QED  BY <1>2, <1>3, <2>1
<1>8. PICK p : p = Push(r, Slot(0, v))
  OBVIOUS
<1>9. Remembers(p)
  BY <1>6, <1>7, <1>8, NamelessIsKnown, PushRemembers
<1>10. Remembers(Resumed(p))
  BY <1>9, TopRemembers
<1> QED  BY <1>8, <1>10, BecomeKnows

(* The coroutine below goes on with a value for the import. *)
LEMMA ReturnBelowKnows ==
    ASSUME IInv, Running, Temps(F, Co) > 0, saved # <<>>,
           NEW w, w = Close(Drop(World, 1), F.slots),
           NEW m, NEW below, below = Last(saved).running,
           NEW p, p = Push([co |-> coro[below], up |-> w.up, ok |-> TRUE], Slot(0, m)),
           Settle([coro EXCEPT ![running] = NoCoro, ![below] = p.co], p.up, global)
    PROVE  KnownAfter
<1>1. Remembers(w)
  BY ReturnRemembers
<1>2. below \in Coros /\ coro \in [Coros -> CoroOf(Used(upvalues))] /\ running \in Coros
  <2>1. /\ coro \in [Coros -> CoroOf(Used(upvalues))] /\ running \in Coros
        /\ ChainOf(coro, running, saved)
    BY Alive DEF Chained
  <2>2. PICK A : A = [running : Coros, caller : Coros \cup {None}]
    OBVIOUS
  <2>3. saved \in Seq(A)
    BY <2>1, <2>2 DEF ChainOf, Activations
  <2>4. Last(saved) \in A
    BY <2>3 DEF Last
  <2> QED  BY <2>1, <2>2, <2>4
<1>3. PICK q : q = [co |-> coro[below], up |-> w.up, ok |-> TRUE]
  OBVIOUS
<1>4. Remembers(q)
  <2>1. Whole(w) /\ KnownCells(w.up)
    BY <1>1 DEF Remembers
  <2>2. coro[below] \in CoroOf(Used(upvalues)) /\ KnownSlots(coro[below].stack)
    BY <1>2, StateKnows
  <2>3. q.co = coro[below] /\ q.up = w.up /\ q = [co |-> q.co, up |-> q.up, ok |-> q.ok]
    BY <1>3
  <2>4. /\ q.co = [stack |-> q.co.stack, cap |-> q.co.cap, block |-> q.co.block,
                   frames |-> q.co.frames, framecap |-> q.co.framecap,
                   open |-> q.co.open, caller |-> q.co.caller]
        /\ q.co.stack \in Seq(SlotOf(Used(upvalues)))
    BY <2>2, <2>3 DEF CoroOf
  <2>5. Whole(q)
    BY <2>1, <2>3, <2>4 DEF Whole
  <2> QED  BY <2>1, <2>2, <2>3, <2>5 DEF Remembers
<1>5. Remembers(p)
  BY <1>3, <1>4, NamelessIsKnown, PushRemembers
<1>6. PICK cs : cs = [coro EXCEPT ![running] = NoCoro, ![below] = p.co] /\ Settle(cs, p.up, global)
  OBVIOUS
<1>7. \A c \in Coros : cs[c] = p.co \/ cs[c] = coro[c] \/ cs[c] = NoCoro
  BY <1>2, <1>6
<1>8. KnownSlots(NoCoro.stack)
  BY DEF NoCoro, KnownSlots
<1>9. \A c \in Coros : KnownSlots(cs[c].stack)
  BY <1>5, <1>7, <1>8, StateKnows DEF Remembers
<1> QED  BY <1>5, <1>6, <1>9, SettleKnows DEF Remembers

(* OP_RETURN *)
LEMMA ReturnKnows ==
    ASSUME IInv, Return
    PROVE  KnownAfter
<1>1. PICK w, v, r :
        /\ w = Close(Drop(World, 1), F.slots) /\ v = Peek(0)
        /\ r = [w EXCEPT !.co.frames = Front(@), !.co.stack = SubSeq(@, 1, F.slots - 1)]
        /\ Running /\ Temps(F, Co) > 0
        /\ IF Len(Co.frames) > 1
           THEN Become(Resumed(Push(r, Slot(0, v))), global)
           ELSE IF saved = <<>>
           THEN Stop("ok")
           ELSE \E m \in Data :
                LET below == Last(saved).running
                    p == Push([co |-> coro[below], up |-> w.up, ok |-> TRUE], Slot(0, m))
                IN  IF ~p.ok THEN Stop("crash") ELSE
                    /\ Settle([coro EXCEPT ![running] = NoCoro, ![below] = p.co], p.up, global)
                    /\ running' = below /\ saved' = Front(saved) /\ UNCHANGED result
  BY DEF Return
<1>2. CASE Len(Co.frames) > 1
  BY <1>1, <1>2, ReturnToCallerKnows
<1>3. CASE ~(Len(Co.frames) > 1) /\ saved = <<>>
  BY <1>1, <1>3, StopKnows
<1>4. CASE ~(Len(Co.frames) > 1) /\ saved # <<>>
  <2>1. PICK m, below, p :
          /\ below = Last(saved).running
          /\ p = Push([co |-> coro[below], up |-> w.up, ok |-> TRUE], Slot(0, m))
          /\ \/ Stop("crash")
             \/ Settle([coro EXCEPT ![running] = NoCoro, ![below] = p.co], p.up, global)
    BY <1>1, <1>4
  <2>2. CASE Stop("crash")
    BY <2>2, StopKnows
  <2>3. CASE Settle([coro EXCEPT ![running] = NoCoro, ![below] = p.co], p.up, global)
    BY <1>1, <1>4, <2>1, <2>3, ReturnBelowKnows
  <2> QED  BY <2>1, <2>2, <2>3
<1> QED  BY <1>2, <1>3, <1>4

(* OP_IMPORT: a new coroutine has no variable. *)
LEMMA ImportKnows ==
    ASSUME IInv, NEW c \in Coros, Import(c)
    PROVE  KnownAfter
<1>1. PICK co : /\ co = [NewCoro(Closure(<<>>)) EXCEPT !.caller = running]
                /\ coro' = [coro EXCEPT ![c] = co] /\ upvalues' = upvalues
  BY DEF Import
<1>2. coro \in [Coros -> CoroOf(Used(upvalues))] /\ running \in Coros
  BY Alive DEF Import
<1>3. Len(co.stack) = 1 /\ co.stack[1].var = 0
  BY <1>1, <1>2, NewFacts
<1>4. \A d \in Coros : coro'[d] = co \/ coro'[d] = coro[d]
  BY <1>1, <1>2
<1>5. KnownSlots(co.stack)
  <2>1. \A i \in 1..1 : i = 1
    OBVIOUS
  <2> QED  BY <1>3, <2>1 DEF KnownSlots, Known, IsNew
<1> SUFFICES ASSUME NEW x, NEW v, x # 0, BindsIn(coro', upvalues', x, v)
             PROVE  Known(x, v)
  BY DEF KnownAfter
<1>6. CASE \E d \in Coros : \E i \in 1..Len(coro'[d].stack) :
               coro'[d].stack[i].var = x /\ coro'[d].stack[i].val = v
  BY <1>4, <1>5, <1>6, StateKnows DEF KnownSlots
<1>7. CASE \E u \in Upvalues : upvalues'[u].open = FALSE /\ upvalues'[u].var = x /\ upvalues'[u].val = v
  BY <1>1, <1>7, StateKnows DEF KnownCells
<1> QED  BY <1>6, <1>7 DEF BindsIn

(* No instruction leaves a variable with a value it should not have. *)
LEMMA NextKnows ==
    ASSUME IInv, Next
    PROVE  KnownAfter /\ result = "running"
<1>1. CASE Running /\ GetLocal
  BY <1>1, PushKnows DEF GetLocal, Running
<1>2. CASE Running /\ GetUpvalue
  BY <1>2, PushKnows DEF GetUpvalue, Running
<1>3. CASE Running /\ \E i \in Locals : SetLocal(i)
  <2>1. PICK i \in Locals : SetLocal(i)
    BY <1>3
  <2> QED  BY <1>3, <2>1, SetLocalKnows DEF Running
<1>4. CASE Running /\ \E j \in DOMAIN F.ups : SetUpvalue(j)
  <2>1. PICK j \in DOMAIN F.ups : SetUpvalue(j)
    BY <1>4
  <2> QED  BY <1>4, <2>1, SetUpvalueKnows DEF Running
<1>5. CASE Running /\ OpClosure
  <2>1. PICK decl \in BOOLEAN, n \in 0..MaxCaptures :
            \E caps \in [1..n -> Captures(decl)] : MakeClosure(caps, decl)
    BY <1>5 DEF OpClosure
  <2> QED  BY <1>5, <2>1, MakeClosureKnows DEF Running
<1>6. CASE \E c \in Coros : Import(c)
  BY <1>6, ImportKnows DEF Import, Running
<1>7. CASE Const \/ GetGlobal
  BY <1>7, PushKnows DEF Const, GetGlobal, PushValue, Running
<1>8. CASE SetGlobal \/ Pop \/ Let \/ EndScope
  <2>1. result = "running"
    BY <1>8 DEF SetGlobal, Pop, Let, EndScope, Running
  <2> QED  BY <1>8, <2>1, SetGlobalKnows, PopKnows, LetKnows, EndScopeKnows
<1>9. CASE OpCall
  <2>1. PICK n \in 0..1 : \E try \in {-1, F.locals} : Call(n, try)
    BY <1>9 DEF OpCall
  <2> QED  BY <1>9, <2>1, CallKnows DEF OpCall, Running
<1>10. CASE OpCallNative
  <2>1. PICK n \in 0..1, v \in Data \cup {Exc} : CallNative(n, v)
    BY <1>10 DEF OpCallNative
  <2> QED  BY <2>1, CallNativeKnows DEF CallNative, Running
<1>11. CASE Spread \/ Return \/ Fail
  <2>1. result = "running"
    BY <1>11 DEF Spread, Return, Fail, Running
  <2> QED  BY <1>11, <2>1, SpreadKnows, ReturnKnows, StopKnows DEF Fail, Error
<1> QED  BY <1>1, <1>2, <1>3, <1>4, <1>5, <1>6, <1>7, <1>8, <1>9, <1>10, <1>11 DEF Next

-----------------------------------------------------------------------------
(* While a variable exists only an assignment to it changes its value: not a
   return, an exception, the end of a scope or the move of a stack
   (jml_vm_upvalue_close, jml_obj_coroutine_grow, jml_vm_exception).       *)
THEOREM VariablesAlwaysKept == Spec => VariablesAreKept
<1>1. IInv /\ [Next]_vars => [KeepsValues]_vars
  <2> SUFFICES ASSUME IInv, Next PROVE KeepsValues
    OBVIOUS
  <2>1. IInv' /\ KnownAfter /\ result = "running"
    BY NextKeeps, NextKnows
  <2> QED  BY <2>1, KnownIsKept
<1>2. Spec => [][Next]_vars
  BY PTL DEF Spec
<1> QED  BY InductiveInvariant, <1>1, <1>2, PTL DEF VariablesAreKept
=============================================================================
