-------------------------- MODULE JmlCoroutineFacts --------------------------
(***************************************************************************)
(* What the operators of JmlCoroutine do to the stack of a coroutine and   *)
(* to its upvalues, the invariant that they keep (IInv), and that the      *)
(* instructions without a call keep it; and what a World remembers of what *)
(* the variables hold. JmlCoroutineProofs has the rest and the theorems.   *)
(***************************************************************************)
EXTENDS JmlCoroutine, FiniteSetTheorems, SequenceTheorems, TLAPS

(* The types, for a set U of upvalues in use: no value names another. *)
Cells(U)     == UNION {[1..n -> U] : n \in 0..MaxCaptures}
Values(U)    == Data \cup {Exc, None} \cup {Closure(us) : us \in Cells(U)}
SlotOf(U)    == [var : 0..MaxVars, val : Values(U)]
FrameOf(U)   == [ups : Cells(U), slots : Nat \ {0}, locals : 1..MaxLocals, try : -1..MaxLocals]
UpvalueOf(U) == [open : BOOLEAN, coro : Coros \cup {None}, block : Nat, idx : Nat,
                 val : Values(U), var : 0..MaxVars]
CoroOf(U)    == [stack : Seq(SlotOf(U)), cap : Nat, block : Nat, frames : Seq(FrameOf(U)),
                 framecap : Nat, open : Seq(Upvalues), caller : Coros \cup {None}]

(* An upvalue in use stands for a variable. *)
Used(up) == {u \in Upvalues : up[u].var # 0}

Typed(cs, up, g) ==
    /\ up \in [Upvalues -> UpvalueOf(Used(up))]
    /\ cs \in [Coros -> CoroOf(Used(up))]
    /\ g \in Values(Used(up))

(* The open upvalues of a coroutine are those of its list, which descends;
   each is open at a slot that holds its variable.                         *)
Points(o, c, co) ==
    /\ o.open = TRUE /\ o.coro = c /\ o.block = co.block
    /\ o.idx \in 1..Len(co.stack) /\ o.var # 0 /\ co.stack[o.idx].var = o.var

Pointed(c, co, up) ==
    /\ \A k \in 1..Len(co.open) : Points(up[co.open[k]], c, co)
    /\ \A j, k \in 1..Len(co.open) : j < k => up[co.open[k]].idx < up[co.open[j]].idx
    /\ \A u \in Upvalues : up[u].open = TRUE /\ up[u].coro = c =>
          \E k \in 1..Len(co.open) : co.open[k] = u

(* A variable is on one stack slot or in one closed upvalue. *)
OnOneSlot(cs) ==
    \A c, d \in Coros : \A i \in 1..Len(cs[c].stack), j \in 1..Len(cs[d].stack) :
        cs[c].stack[i].var = cs[d].stack[j].var /\ cs[c].stack[i].var # 0 => c = d /\ i = j

Off(cs, x) == \A c \in Coros : \A i \in 1..Len(cs[c].stack) : cs[c].stack[i].var # x

InOneCell(cs, up) ==
    /\ \A u \in Upvalues : up[u].open = FALSE /\ up[u].var # 0 => Off(cs, up[u].var)
    /\ \A u, t \in Upvalues :
          up[u].open = FALSE /\ up[t].open = FALSE /\ up[u].var = up[t].var /\ up[u].var # 0
          => u = t
    /\ \A u \in Upvalues : up[u].var = 0 => up[u] = Free
    /\ \A u \in Upvalues : up[u].open = TRUE => up[u].coro \in Coros

Exact(cs, up) ==
    /\ \A c \in Coros : Pointed(c, cs[c], up)
    /\ OnOneSlot(cs) /\ InOneCell(cs, up)

(* The frames of a live coroutine: they tile its stack, those below the top
   one wait for a call, and the named slots are their locals.              *)
End(f) == f.slots + f.locals

IsLocal(fs, j) == \E i \in 1..Len(fs) : fs[i].slots < j /\ j < End(fs[i])

Waits(f, above) ==
    /\ End(f) <= above.slots /\ above.slots < End(f) + MaxTemps
    /\ f.try # -1 => f.try = f.locals /\ above.slots = End(f)

Tiled(fs) ==
    /\ fs # <<>> /\ fs[1].slots = 1 /\ fs[Len(fs)].try = -1
    /\ \A i, j \in 1..Len(fs) : i < j => End(fs[i]) <= fs[j].slots
    /\ \A i \in 1..Len(fs) : i < Len(fs) => Waits(fs[i], fs[i + 1])

Shaped(co, temps) ==
    /\ Tiled(co.frames)
    /\ End(Last(co.frames)) <= Len(co.stack) + 1 /\ Len(co.stack) < End(Last(co.frames)) + temps
    /\ Len(co.stack) < co.cap
    /\ Len(co.frames) <= FramesMax /\ Len(co.frames) < co.framecap
    /\ \A j \in 1..Len(co.stack) : co.stack[j].var # 0 <=> IsLocal(co.frames, j)

(* The coroutines that are live, one on top of the other. *)
Activations == Seq([running : Coros, caller : Coros \cup {None}])

ChainOf(cs, top, below) ==
    /\ top \in Coros /\ below \in Activations
    /\ \A k \in 1..Len(below) : below[k].running # top
    /\ \A j, k \in 1..Len(below) : below[j].running = below[k].running => j = k
    /\ \A k \in 1..Len(below) :
          cs[IF k = Len(below) THEN top ELSE below[k + 1].running].caller = below[k].running
    /\ cs[Main].caller = None
    /\ Main = top \/ \E k \in 1..Len(below) : below[k].running = Main
    /\ Shaped(cs[top], MaxTemps)
    /\ \A k \in 1..Len(below) : Shaped(cs[below[k].running], MaxTemps - 1)
    /\ \A c \in Coros : c # top /\ (\A k \in 1..Len(below) : below[k].running # c)
                        => cs[c] = NoCoro

Chained == ChainOf(coro, running, saved)

Stopped == /\ running = None /\ saved = <<>> /\ result \in {"ok", "error", "crash", "astray"}
           /\ coro = [c \in Coros |-> NoCoro]
           /\ upvalues = [u \in Upvalues |-> Free] /\ global = None

IInv == \/ Stopped
        \/ /\ result = "running" /\ Chained
           /\ Typed(coro, upvalues, global) /\ Exact(coro, upvalues)

-----------------------------------------------------------------------------
(* Sequences and sets. *)

(* A set of numbers that is not empty has a least one. *)
LEMMA Smallest ==
    ASSUME NEW T \in SUBSET Nat, T # {}
    PROVE  \E n \in T : \A m \in T : n <= m
<1>1. PICK n \in T : \A m \in T : ~(<<m, n>> \in OpToRel(<, Nat))
  BY WFMin, NatLessThanWellFounded
<1>2. \A m \in T : ~(m < n)
  <2> TAKE m \in T
  <2>1. <<m, n>> \in Nat \X Nat
    OBVIOUS
  <2> QED  BY <1>1, <2>1 DEF OpToRel
<1> QED  BY <1>2

(* So has what Min takes. *)
LEMMA MinIsIn ==
    ASSUME NEW T \in SUBSET Nat, T # {}
    PROVE  Min(T) \in T
  BY Smallest DEF Min

(* What Prefix looks for exists: the numbers up to n are good, n + 1 not. *)
LEMMA LongestPrefix ==
    ASSUME NEW n \in Nat, NEW Good
    PROVE  \E m \in 0..n : /\ \A k \in 1..m : k \in Good
                           /\ m < n => (m + 1) \notin Good
<1> DEFINE T == {m \in 0..n : m < n => (m + 1) \notin Good}
<1>1. T \in SUBSET Nat /\ n \in T
  OBVIOUS
<1>2. PICK m \in T : \A k \in T : m <= k
  <2> HIDE DEF T
  <2> QED  BY <1>1, Smallest
<1>3. \A k \in 1..m : k \in Good
  <2> TAKE k \in 1..m
  <2>1. k - 1 \in 0..n /\ k - 1 < m /\ k - 1 < n /\ (k - 1) + 1 = k
    BY <1>2
  <2> QED  BY <1>2, <2>1
<1> QED  BY <1>2, <1>3

(* What is behind the place of the new element moves by one. *)
LEMMA Inserted ==
    ASSUME NEW S, NEW s \in Seq(S), NEW m \in 1..(Len(s) + 1), NEW e \in S
    PROVE  /\ InsertAt(s, m, e) \in Seq(S)
           /\ Len(InsertAt(s, m, e)) = Len(s) + 1
           /\ \A k \in 1..(m - 1) : InsertAt(s, m, e)[k] = s[k]
           /\ InsertAt(s, m, e)[m] = e
           /\ \A k \in (m + 1)..(Len(s) + 1) : InsertAt(s, m, e)[k] = s[k - 1]
<1> DEFINE n == m - 1
<1>0. n \in 0..Len(s) /\ m = n + 1
  OBVIOUS
<1> HIDE DEF n
<1> DEFINE a == SubSeq(s, 1, n)
           b == SubSeq(s, n + 1, Len(s))
<1>1. InsertAt(s, m, e) = a \o <<e>> \o b
  BY <1>0 DEF InsertAt, n
<1>2. a \in Seq(S) /\ Len(a) = n /\ \A k \in 1..n : a[k] = s[k]
  BY <1>0
<1>3. b \in Seq(S) /\ Len(b) = Len(s) - n /\ \A k \in 1..(Len(s) - n) : b[k] = s[n + k]
  <2>1. \A i \in (n + 1)..Len(s) : s[i] \in S
    BY <1>0
  <2>2. n \in Int /\ n + 1 \in Int /\ Len(s) \in Int /\ n <= Len(s)
    BY <1>0
  <2>3. /\ b \in Seq(S)
        /\ Len(b) = IF n + 1 <= Len(s) THEN Len(s) - (n + 1) + 1 ELSE 0
        /\ \A i \in 1 .. Len(s) - (n + 1) + 1 : b[i] = s[n + 1 + i - 1]
    BY ONLY <2>1, <2>2, SubSeqProperties
  <2> HIDE DEF b
  <2> QED  BY ONLY <2>2, <2>3
<1> HIDE DEF a, b
<1>4. /\ a \o <<e>> \in Seq(S) /\ Len(a \o <<e>>) = n + 1
      /\ \A k \in 1..n : (a \o <<e>>)[k] = s[k]
      /\ (a \o <<e>>)[n + 1] = e
  BY <1>0, <1>2
<1>5. PICK f \in Seq(S) : f = a \o <<e>>
  BY <1>4
<1>6. /\ f \o b \in Seq(S) /\ Len(f \o b) = Len(s) + 1
      /\ \A k \in 1..(n + 1) : (f \o b)[k] = f[k]
      /\ \A k \in (n + 2)..(Len(s) + 1) : (f \o b)[k] = s[k - 1]
  <2>1. Len(f) = n + 1
    BY <1>4, <1>5
  <2>2. \A k \in (n + 2)..(Len(s) + 1) : k - (n + 1) \in 1..Len(b) /\ n + (k - (n + 1)) = k - 1
    BY <1>0, <1>3
  <2>3. /\ f \o b \in Seq(S) /\ Len(f \o b) = Len(f) + Len(b)
        /\ \A k \in 1..(Len(f) + Len(b)) : (f \o b)[k] = IF k <= Len(f) THEN f[k] ELSE b[k - Len(f)]
    BY <1>3, ConcatProperties
  <2>4. Len(f) + Len(b) = Len(s) + 1 /\ Len(s) \in Nat
    BY <1>0, <1>3, <2>1
  <2>5. \A k \in 1..(n + 1) : (f \o b)[k] = f[k]
    BY <1>0, <2>1, <2>3, <2>4
  <2>6. ASSUME NEW k \in (n + 2)..(Len(s) + 1) PROVE (f \o b)[k] = s[k - 1]
    <3>1. PICK j \in 1..Len(b) : j = k - (n + 1) /\ n + j = k - 1
      BY <2>2
    <3>2. (f \o b)[k] = b[j]
      BY <1>0, <2>1, <2>3, <2>4, <3>1
    <3>3. b[j] = s[n + j]
      BY <1>3, <3>1
    <3> QED  BY <3>1, <3>2, <3>3
  <2> QED  BY <2>3, <2>4, <2>5, <2>6
<1>7. n + 1 \in 1..(n + 1) /\ \A k \in 1..n : k \in 1..(n + 1)
  BY <1>0
<1>8. m - 1 = n /\ m + 1 = n + 2 /\ InsertAt(s, m, e) = f \o b
  BY <1>0, <1>1, <1>5
<1>9. \A k \in 1..(n + 1) : f[k] = (a \o <<e>>)[k]
  BY <1>5
<1>10. (\A k \in 1..n : (f \o b)[k] = s[k]) /\ (f \o b)[n + 1] = e
  BY <1>4, <1>6, <1>7, <1>9
<1> QED  BY <1>0, <1>6, <1>8, <1>10

(* Types grow with the set of upvalues in use. *)
LEMMA TypesGrow ==
    ASSUME NEW U, NEW W, U \subseteq W
    PROVE  /\ Cells(U) \subseteq Cells(W) /\ Values(U) \subseteq Values(W)
           /\ SlotOf(U) \subseteq SlotOf(W) /\ FrameOf(U) \subseteq FrameOf(W)
           /\ UpvalueOf(U) \subseteq UpvalueOf(W) /\ CoroOf(U) \subseteq CoroOf(W)
<1>1. Cells(U) \subseteq Cells(W)
  BY DEF Cells
<1>2. Values(U) \subseteq Values(W)
  BY <1>1 DEF Values
<1>3. SlotOf(U) \subseteq SlotOf(W) /\ FrameOf(U) \subseteq FrameOf(W)
  BY <1>1, <1>2 DEF SlotOf, FrameOf
<1>4. UpvalueOf(U) \subseteq UpvalueOf(W)
  BY <1>2 DEF UpvalueOf
<1>5. \A s \in Seq(SlotOf(U)) : s \in Seq(SlotOf(W))
  BY <1>3, SeqMonotonic
<1>6. \A s \in Seq(FrameOf(U)) : s \in Seq(FrameOf(W))
  BY <1>3, SeqMonotonic
<1>7. CoroOf(U) \subseteq CoroOf(W)
  BY <1>5, <1>6 DEF CoroOf
<1> QED  BY <1>1, <1>2, <1>3, <1>4, <1>7

(* One coroutine is replaced, the others stay. *)
LEMMA PutCoro ==
    ASSUME NEW S, NEW cs \in [Coros -> S], NEW c \in Coros, NEW co \in S
    PROVE  /\ [cs EXCEPT ![c] = co] \in [Coros -> S]
           /\ [cs EXCEPT ![c] = co][c] = co
           /\ \A d \in Coros : d # c => [cs EXCEPT ![c] = co][d] = cs[d]
           /\ \A b \in S : [[cs EXCEPT ![c] = co] EXCEPT ![c] = b] = [cs EXCEPT ![c] = b]
OBVIOUS

-----------------------------------------------------------------------------
(* What keeps Exact. *)

(* Where a variable is depends on the stacks alone. *)
LEMMA SameStacks ==
    ASSUME NEW cs, NEW ds, \A d \in Coros : ds[d].stack = cs[d].stack
    PROVE  (OnOneSlot(cs) => OnOneSlot(ds)) /\ \A x : Off(cs, x) => Off(ds, x)
<1>1. ASSUME OnOneSlot(cs) PROVE OnOneSlot(ds)
  <2> SUFFICES ASSUME NEW d \in Coros, NEW e \in Coros,
                      NEW i \in 1..Len(ds[d].stack), NEW j \in 1..Len(ds[e].stack),
                      ds[d].stack[i].var = ds[e].stack[j].var, ds[d].stack[i].var # 0
               PROVE  d = e /\ i = j
    BY DEF OnOneSlot
  <2>1. ds[d].stack = cs[d].stack /\ ds[e].stack = cs[e].stack
    OBVIOUS
  <2>2. i \in 1..Len(cs[d].stack) /\ j \in 1..Len(cs[e].stack)
    BY <2>1
  <2> QED  BY <1>1, <2>1, <2>2 DEF OnOneSlot
<1>2. \A x : Off(cs, x) => Off(ds, x)
  BY DEF Off
<1> QED  BY <1>1, <1>2

(* Slots of a stack that lose their name, keep it or, that at m, get the name
   x; and named slots that stay.                                           *)
SlotsKept(new, old, m, x) ==
    \A i \in 1..Len(new) : \/ new[i].var = 0
                           \/ i <= Len(old) /\ new[i].var = old[i].var
                           \/ i = m /\ new[i].var = x

NamesKept(new, old) ==
    \A i \in 1..Len(old) : old[i].var # 0 => i <= Len(new) /\ new[i].var = old[i].var

IsNew(x, cs, up) == x = 0 \/ (Off(cs, x) /\ \A u \in Upvalues : up[u].var # x)

(* A stack may lose and get nameless slots and get a new variable, at m. *)
LEMMA ExactStack ==
    ASSUME NEW U, NEW cs \in [Coros -> CoroOf(U)], NEW up \in [Upvalues -> UpvalueOf(U)],
           Exact(cs, up),
           NEW c \in Coros, NEW co \in CoroOf(U),
           co.open = cs[c].open, co.block = cs[c].block,
           NEW m \in Nat, NEW x \in 0..MaxVars, IsNew(x, cs, up),
           SlotsKept(co.stack, cs[c].stack, m, x), NamesKept(co.stack, cs[c].stack)
    PROVE  Exact([cs EXCEPT ![c] = co], up)
<1> DEFINE ds == [cs EXCEPT ![c] = co]
<1>1. ds[c] = co /\ \A d \in Coros : d # c => ds[d] = cs[d]
  BY PutCoro
<1> HIDE DEF ds
<1>2. Len(co.stack) \in Nat /\ \A d \in Coros : Len(cs[d].stack) \in Nat
  BY DEF CoroOf
<1>3. \A d \in Coros : Pointed(d, ds[d], up)
  <2> SUFFICES ASSUME NEW d \in Coros
               PROVE  Pointed(d, ds[d], up)
    OBVIOUS
  <2>1. Pointed(d, cs[d], up)
    BY DEF Exact
  <2>2. CASE d = c
    <3>1. ASSUME NEW k \in 1..Len(co.open) PROVE Points(up[co.open[k]], c, co)
      <4>1. Points(up[co.open[k]], c, cs[c])
        BY <2>1, <2>2 DEF Pointed
      <4>3. PICK o : o = up[co.open[k]]
        OBVIOUS
      <4>4. Points(o, c, cs[c]) /\ o.idx <= Len(co.stack)
            /\ co.stack[o.idx].var = cs[c].stack[o.idx].var
        BY <4>1, <4>3 DEF Points, NamesKept
      <4>5. Points(o, c, co)
        BY ONLY <1>2, <4>4, co.block = cs[c].block, c \in Coros DEF Points
      <4> QED  BY <4>3, <4>5
    <3>2. ds[d] = co /\ cs[d].open = co.open
      BY <1>1, <2>2
    <3> QED  BY <2>1, <2>2, <3>1, <3>2, SMTT(30) DEF Pointed
  <2> QED  BY <1>1, <2>1, <2>2
<1>4. \A d \in Coros : \A i \in 1..Len(ds[d].stack) :
         \/ ds[d].stack[i].var = 0
         \/ i \in 1..Len(cs[d].stack) /\ ds[d].stack[i].var = cs[d].stack[i].var
         \/ d = c /\ i = m /\ ds[d].stack[i].var = x
  BY <1>1, <1>2 DEF SlotsKept
<1>7. OnOneSlot(ds)
  <2> SUFFICES ASSUME NEW d \in Coros, NEW e \in Coros,
                      NEW i \in 1..Len(ds[d].stack), NEW j \in 1..Len(ds[e].stack),
                      ds[d].stack[i].var = ds[e].stack[j].var, ds[d].stack[i].var # 0
               PROVE  d = e /\ i = j
    BY DEF OnOneSlot
  <2>1. \/ i \in 1..Len(cs[d].stack) /\ ds[d].stack[i].var = cs[d].stack[i].var
        \/ d = c /\ i = m /\ ds[d].stack[i].var = x
    BY <1>4
  <2>2. \/ j \in 1..Len(cs[e].stack) /\ ds[e].stack[j].var = cs[e].stack[j].var
        \/ e = c /\ j = m /\ ds[e].stack[j].var = x
    BY <1>4
  <2>3. CASE ds[d].stack[i].var = x
    <3>1. Off(cs, x)
      BY <2>3 DEF IsNew
    <3>2. d = c /\ i = m
      BY ONLY <2>1, <2>3, <3>1, d \in Coros DEF Off
    <3>3. e = c /\ j = m
      BY ONLY <2>2, <2>3, <3>1, e \in Coros, ds[d].stack[i].var = ds[e].stack[j].var DEF Off
    <3> QED  BY <3>2, <3>3
  <2>4. CASE ds[d].stack[i].var # x
    <3>1. OnOneSlot(cs)
      BY DEF Exact
    <3> QED
      BY ONLY <2>1, <2>2, <2>4, <3>1, ds[d].stack[i].var = ds[e].stack[j].var,
              ds[d].stack[i].var # 0, d \in Coros, e \in Coros, SMTT(30) DEF OnOneSlot
  <2> QED  BY <2>3, <2>4
<1>5. \A y \in 1..MaxVars : Off(cs, y) /\ y # x => Off(ds, y)
  <2> SUFFICES ASSUME NEW y \in 1..MaxVars, Off(cs, y), y # x,
                      NEW d \in Coros, NEW i \in 1..Len(ds[d].stack)
               PROVE  ds[d].stack[i].var # y
    BY DEF Off
  <2>1. \/ ds[d].stack[i].var = 0 \/ ds[d].stack[i].var = x
        \/ i \in 1..Len(cs[d].stack) /\ ds[d].stack[i].var = cs[d].stack[i].var
    BY <1>4
  <2> QED  BY ONLY <2>1, Off(cs, y), y # x, y \in 1..MaxVars, d \in Coros DEF Off
<1>6. InOneCell(ds, up)
  BY <1>5 DEF Exact, InOneCell, UpvalueOf, IsNew
<1> QED  BY <1>3, <1>6, <1>7 DEF Exact, ds

(* Upvalues of which only what is behind them changes: the block an open one
   points into, with the stack of its coroutine, and the value of a closed
   one.                                                                    *)
MovedWith(c, block, more, up) ==
    \A u \in Upvalues :
        /\ more[u].open = up[u].open /\ more[u].coro = up[u].coro
        /\ more[u].idx = up[u].idx /\ more[u].var = up[u].var
        /\ up[u].var = 0 => more[u] = up[u]
        /\ up[u].open = TRUE => more[u].block = IF up[u].coro = c THEN block ELSE up[u].block

(* The stack may move if the upvalues that point into it move with it
   (jml_obj_coroutine_grow).                                               *)
LEMMA ExactMoved ==
    ASSUME NEW U, NEW cs \in [Coros -> CoroOf(U)], NEW up \in [Upvalues -> UpvalueOf(U)],
           Exact(cs, up),
           NEW c \in Coros, NEW co \in CoroOf(U),
           co.open = cs[c].open, co.stack = cs[c].stack,
           NEW more \in [Upvalues -> UpvalueOf(U)],
           MovedWith(c, co.block, more, up)
    PROVE  Exact([cs EXCEPT ![c] = co], more)
<1> DEFINE ds == [cs EXCEPT ![c] = co]
<1>1. ds[c] = co /\ \A d \in Coros : d # c => ds[d] = cs[d]
  BY PutCoro
<1> HIDE DEF ds
<1> USE DEF MovedWith
<1>2. \A d \in Coros : ds[d].stack = cs[d].stack /\ ds[d].open = cs[d].open
  BY <1>1
<1>3. ASSUME NEW d \in Coros PROVE Pointed(d, ds[d], more)
  <2>1. Pointed(d, cs[d], up) /\ ds[d].open = cs[d].open
    BY <1>2 DEF Exact
  <2>2. ds[d].open \in Seq(Upvalues)
    BY <2>1 DEF CoroOf
  <2>3. ASSUME NEW k \in 1..Len(ds[d].open) PROVE Points(more[ds[d].open[k]], d, ds[d])
    <3>1. PICK u \in Upvalues : u = ds[d].open[k]
      BY <2>2
    <3>2. Points(up[u], d, cs[d])
      BY <2>1, <3>1 DEF Pointed
    <3>3. more[u].block = ds[d].block
      BY <1>1, <3>2 DEF Points
    <3>4. /\ more[u].open = up[u].open /\ more[u].coro = up[u].coro
          /\ more[u].idx = up[u].idx /\ more[u].var = up[u].var
      OBVIOUS
    <3> QED  BY ONLY <1>2, <3>1, <3>2, <3>3, <3>4, d \in Coros DEF Points
  <2>4. \A k \in 1..Len(ds[d].open) : ds[d].open[k] \in Upvalues
    BY <2>2
  <2> QED  BY <2>1, <2>3, <2>4 DEF Pointed
<1>4. OnOneSlot(ds)
  BY <1>2, SameStacks DEF Exact
<1>5. InOneCell(ds, more)
  <2>1. InOneCell(cs, up)
    BY DEF Exact
  <2>2. \A x : Off(cs, x) => Off(ds, x)
    BY <1>2, SameStacks
  <2> QED  BY <2>1, <2>2 DEF InOneCell
<1> QED  BY <1>3, <1>4, <1>5 DEF Exact, ds

(* The upvalues that nobody holds are freed: the open ones are held. *)
LEMMA ExactSettled ==
    ASSUME NEW U, NEW cs \in [Coros -> CoroOf(U)], NEW up \in [Upvalues -> UpvalueOf(U)],
           Exact(cs, up), NEW H,
           \A c \in Coros : \A k \in 1..Len(cs[c].open) : cs[c].open[k] \in H,
           NEW less, less = [u \in Upvalues |-> IF u \in H THEN up[u] ELSE Free]
    PROVE  Exact(cs, less)
<1>1. \A u \in Upvalues : less[u] = up[u] \/ (less[u] = Free /\ u \notin H)
  OBVIOUS
<1>2. \A u \in H : u \in Upvalues => less[u] = up[u]
  OBVIOUS
<1>3. Free.open = FALSE /\ Free.var = 0
  BY DEF Free
<1>4. ASSUME NEW c \in Coros PROVE Pointed(c, cs[c], less)
  <2>1. Pointed(c, cs[c], up)
    BY DEF Exact
  <2>2. \A k \in 1..Len(cs[c].open) : less[cs[c].open[k]] = up[cs[c].open[k]]
    BY <1>2 DEF CoroOf
  <2>3. \A u \in Upvalues : less[u].open = TRUE => less[u] = up[u]
    BY <1>1, <1>3
  <2> QED  BY <2>1, <2>2, <2>3 DEF Pointed
<1>5. InOneCell(cs, less)
  BY <1>1, <1>3 DEF Exact, InOneCell
<1> QED  BY <1>4, <1>5 DEF Exact

(* The stack is cut below `last`, and the open upvalues at `last` or above,
   the first n of the list, are closed: each keeps its variable, which is
   no longer on the stack.                                                 *)
CutTo(new, old, last) ==
    /\ Len(new) < last /\ Len(new) <= Len(old)
    /\ \A i \in 1..Len(new) : new[i].var = old[i].var
    /\ \A i \in 1..Len(old) : Len(new) < i /\ i < last => old[i].var = 0

Closes(n, last, open, rest, more, up) ==
    /\ \A k \in 1..n : up[open[k]].idx >= last
    /\ n < Len(open) => up[open[n + 1]].idx < last
    /\ rest = SubSeq(open, n + 1, Len(open))
    /\ \A k \in 1..n : more[open[k]].open = FALSE /\ more[open[k]].var = up[open[k]].var
    /\ \A u \in Upvalues : (\A k \in 1..n : open[k] # u) => more[u] = up[u]

(* Upvalues may be closed, the first of the list, if the stack keeps the
   names of the slots below and no name at theirs or above.                *)
LEMMA ExactClosed ==
    ASSUME NEW U, NEW cs \in [Coros -> CoroOf(U)], NEW up \in [Upvalues -> UpvalueOf(U)],
           Exact(cs, up),
           NEW c \in Coros, NEW co \in CoroOf(U), NEW last \in Nat, NEW n \in 0..Len(cs[c].open),
           NEW more \in [Upvalues -> UpvalueOf(U)],
           Closes(n, last, cs[c].open, co.open, more, up), co.block = cs[c].block,
           CutTo(co.stack, cs[c].stack, last)
    PROVE  Exact([cs EXCEPT ![c] = co], more)
<1> USE DEF CutTo, Closes
<1> DEFINE ds == [cs EXCEPT ![c] = co]
           open == cs[c].open
<1>1. ds[c] = co /\ \A d \in Coros : d # c => ds[d] = cs[d]
  BY PutCoro
<1> HIDE DEF ds
<1>2. open \in Seq(Upvalues) /\ Len(open) \in Nat /\ Pointed(c, cs[c], up)
  BY DEF Exact, CoroOf
<1>3. Len(co.open) = Len(open) - n /\ \A k \in 1..Len(co.open) : co.open[k] = open[n + k]
  <2>1. \A i \in (n + 1)..Len(open) : open[i] \in Upvalues
    BY <1>2
  <2>2. n \in Int /\ n + 1 \in Int /\ Len(open) \in Int /\ n <= Len(open)
    BY <1>2
  <2>3. /\ Len(SubSeq(open, n + 1, Len(open))) = IF n + 1 <= Len(open) THEN Len(open) - (n + 1) + 1 ELSE 0
        /\ \A i \in 1 .. Len(open) - (n + 1) + 1 : SubSeq(open, n + 1, Len(open))[i] = open[n + 1 + i - 1]
    BY ONLY <2>1, <2>2, SubSeqProperties
  <2> QED  BY ONLY <2>2, <2>3, co.open = SubSeq(open, n + 1, Len(open))
<1> DEFINE at(k) == up[open[k]].idx
<1>4. \A j, k \in 1..Len(open) : j < k => at(k) < at(j)
  BY <1>2 DEF Pointed
<1>5. \A k \in 1..Len(open) : at(k) \in Nat
  <2>1. \A u \in Upvalues : up[u].idx \in Nat
    BY DEF UpvalueOf
  <2>2. \A k \in 1..Len(open) : open[k] \in Upvalues
    BY <1>2
  <2> QED  BY <2>1, <2>2
<1>6. \A k \in 1..Len(open) : k > n => at(k) < last
  <2> SUFFICES ASSUME NEW k \in 1..Len(open), k > n PROVE at(k) < last
    OBVIOUS
  <2> DEFINE m == n + 1
  <2>1. m \in 1..Len(open) /\ (k = m \/ m < k) /\ n < Len(open)
    BY <1>2
  <2>2. at(m) < last
    BY <2>1
  <2>3. k = m \/ at(k) < at(m)
    BY <1>4, <2>1
  <2>4. at(k) \in Nat /\ at(m) \in Nat
    BY <1>5, <2>1
  <2> HIDE DEF m, at
  <2> QED  BY <2>2, <2>3, <2>4
<1>7. \A j, k \in 1..Len(open) : j # k => open[j] # open[k]
  <2> SUFFICES ASSUME NEW j \in 1..Len(open), NEW k \in 1..Len(open), j # k, open[j] = open[k]
               PROVE  FALSE
    OBVIOUS
  <2>1. at(j) = at(k) /\ at(j) \in Nat
    BY <1>5
  <2>2. j < k \/ k < j
    BY <1>2
  <2> HIDE DEF at
  <2> QED  BY <1>4, <2>1, <2>2
<1>8. \A k \in 1..Len(co.open) : co.open[k] \in Upvalues /\ more[co.open[k]] = up[open[n + k]]
  <2> SUFFICES ASSUME NEW k \in 1..Len(co.open)
               PROVE  co.open[k] \in Upvalues /\ more[co.open[k]] = up[open[n + k]]
    OBVIOUS
  <2>1. n + k \in 1..Len(open) /\ co.open[k] = open[n + k]
    BY <1>2, <1>3
  <2>2. open[n + k] \in Upvalues
    BY <1>2, <2>1
  <2>3. \A j \in 1..n : j \in 1..Len(open) /\ j # n + k
    BY <1>2
  <2>4. \A j \in 1..n : open[j] # open[n + k]
    BY <1>7, <2>1, <2>3
  <2> QED  BY <2>1, <2>2, <2>4
<1>9. \A k \in 1..Len(co.open) : Points(more[co.open[k]], c, co)
  <2> SUFFICES ASSUME NEW k \in 1..Len(co.open)
               PROVE  Points(more[co.open[k]], c, co)
    OBVIOUS
  <2>1. n + k \in 1..Len(open) /\ n + k > n
    BY <1>2, <1>3
  <2>2. PICK o : o = up[open[n + k]]
    OBVIOUS
  <2>3. Points(o, c, cs[c]) /\ o.idx < last
    BY <1>2, <1>6, <2>1, <2>2 DEF Pointed
  <2>4. Len(co.stack) \in Nat /\ Len(cs[c].stack) \in Nat
    BY ONLY co \in CoroOf(U), cs \in [Coros -> CoroOf(U)], c \in Coros, SMTT(30) DEF CoroOf
  <2>5. o.idx <= Len(co.stack)
    BY <2>3, <2>4, SMTT(30) DEF Points
  <2>6. o.idx \in 1..Len(co.stack)
    BY <2>3, <2>4, <2>5 DEF Points
  <2>7. co.stack[o.idx].var = cs[c].stack[o.idx].var
    BY <2>6
  <2>8. Points(o, c, co)
    BY ONLY <2>3, <2>6, <2>7, co.block = cs[c].block DEF Points
  <2> QED  BY <1>8, <2>2, <2>8
<1>10. \A j, k \in 1..Len(co.open) : j < k => more[co.open[k]].idx < more[co.open[j]].idx
  <2> SUFFICES ASSUME NEW j \in 1..Len(co.open), NEW k \in 1..Len(co.open), j < k
               PROVE  more[co.open[k]].idx < more[co.open[j]].idx
    OBVIOUS
  <2>1. n + j \in 1..Len(open) /\ n + k \in 1..Len(open) /\ n + j < n + k
    BY <1>2, <1>3
  <2>2. at(n + k) < at(n + j)
    BY <1>4, <2>1
  <2> QED  BY <1>8, <2>2
<1>11. \A u \in Upvalues : \/ more[u] = up[u] /\ \A k \in 1..n : open[k] # u
                           \/ \E k \in 1..n : open[k] = u /\ Points(up[u], c, cs[c])
                                 /\ more[u].open = FALSE /\ more[u].var = up[u].var /\ at(k) >= last
  <2> SUFFICES ASSUME NEW u \in Upvalues, NEW k \in 1..n, open[k] = u
               PROVE  Points(up[u], c, cs[c]) /\ more[u].open = FALSE /\ more[u].var = up[u].var
                      /\ at(k) >= last
    OBVIOUS
  <2>1. k \in 1..Len(open)
    BY <1>2
  <2> QED  BY <1>2, <2>1 DEF Pointed
<1>12. ASSUME NEW u \in Upvalues, more[u].open = TRUE, more[u].coro = c
       PROVE  \E k \in 1..Len(co.open) : co.open[k] = u
  <2>1. more[u] = up[u] /\ \A k \in 1..n : open[k] # u
    BY <1>11, <1>12
  <2>2. PICK k \in 1..Len(open) : open[k] = u
    BY <1>2, <1>12, <2>1 DEF Pointed
  <2>3. k - n \in 1..Len(co.open) /\ n + (k - n) = k
    BY <1>2, <1>3, <2>1, <2>2
  <2>4. co.open[k - n] = open[n + (k - n)]
    BY <1>3, <2>3
  <2> QED  BY <2>2, <2>3, <2>4
<1>13. Pointed(c, co, more)
  BY <1>9, <1>10, <1>12 DEF Pointed
<1>14. ASSUME NEW d \in Coros, d # c PROVE Pointed(d, cs[d], more)
  <2>1. Pointed(d, cs[d], up)
    BY DEF Exact
  <2>2. ASSUME NEW k \in 1..Len(cs[d].open)
        PROVE  cs[d].open[k] \in Upvalues /\ more[cs[d].open[k]] = up[cs[d].open[k]]
    <3>1. cs[d].open[k] \in Upvalues
      <4>1. cs[d].open \in Seq(Upvalues)
        BY DEF CoroOf
      <4> QED  BY <4>1
    <3>2. Points(up[cs[d].open[k]], d, cs[d])
      BY <2>1 DEF Pointed
    <3> QED  BY <1>11, <1>14, <3>1, <3>2 DEF Points
  <2>3. \A u \in Upvalues : more[u].open = TRUE => more[u] = up[u]
    BY <1>11
  <2> QED  BY <2>1, <2>2, <2>3 DEF Pointed
<1>15. \A d \in Coros : \A i \in 1..Len(ds[d].stack) :
          i \in 1..Len(cs[d].stack) /\ ds[d].stack[i].var = cs[d].stack[i].var
  <2> SUFFICES ASSUME NEW d \in Coros, NEW i \in 1..Len(ds[d].stack)
               PROVE  i \in 1..Len(cs[d].stack) /\ ds[d].stack[i].var = cs[d].stack[i].var
    OBVIOUS
  <2>1. CASE d = c
    <3>1. ds[d] = co /\ Len(co.stack) \in Nat /\ Len(cs[c].stack) \in Nat
      BY <1>1, <2>1, SMTT(30) DEF CoroOf
    <3>2. i \in 1..Len(co.stack)
      BY <3>1
    <3>3. co.stack[i].var = cs[c].stack[i].var
      BY <3>2
    <3> QED  BY <2>1, <3>1, <3>2, <3>3
  <2>2. CASE d # c
    BY <1>1, <2>2
  <2> QED  BY <2>1, <2>2
<1>16. OnOneSlot(ds)
  <2>1. OnOneSlot(cs)
    BY DEF Exact
  <2> QED  BY ONLY <1>15, <2>1, SMTT(30) DEF OnOneSlot
<1>17. \A x : Off(cs, x) => Off(ds, x)
  BY ONLY <1>15 DEF Off
<1>18. ASSUME NEW u \in Upvalues, up[u].open = TRUE, more[u].open = FALSE PROVE Off(ds, up[u].var)
  <2>1. PICK k \in 1..n : Points(up[u], c, cs[c]) /\ open[k] = u /\ at(k) >= last
    BY <1>11, <1>18
  <2>2. PICK i \in 1..Len(cs[c].stack) : i >= last /\ cs[c].stack[i].var = up[u].var
    BY <2>1 DEF Points
  <2>3. OnOneSlot(cs) /\ up[u].var # 0
    BY <2>1 DEF Exact, Points
  <2>4. ASSUME NEW d \in Coros, NEW j \in 1..Len(ds[d].stack), ds[d].stack[j].var = up[u].var
        PROVE  FALSE
    <3>1. j \in 1..Len(cs[d].stack) /\ cs[d].stack[j].var = cs[c].stack[i].var
      BY <1>15, <2>2, <2>4
    <3>2. d = c /\ j = i
      BY <2>2, <2>3, <3>1 DEF OnOneSlot
    <3>3. j \in 1..Len(co.stack) /\ Len(co.stack) \in Nat
      BY <1>1, <3>2, SMTT(30) DEF CoroOf
    <3> QED  BY <2>2, <3>2, <3>3
  <2> QED  BY <2>4 DEF Off
<1>19. \A u \in Upvalues : more[u].var = up[u].var /\ (more[u].open = TRUE => more[u] = up[u])
  BY <1>11
<1>20. \A u \in Upvalues : more[u].open = FALSE /\ more[u].var # 0 => Off(ds, more[u].var)
  <2> SUFFICES ASSUME NEW u \in Upvalues, more[u].open = FALSE, more[u].var # 0
               PROVE  Off(ds, up[u].var)
    BY <1>19
  <2>1. CASE up[u].open = TRUE
    BY <1>18, <2>1
  <2>2. CASE up[u].open = FALSE
    BY <1>17, <1>19, <2>2 DEF Exact, InOneCell
  <2> QED  BY <2>1, <2>2 DEF UpvalueOf
<1>21. ASSUME NEW u \in Upvalues, NEW t \in Upvalues, more[u].open = FALSE, more[t].open = FALSE,
              up[u].var = up[t].var, up[u].var # 0
       PROVE  u = t
  <2>1. ASSUME NEW v \in Upvalues, NEW w \in Upvalues, up[v].open = TRUE, up[w].open = FALSE,
               up[v].var = up[w].var, up[v].var # 0
        PROVE  FALSE
    <3>1. Off(cs, up[v].var) /\ up[v].coro \in Coros
      BY <2>1 DEF Exact, InOneCell
    <3>2. PICK k \in 1..Len(cs[up[v].coro].open) : cs[up[v].coro].open[k] = v
      BY <2>1, <3>1 DEF Exact, Pointed
    <3>3. Points(up[v], up[v].coro, cs[up[v].coro])
      BY <3>1, <3>2 DEF Exact, Pointed
    <3> QED  BY <3>1, <3>3 DEF Points, Off
  <2>2. CASE up[u].open = FALSE /\ up[t].open = FALSE
    BY <1>21, <2>2 DEF Exact, InOneCell
  <2>3. CASE up[u].open = TRUE /\ up[t].open = TRUE
    <3>1. PICK k \in 1..n : open[k] = u /\ Points(up[u], c, cs[c])
      BY <1>11, <1>21, <2>3
    <3>2. PICK j \in 1..n : open[j] = t /\ Points(up[t], c, cs[c])
      BY <1>11, <1>21, <2>3
    <3>3. at(k) = at(j)
      <4>1. OnOneSlot(cs)
        BY DEF Exact
      <4> QED  BY <1>21, <3>1, <3>2, <4>1, SMTT(30) DEF Points, OnOneSlot
    <3>4. k \in 1..Len(open) /\ j \in 1..Len(open) /\ (k = j \/ k < j \/ j < k)
      BY <1>2
    <3>5. at(k) \in Nat
      BY <1>5, <3>4
    <3> HIDE DEF at
    <3>6. k = j
      BY <1>4, <3>3, <3>4, <3>5
    <3> QED  BY <3>1, <3>2, <3>6
  <2> QED  BY <1>21, <2>1, <2>2, <2>3 DEF UpvalueOf
<1>22. \A u \in Upvalues : /\ more[u].var = 0 => more[u] = Free
                           /\ more[u].open = TRUE => more[u].coro \in Coros
  <2>1. InOneCell(cs, up)
    BY DEF Exact
  <2>2. \A u \in Upvalues : more[u] = up[u] \/ (more[u].open = FALSE /\ more[u].var # 0)
    BY <1>11, <1>19 DEF Points
  <2> QED  BY <2>1, <2>2 DEF InOneCell
<1>23. InOneCell(ds, more)
  <2>1. ASSUME NEW u \in Upvalues, NEW t \in Upvalues, more[u].open = FALSE, more[t].open = FALSE,
               more[u].var = more[t].var, more[u].var # 0
        PROVE  u = t
    BY <1>19, <1>21, <2>1
  <2> QED  BY ONLY <1>20, <1>22, <2>1 DEF InOneCell
<1> QED  BY <1>1, <1>13, <1>14, <1>16, <1>23 DEF Exact, ds

(* Where in the list an upvalue for the slot `at` goes. *)
PlaceOf(n, at, open, up) ==
    /\ \A k \in 1..n : up[open[k]].idx > at
    /\ n < Len(open) => up[open[n + 1]].idx < at

NotListed(u, cs) == \A d \in Coros : \A k \in 1..Len(cs[d].open) : cs[d].open[k] # u

(* A slot that holds a variable and that no upvalue points at gets one, in
   its place in the list, out of those that no list has.                   *)
LEMMA ExactCaptured ==
    ASSUME NEW U, NEW cs \in [Coros -> CoroOf(U)], NEW up \in [Upvalues -> UpvalueOf(U)],
           Exact(cs, up),
           NEW c \in Coros, NEW co \in CoroOf(U), NEW at \in 1..Len(cs[c].stack),
           cs[c].stack[at].var # 0,
           NEW n \in 0..Len(cs[c].open), PlaceOf(n, at, cs[c].open, up),
           NEW new \in Upvalues, NotListed(new, cs),
           co.open = InsertAt(cs[c].open, n + 1, new), co.block = cs[c].block,
           co.stack = cs[c].stack,
           NEW o, o.open = TRUE, o.coro = c, o.block = co.block, o.idx = at,
           o.var = cs[c].stack[at].var,
           NEW more, more = [up EXCEPT ![new] = o]
    PROVE  Exact([cs EXCEPT ![c] = co], more)
<1> USE DEF PlaceOf, NotListed
<1> DEFINE ds == [cs EXCEPT ![c] = co]
           open == cs[c].open
<1>1. ds[c] = co /\ \A d \in Coros : d # c => ds[d] = cs[d]
  BY PutCoro
<1> HIDE DEF ds
<1>2. open \in Seq(Upvalues) /\ Len(open) \in Nat /\ Pointed(c, cs[c], up)
  BY DEF Exact, CoroOf
<1>3. /\ Len(co.open) = Len(open) + 1
      /\ \A k \in 1..n : co.open[k] = open[k]
      /\ co.open[n + 1] = new
      /\ \A k \in (n + 2)..(Len(open) + 1) : co.open[k] = open[k - 1]
  <2>1. PICK s \in Seq(Upvalues) : s = open
    BY <1>2
  <2>2. PICK m \in 1..(Len(s) + 1) : m = n + 1
    BY <2>1
  <2>3. /\ Len(InsertAt(s, m, new)) = Len(s) + 1
        /\ \A k \in 1..(m - 1) : InsertAt(s, m, new)[k] = s[k]
        /\ InsertAt(s, m, new)[m] = new
        /\ \A k \in (m + 1)..(Len(s) + 1) : InsertAt(s, m, new)[k] = s[k - 1]
    BY Inserted
  <2>4. m - 1 = n /\ m + 1 = n + 2
    BY <2>2
  <2> QED  BY ONLY <2>1, <2>2, <2>3, <2>4, co.open = InsertAt(open, n + 1, new)
<1>4. more[new] = o /\ \A u \in Upvalues : u # new => more[u] = up[u]
  OBVIOUS
<1> DEFINE pos(k) == up[open[k]].idx
<1>5. /\ \A j, k \in 1..Len(open) : j < k => pos(k) < pos(j)
      /\ \A k \in 1..Len(open) : pos(k) \in Nat /\ open[k] \in Upvalues /\ open[k] # new
  <2>1. \A k \in 1..Len(open) : open[k] \in Upvalues
    BY <1>2
  <2>2. \A u \in Upvalues : up[u].idx \in Nat
    BY DEF UpvalueOf
  <2> QED  BY <1>2, <2>1, <2>2 DEF Pointed
<1>6. \A k \in 1..Len(open) : k > n => pos(k) < at
  <2> SUFFICES ASSUME NEW k \in 1..Len(open), k > n PROVE pos(k) < at
    OBVIOUS
  <2> DEFINE m == n + 1
  <2>1. m \in 1..Len(open) /\ (k = m \/ m < k) /\ n < Len(open)
    BY <1>2
  <2>2. pos(m) < at
    BY <2>1
  <2>3. k = m \/ pos(k) < pos(m)
    BY <1>5, <2>1
  <2>4. pos(k) \in Nat /\ pos(m) \in Nat /\ at \in Nat
    BY <1>5, <2>1
  <2> HIDE DEF m, pos
  <2> QED  BY <2>2, <2>3, <2>4
<1> DEFINE from(k) == IF k <= n THEN k ELSE k - 1
<1>7. \A k \in 1..Len(co.open) : \/ k = n + 1 /\ co.open[k] = new
                                 \/ /\ k # n + 1 /\ from(k) \in 1..Len(open)
                                    /\ co.open[k] = open[from(k)] /\ co.open[k] # new
                                    /\ more[co.open[k]] = up[open[from(k)]]
  <2> SUFFICES ASSUME NEW k \in 1..Len(co.open), k # n + 1
               PROVE  /\ from(k) \in 1..Len(open) /\ co.open[k] = open[from(k)]
                      /\ co.open[k] # new /\ more[co.open[k]] = up[open[from(k)]]
    BY <1>3
  <2>1. from(k) \in 1..Len(open) /\ co.open[k] = open[from(k)]
    <3>1. CASE k <= n
      BY <1>2, <1>3, <3>1
    <3>2. CASE k > n
      <4>1. k \in (n + 2)..(Len(open) + 1) /\ k - 1 \in 1..Len(open)
        BY <1>2, <1>3, <3>2, SMTT(30)
      <4> QED  BY <1>3, <3>2, <4>1, SMTT(30)
    <3> QED  BY <1>2, <1>3, <3>1, <3>2
  <2> QED  BY <1>4, <1>5, <2>1
<1>8. Points(o, c, co)
  BY DEF Points
<1>9. \A k \in 1..Len(co.open) : Points(more[co.open[k]], c, co)
  <2> SUFFICES ASSUME NEW k \in 1..Len(co.open), k # n + 1
               PROVE  Points(more[co.open[k]], c, co)
    BY <1>4, <1>7, <1>8
  <2>1. from(k) \in 1..Len(open) /\ more[co.open[k]] = up[open[from(k)]]
    BY <1>7
  <2>2. Points(more[co.open[k]], c, cs[c])
    BY <1>2, <2>1 DEF Pointed
  <2> QED  BY <2>2 DEF Points
<1>10. \A k \in 1..Len(co.open) :
          IF k = n + 1 THEN more[co.open[k]].idx = at
          ELSE from(k) \in 1..Len(open) /\ more[co.open[k]].idx = pos(from(k))
  BY <1>4, <1>7
<1>11. ASSUME NEW j \in 1..Len(co.open), NEW k \in 1..Len(co.open), j < k
       PROVE  more[co.open[k]].idx < more[co.open[j]].idx
  <2>0. \A i \in 1..n : i \in 1..Len(open) /\ pos(i) > at
    BY <1>2
  <2> HIDE DEF pos
  <2>1. CASE j = n + 1
    <3>1. from(k) = k - 1 /\ k - 1 \in 1..Len(open) /\ k - 1 > n /\ k # n + 1
      BY <1>2, <1>3, <1>11, <2>1
    <3> QED  BY <1>6, <1>10, <2>1, <3>1
  <2>2. CASE k = n + 1
    <3>1. from(j) = j /\ j \in 1..n /\ j # n + 1
      BY <1>2, <1>11, <2>2
    <3> QED  BY <1>10, <2>0, <2>2, <3>1
  <2>3. CASE j # n + 1 /\ k # n + 1
    <3>1. from(j) < from(k) /\ from(j) \in 1..Len(open) /\ from(k) \in 1..Len(open)
      BY <1>2, <1>3, <1>11, <2>3, SMTT(30)
    <3> HIDE DEF from
    <3> QED  BY <1>5, <1>10, <2>3, <3>1
  <2> QED  BY <2>1, <2>2, <2>3
<1>12. up[new].open # TRUE
  <2>1. ASSUME up[new].open = TRUE PROVE FALSE
    <3>1. up[new].coro \in Coros
      BY <2>1 DEF Exact, InOneCell
    <3>2. Pointed(up[new].coro, cs[up[new].coro], up)
      BY <3>1 DEF Exact
    <3> QED  BY <2>1, <3>1, <3>2 DEF Pointed
  <2> QED  BY <2>1
<1>13. ASSUME NEW u \in Upvalues, more[u].open = TRUE, more[u].coro = c
       PROVE  \E k \in 1..Len(co.open) : co.open[k] = u
  <2>1. CASE u = new
    <3>1. n + 1 \in 1..Len(co.open)
      BY <1>2, <1>3
    <3> QED  BY <1>3, <2>1, <3>1
  <2>2. CASE u # new
    <3>1. PICK k \in 1..Len(open) : open[k] = u
      BY <1>2, <1>4, <1>13, <2>2 DEF Pointed
    <3>2. CASE k <= n
      <4>1. k \in 1..n /\ k \in 1..Len(co.open)
        BY <1>2, <1>3, <3>2
      <4> QED  BY <1>3, <3>1, <4>1
    <3>3. CASE k > n
      <4>1. k + 1 \in (n + 2)..(Len(open) + 1) /\ k + 1 \in 1..Len(co.open) /\ (k + 1) - 1 = k
        BY <1>2, <1>3, <3>3
      <4>2. co.open[k + 1] = open[k]
        BY <1>3, <4>1
      <4> QED  BY <3>1, <4>1, <4>2
    <3> QED  BY <1>2, <3>2, <3>3
  <2> QED  BY <2>1, <2>2
<1>14. Pointed(c, co, more)
  BY <1>9, <1>11, <1>13 DEF Pointed
<1>15. ASSUME NEW d \in Coros, d # c PROVE Pointed(d, cs[d], more)
  <2>1. Pointed(d, cs[d], up) /\ cs[d].open \in Seq(Upvalues)
    BY DEF Exact, CoroOf
  <2>2. \A k \in 1..Len(cs[d].open) : more[cs[d].open[k]] = up[cs[d].open[k]]
    BY <1>4, <2>1
  <2>3. \A u \in Upvalues : more[u].open = TRUE /\ more[u].coro = d => more[u] = up[u]
    BY <1>4, <1>15
  <2> QED  BY <2>1, <2>2, <2>3 DEF Pointed
<1>16. \A d \in Coros : ds[d].stack = cs[d].stack
  BY <1>1
<1>17. OnOneSlot(ds) /\ \A x : Off(cs, x) => Off(ds, x)
  BY <1>16, SameStacks DEF Exact
<1>18. InOneCell(ds, more)
  <2>1. InOneCell(cs, up)
    BY DEF Exact
  <2>2. \A u \in Upvalues : more[u].open = FALSE \/ more[u].var = 0 => more[u] = up[u]
    BY <1>4
  <2>3. \A u \in Upvalues : more[u].open = TRUE => up[u] = more[u] \/ more[u].coro = c
    BY <1>4
  <2> QED  BY ONLY <1>17, <2>1, <2>2, <2>3, c \in Coros DEF InOneCell
<1> QED  BY <1>1, <1>14, <1>15, <1>17, <1>18 DEF Exact, ds

-----------------------------------------------------------------------------
(* What an instruction does to the running coroutine and the upvalues. *)

Worlds(U) == [co : CoroOf(U), up : [Upvalues -> UpvalueOf(U)], ok : BOOLEAN]

(* w fits the state: c has w.co in it, the others are those of cs. *)
Fits(cs, c, w, g) ==
    /\ w \in Worlds(Used(w.up)) /\ cs \in [Coros -> CoroOf(Used(w.up))]
    /\ g \in Values(Used(w.up)) /\ Exact([cs EXCEPT ![c] = w.co], w.up)

(* The same stack, frames and list, the same upvalues but for their block. *)
Alike(v, w) ==
    /\ v.co.frames = w.co.frames /\ v.co.framecap = w.co.framecap
    /\ v.co.open = w.co.open /\ v.co.caller = w.co.caller
    /\ \A u \in Upvalues : /\ v.up[u].open = w.up[u].open /\ v.up[u].coro = w.up[u].coro
                           /\ v.up[u].idx = w.up[u].idx /\ v.up[u].var = w.up[u].var
                           /\ v.up[u].val = w.up[u].val

(* jml_obj_coroutine_grow moves the block and nothing else. *)
LEMMA GrowEffect ==
    ASSUME NEW U, NEW w \in Worlds(U)
    PROVE  \/ /\ Grow(w) = [w EXCEPT !.ok = FALSE]
           \/ /\ Grow(w) \in Worlds(U) /\ Grow(w).ok = w.ok
              /\ Alike(Grow(w), w) /\ Grow(w).co.stack = w.co.stack
              /\ Grow(w).co.cap = 2 * w.co.cap /\ Grow(w).co.block = w.co.block + 1
              /\ \A u \in Upvalues :
                    Grow(w).up[u] = IF \E k \in 1..Len(w.co.open) : w.co.open[k] = u
                                    THEN [w.up[u] EXCEPT !.block = w.co.block + 1] ELSE w.up[u]
<1> DEFINE moved == [u \in Upvalues |-> IF \E k \in 1..Len(w.co.open) : w.co.open[k] = u
                                        THEN [w.up[u] EXCEPT !.block = w.co.block + 1] ELSE w.up[u]]
           big == [w.co EXCEPT !.cap = 2 * w.co.cap, !.block = w.co.block + 1]
<1> SUFFICES ASSUME ~(2 * w.co.cap >= StackMax)
             PROVE  /\ Grow(w) \in Worlds(U) /\ Grow(w).ok = w.ok
                    /\ Alike(Grow(w), w) /\ Grow(w).co.stack = w.co.stack
                    /\ Grow(w).co.cap = 2 * w.co.cap /\ Grow(w).co.block = w.co.block + 1
                    /\ \A u \in Upvalues : Grow(w).up[u] = moved[u]
  BY DEF Grow, GrowWith
<1>1. Grow(w) = [w EXCEPT !.co = big, !.up = moved]
  BY DEF Grow, GrowWith, Contains, Worlds, CoroOf
<1>2. /\ big \in CoroOf(U) /\ big.stack = w.co.stack /\ big.frames = w.co.frames
      /\ big.framecap = w.co.framecap /\ big.open = w.co.open /\ big.caller = w.co.caller
  <2>1. PICK co \in CoroOf(U) : co = w.co
    BY DEF Worlds
  <2>2. PICK m \in Nat, b \in Nat : m = 2 * co.cap /\ b = co.block + 1
    BY DEF CoroOf
  <2>3. big = [co EXCEPT !.cap = m, !.block = b]
    BY <2>1, <2>2
  <2> HIDE DEF big
  <2> QED  BY ONLY <2>1, <2>3, co \in CoroOf(U), m \in Nat, b \in Nat DEF CoroOf
<1>3. \A u \in Upvalues : /\ moved[u] \in UpvalueOf(U)
                          /\ moved[u].open = w.up[u].open /\ moved[u].coro = w.up[u].coro
                          /\ moved[u].idx = w.up[u].idx /\ moved[u].var = w.up[u].var
                          /\ moved[u].val = w.up[u].val
  <2> TAKE u \in Upvalues
  <2>1. PICK o \in UpvalueOf(U) : o = w.up[u]
    BY DEF Worlds
  <2>2. PICK b \in Nat : b = w.co.block + 1
    BY DEF Worlds, CoroOf
  <2>3. PICK p : p = [o EXCEPT !.block = b]
    OBVIOUS
  <2>4. /\ p \in UpvalueOf(U) /\ p.open = o.open /\ p.coro = o.coro
        /\ p.idx = o.idx /\ p.var = o.var /\ p.val = o.val
    BY <2>3 DEF UpvalueOf
  <2>5. moved[u] = o \/ moved[u] = p
    BY <2>1, <2>2, <2>3
  <2> HIDE DEF moved
  <2> QED  BY <2>1, <2>4, <2>5
<1>4. big.cap = 2 * w.co.cap /\ big.block = w.co.block + 1
  BY DEF Worlds, CoroOf
<1>5. moved \in [Upvalues -> UpvalueOf(U)]
  BY <1>3
<1> HIDE DEF big, moved
<1> QED  BY <1>1, <1>2, <1>3, <1>4, <1>5, ZenonT(30) DEF Worlds, Alike

(* jml_vm_push: one more slot, on a stack that has a free one left. *)
LEMMA PushEffect ==
    ASSUME NEW U, NEW w \in Worlds(U), NEW s \in SlotOf(U)
    PROVE  /\ Push(w, s) \in Worlds(U) /\ Alike(Push(w, s), w)
           /\ Push(w, s).co.stack = Append(w.co.stack, s)
           /\ Push(w, s).ok = TRUE => w.ok = TRUE
           /\ Push(w, s).ok = TRUE /\ Len(w.co.stack) < w.co.cap
              => Len(w.co.stack) + 1 < Push(w, s).co.cap
<1> DEFINE v == IF Len(w.co.stack) + 1 >= w.co.cap THEN Grow(w) ELSE w
           p == [v EXCEPT !.co = [v.co EXCEPT !.stack = Append(w.co.stack, s)]]
<1>1. /\ v \in Worlds(U) /\ Alike(v, w) /\ v.co.stack = w.co.stack
      /\ v.ok = TRUE => w.ok = TRUE
      /\ v.ok = TRUE /\ Len(w.co.stack) < w.co.cap => Len(w.co.stack) + 1 < v.co.cap
  <2>0. w.co.cap \in Nat /\ Len(w.co.stack) \in Nat
    BY DEF Worlds, CoroOf
  <2>1. CASE Len(w.co.stack) + 1 >= w.co.cap
    <3>1. v = Grow(w)
      BY <2>1
    <3> HIDE DEF v
    <3>2. CASE Grow(w) = [w EXCEPT !.ok = FALSE]
      <4>1. v \in Worlds(U) /\ v.co = w.co /\ v.up = w.up /\ v.ok = FALSE
        BY <3>1, <3>2 DEF Worlds
      <4> QED  BY <4>1 DEF Alike
    <3>3. CASE Grow(w) # [w EXCEPT !.ok = FALSE]
      <4>1. /\ Grow(w) \in Worlds(U) /\ Grow(w).ok = w.ok
            /\ Alike(Grow(w), w) /\ Grow(w).co.stack = w.co.stack
            /\ Grow(w).co.cap = 2 * w.co.cap
        BY <3>3, GrowEffect
      <4>2. ASSUME NEW n \in Nat, NEW m \in Nat, n < m PROVE n + 1 < 2 * m
        BY <4>2
      <4> QED  BY <2>0, <3>1, <4>1, <4>2
    <3> QED  BY <3>2, <3>3
  <2>2. CASE ~(Len(w.co.stack) + 1 >= w.co.cap)
    BY <2>0, <2>2 DEF Alike
  <2> QED  BY <2>1, <2>2
<1>2. Push(w, s) = p
  BY <1>1 DEF Push, Worlds, CoroOf
<1> HIDE DEF v
<1>3. PICK x \in Seq(SlotOf(U)) : x = Append(w.co.stack, s)
  <2>1. w.co.stack \in Seq(SlotOf(U))
    BY DEF Worlds, CoroOf
  <2>2. Append(w.co.stack, s) \in Seq(SlotOf(U))
    BY <2>1, AppendProperties
  <2> QED  BY <2>2
<1>4. PICK q : q = [v.co EXCEPT !.stack = x]
  OBVIOUS
<1>5. /\ q \in CoroOf(U) /\ q.stack = x /\ q.cap = v.co.cap /\ q.frames = v.co.frames
      /\ q.framecap = v.co.framecap /\ q.open = v.co.open /\ q.caller = v.co.caller
  BY <1>1, <1>4 DEF Worlds, CoroOf
<1>6. p = [v EXCEPT !.co = q]
  BY <1>3, <1>4
<1> HIDE DEF p
<1>7. p \in Worlds(U) /\ p.co = q /\ p.up = v.up /\ p.ok = v.ok
  BY <1>1, <1>5, <1>6 DEF Worlds
<1>8. Alike(p, w)
  BY <1>1, <1>5, <1>7 DEF Alike
<1> QED  BY <1>1, <1>2, <1>3, <1>5, <1>7, <1>8

(* Slots that lose or get no name, but for the one at m, which gets a new
   one.                                                                    *)
LEMMA StackFits ==
    ASSUME NEW cs, NEW c \in Coros, NEW w, NEW g, Fits(cs, c, w, g),
           NEW v \in Worlds(Used(w.up)), v.up = w.up,
           v.co.open = w.co.open, v.co.block = w.co.block,
           NEW m \in Nat, NEW x \in 0..MaxVars, IsNew(x, [cs EXCEPT ![c] = w.co], w.up),
           SlotsKept(v.co.stack, w.co.stack, m, x), NamesKept(v.co.stack, w.co.stack)
    PROVE  Fits(cs, c, v, g)
<1> DEFINE ds == [cs EXCEPT ![c] = w.co]
           U == Used(w.up)
<1>0. w \in Worlds(U) /\ w.co \in CoroOf(U) /\ w.up \in [Upvalues -> UpvalueOf(U)] /\ v.co \in CoroOf(U)
      /\ cs \in [Coros -> CoroOf(U)] /\ Exact(ds, w.up)
  BY DEF Fits, Worlds
<1> HIDE DEF U
<1>1. ds \in [Coros -> CoroOf(U)] /\ ds[c] = w.co
      /\ [ds EXCEPT ![c] = v.co] = [cs EXCEPT ![c] = v.co]
  BY <1>0, PutCoro
<1>2. Exact([ds EXCEPT ![c] = v.co], w.up)
  <2>1. v.co.open = ds[c].open /\ v.co.block = ds[c].block /\ IsNew(x, ds, w.up)
        /\ SlotsKept(v.co.stack, ds[c].stack, m, x) /\ NamesKept(v.co.stack, ds[c].stack)
    BY <1>1
  <2> HIDE DEF ds
  <2> QED  BY <1>0, <1>1, <2>1, ExactStack
<1> QED  BY <1>0, <1>1, <1>2 DEF Fits, U

(* What is pushed is a new slot; those below stay. *)
LEMMA AppendKeeps ==
    ASSUME NEW S, NEW t \in Seq(S), NEW s \in S
    PROVE  SlotsKept(Append(t, s), t, Len(t) + 1, s.var) /\ NamesKept(Append(t, s), t)
<1>1. PICK a \in Seq(S) : a = Append(t, s)
  <2>1. Append(t, s) \in Seq(S)
    BY AppendProperties
  <2> QED  BY <2>1
<1>2. /\ Len(a) = Len(t) + 1 /\ a[Len(t) + 1] = s
      /\ \A i \in 1..Len(t) : a[i] = t[i]
  BY <1>1
<1>3. Len(t) \in Nat
  OBVIOUS
<1>4. \A i \in 1..Len(a) : i \in 1..Len(t) \/ i = Len(t) + 1
  BY <1>2, <1>3
<1>5. \A i \in 1..Len(t) : i <= Len(a) /\ i <= Len(t)
  BY <1>2, <1>3
<1> QED  BY ONLY <1>1, <1>2, <1>4, <1>5 DEF SlotsKept, NamesKept

(* A world that grew fits as well as before. *)
LEMMA GrowFits ==
    ASSUME NEW cs, NEW c \in Coros, NEW w, NEW g, Fits(cs, c, w, g),
           NEW v, v = w \/ v = Grow(w)
    PROVE  /\ v \in Worlds(Used(w.up)) /\ Fits(cs, c, v, g) /\ v.co.stack = w.co.stack
           /\ Used(v.up) = Used(w.up)
           /\ \A x : IsNew(x, [cs EXCEPT ![c] = w.co], w.up) => IsNew(x, [cs EXCEPT ![c] = v.co], v.up)
<1> DEFINE U == Used(w.up)
<1>1. w \in Worlds(U) /\ cs \in [Coros -> CoroOf(U)]
  BY DEF Fits
<1> HIDE DEF U
<1>3. v \in Worlds(U) /\ Fits(cs, c, v, g) /\ v.co.stack = w.co.stack /\ Used(v.up) = U
      /\ \A x : IsNew(x, [cs EXCEPT ![c] = w.co], w.up) => IsNew(x, [cs EXCEPT ![c] = v.co], v.up)
  <2>1. CASE v = w
    BY <1>1, <2>1 DEF U
  <2>2. CASE v = [w EXCEPT !.ok = FALSE]
    <3>1. v \in Worlds(U) /\ v.co = w.co /\ v.up = w.up
      BY <1>1, <2>2 DEF Worlds
    <3> QED  BY <2>2, <3>1 DEF Fits, U
  <2>3. CASE v # w /\ v # [w EXCEPT !.ok = FALSE]
    <3>1. /\ v \in Worlds(U) /\ Alike(v, w) /\ v.co.stack = w.co.stack
          /\ v.co.block = w.co.block + 1
          /\ \A u \in Upvalues :
                    v.up[u] = IF \E k \in 1..Len(w.co.open) : w.co.open[k] = u
                              THEN [w.up[u] EXCEPT !.block = w.co.block + 1] ELSE w.up[u]
      BY <1>1, <2>3, GrowEffect DEF U
    <3> DEFINE ds == [cs EXCEPT ![c] = w.co]
    <3>2. ds \in [Coros -> CoroOf(U)] /\ ds[c] = w.co /\ w.co \in CoroOf(U) /\ v.co \in CoroOf(U)
          /\ [ds EXCEPT ![c] = v.co] = [cs EXCEPT ![c] = v.co]
      BY <1>1, <3>1, PutCoro DEF Worlds
    <3>3. Exact(ds, w.up) /\ Pointed(c, w.co, w.up)
      BY <3>2 DEF Fits, Exact
    <3> HIDE DEF ds
    <3>4. \A u \in Upvalues : /\ v.up[u].open = w.up[u].open /\ v.up[u].coro = w.up[u].coro
                              /\ v.up[u].idx = w.up[u].idx /\ v.up[u].var = w.up[u].var
      BY <3>1 DEF Alike
    <3>5. w.up \in [Upvalues -> UpvalueOf(U)] /\ v.up \in [Upvalues -> UpvalueOf(U)]
      BY <1>1, <3>1 DEF Worlds
    <3>6. ASSUME NEW u \in Upvalues, \A k \in 1..Len(w.co.open) : w.co.open[k] # u
          PROVE  v.up[u] = w.up[u]
      BY <3>1, <3>6
    <3>7. ASSUME NEW u \in Upvalues, w.up[u].var = 0 PROVE v.up[u] = w.up[u]
      <4>1. \A k \in 1..Len(w.co.open) : w.co.open[k] # u
        BY <3>3, <3>7 DEF Pointed, Points
      <4> QED  BY <3>6, <4>1
    <3>8. ASSUME NEW u \in Upvalues, w.up[u].open = TRUE, w.up[u].coro # c
          PROVE  v.up[u].block = w.up[u].block
      <4>1. \A k \in 1..Len(w.co.open) : w.co.open[k] # u
        BY <3>3, <3>8 DEF Pointed, Points
      <4> QED  BY <3>6, <4>1
    <3>9. ASSUME NEW u \in Upvalues, w.up[u].open = TRUE, w.up[u].coro = c
          PROVE  v.up[u].block = v.co.block
      <4>1. \E k \in 1..Len(w.co.open) : w.co.open[k] = u
        BY <3>3, <3>9 DEF Pointed
      <4>2. v.up[u] = [w.up[u] EXCEPT !.block = w.co.block + 1]
        BY <3>1, <4>1
      <4> QED  BY <3>1, <3>5, <4>2 DEF UpvalueOf
    <3>10. v.co.open = ds[c].open /\ v.co.stack = ds[c].stack
      BY <3>1, <3>2 DEF Alike
    <3>11. Exact([ds EXCEPT ![c] = v.co], v.up)
      <4>1. MovedWith(c, v.co.block, v.up, w.up)
        BY <3>4, <3>7, <3>8, <3>9 DEF MovedWith
      <4> QED  BY <3>2, <3>3, <3>5, <3>10, <4>1, ExactMoved
    <3>12. Used(v.up) = U
      BY <3>4 DEF Used, U
    <3>13. ASSUME NEW x, IsNew(x, [cs EXCEPT ![c] = w.co], w.up) PROVE IsNew(x, [cs EXCEPT ![c] = v.co], v.up)
      <4>1. IsNew(x, ds, w.up)
        BY <3>13 DEF ds
      <4>2. \A d \in Coros : [cs EXCEPT ![c] = v.co][d].stack = ds[d].stack
        BY <1>1, <3>2, <3>10 DEF ds
      <4> QED  BY <3>4, <4>1, <4>2, SameStacks DEF IsNew
    <3> QED  BY <1>1, <3>1, <3>2, <3>11, <3>12, <3>13 DEF Fits, U
  <2> QED  BY <2>1, <2>2, <2>3
<1> QED  BY <1>3 DEF U

(* jml_vm_push: the stack may have moved; the slot is nameless or new. *)
LEMMA PushFits ==
    ASSUME NEW cs, NEW c \in Coros, NEW w, NEW g, Fits(cs, c, w, g),
           NEW s \in SlotOf(Used(w.up)), IsNew(s.var, [cs EXCEPT ![c] = w.co], w.up)
    PROVE  Fits(cs, c, Push(w, s), g) /\ Used(Push(w, s).up) = Used(w.up)
<1> DEFINE U == Used(w.up)
           v == IF Len(w.co.stack) + 1 >= w.co.cap THEN Grow(w) ELSE w
           p == Push(w, s)
<1>1. w \in Worlds(U) /\ s \in SlotOf(U) /\ cs \in [Coros -> CoroOf(U)]
  BY DEF Fits
<1> HIDE DEF U
<1>2. /\ p \in Worlds(U) /\ Alike(p, w) /\ p.co.stack = Append(w.co.stack, s)
  BY <1>1, PushEffect
<1>3. v \in Worlds(U) /\ Fits(cs, c, v, g) /\ v.co.stack = w.co.stack /\ Used(v.up) = U
      /\ IsNew(s.var, [cs EXCEPT ![c] = v.co], v.up)
  <2>1. v = w \/ v = Grow(w)
    OBVIOUS
  <2> HIDE DEF v
  <2>2. /\ v \in Worlds(Used(w.up)) /\ Fits(cs, c, v, g) /\ v.co.stack = w.co.stack
        /\ Used(v.up) = Used(w.up)
        /\ \A x : IsNew(x, [cs EXCEPT ![c] = w.co], w.up) => IsNew(x, [cs EXCEPT ![c] = v.co], v.up)
    BY <2>1, GrowFits
  <2>3. IsNew(s.var, [cs EXCEPT ![c] = v.co], v.up)
    BY <2>2
  <2> QED  BY <2>2, <2>3 DEF U
<1>4. p.up = v.up /\ p.co.open = v.co.open /\ p.co.block = v.co.block
  <2> HIDE DEF v
  <2>1. p = [v EXCEPT !.co.stack = Append(@, s)]
    BY DEF Push, v
  <2> HIDE DEF p
  <2> QED  BY <1>3, <2>1 DEF Worlds, CoroOf
<1> HIDE DEF v, p
<1>5. s.var \in 0..MaxVars /\ Len(w.co.stack) \in Nat /\ w.co.stack \in Seq(SlotOf(U))
  BY <1>1 DEF SlotOf, Worlds, CoroOf
<1>7. SlotsKept(p.co.stack, v.co.stack, Len(v.co.stack) + 1, s.var) /\ NamesKept(p.co.stack, v.co.stack)
  BY <1>1, <1>2, <1>3, <1>5, AppendKeeps
<1>8. Fits(cs, c, p, g)
  <2>1. PICK m \in Nat, x \in 0..MaxVars : m = Len(v.co.stack) + 1 /\ x = s.var
    BY <1>3, <1>5
  <2> QED  BY <1>2, <1>3, <1>4, <1>7, <2>1, StackFits
<1> QED  BY <1>3, <1>4, <1>8 DEF p, U

(* jml_vm_upvalue_close: the first n of the list are closed. *)
ClosedFirst(n, v, w, last) ==
    /\ \A k \in 1..n : w.up[w.co.open[k]].idx >= last
    /\ n < Len(w.co.open) => w.up[w.co.open[n + 1]].idx < last
    /\ v.co = [w.co EXCEPT !.open = SubSeq(w.co.open, n + 1, Len(w.co.open))]
    /\ v.ok = w.ok
    /\ \A u \in Upvalues : v.up[u] = IF u \in {w.co.open[k] : k \in 1..n} THEN Shut(w, u) ELSE w.up[u]
    /\ \A u \in {w.co.open[k] : k \in 1..n} :
          /\ u \in Upvalues /\ Shut(w, u).open = FALSE /\ Shut(w, u).var = w.up[u].var
          /\ Shut(w, u).val = w.co.stack[w.up[u].idx].val
    /\ Used(v.up) = Used(w.up)

(* jml_vm_upvalue_close closes the first upvalues of the list and no others. *)
LEMMA CloseEffect ==
    ASSUME NEW U, NEW w \in Worlds(U), NEW c, Pointed(c, w.co, w.up), U = Used(w.up),
           NEW last \in Nat
    PROVE  /\ Close(w, last) \in Worlds(U)
           /\ \E n \in 0..Len(w.co.open) : ClosedFirst(n, Close(w, last), w, last)
<1> DEFINE open == w.co.open
           L == Len(open)
           fits(m) == /\ \A k \in 1..m : w.up[open[k]].idx >= last
                      /\ m < L => ~(w.up[open[m + 1]].idx >= last)
           n == CHOOSE m \in 0..L : fits(m)
           closed == {open[k] : k \in 1..n}
           rest == SubSeq(open, n + 1, L)
           less == [u \in Upvalues |-> IF u \in closed THEN Shut(w, u) ELSE w.up[u]]
<1>1. open \in Seq(Upvalues) /\ L \in Nat
  BY DEF Worlds, CoroOf
<1>2. n \in 0..L /\ fits(n)
  <2>1. \E m \in 0..L : /\ \A k \in 1..m : k \in {i \in 1..L : w.up[open[i]].idx >= last}
                        /\ m < L => (m + 1) \notin {i \in 1..L : w.up[open[i]].idx >= last}
    <3> HIDE DEF open, L
    <3> QED  BY <1>1, LongestPrefix
  <2>2. \E m \in 0..L : fits(m)
    <3>1. PICK m \in 0..L : /\ \A k \in 1..m : k \in {i \in 1..L : w.up[open[i]].idx >= last}
                            /\ m < L => (m + 1) \notin {i \in 1..L : w.up[open[i]].idx >= last}
      BY <2>1
    <3>2. m < L => m + 1 \in 1..L
      BY <1>1
    <3> QED  BY <3>1, <3>2
  <2> QED  BY <2>2
<1>3. Close(w, last) = [w EXCEPT !.co.open = rest, !.up = less]
  BY DEF Close, Prefix, Worlds
<1> HIDE DEF n
<1>4. rest \in Seq(Upvalues)
  <2>1. \A i \in (n + 1)..L : open[i] \in Upvalues
    BY <1>1, <1>2
  <2>2. n + 1 \in Int /\ L \in Int
    BY <1>1, <1>2
  <2> HIDE DEF open, L
  <2> QED  BY <2>1, <2>2, SubSeqProperties
<1>5. w.up \in [Upvalues -> UpvalueOf(U)] /\ w.co.stack \in Seq(SlotOf(U)) /\ w.co \in CoroOf(U)
  BY DEF Worlds, CoroOf
<1>6. ASSUME NEW u \in closed
      PROVE  /\ u \in Upvalues /\ Shut(w, u) \in UpvalueOf(U)
             /\ Shut(w, u).open = FALSE /\ Shut(w, u).var = w.up[u].var /\ w.up[u].var # 0
             /\ Shut(w, u).val = w.co.stack[w.up[u].idx].val
  <2>1. PICK k \in 1..L : u = open[k]
    BY <1>1, <1>2
  <2>2. u \in Upvalues
    BY <1>1, <2>1
  <2>3. Points(w.up[u], c, w.co)
    BY <2>1 DEF Pointed
  <2>4. w.co.stack[w.up[u].idx] \in SlotOf(U)
    BY <1>5, <2>3 DEF Points
  <2>5. PICK v \in Values(U), x \in 0..MaxVars : v = w.co.stack[w.up[u].idx].val /\ x = w.up[u].var
    BY <1>5, <2>2, <2>4 DEF SlotOf, UpvalueOf
  <2>6. Shut(w, u) = [Free EXCEPT !.val = v, !.var = x]
    BY <2>5 DEF Shut
  <2>7. PICK p : p = [Free EXCEPT !.val = v, !.var = x]
    OBVIOUS
  <2>8. p \in UpvalueOf(U) /\ p.open = FALSE /\ p.var = x /\ p.val = v
    BY <2>7 DEF Free, UpvalueOf
  <2> QED  BY <2>2, <2>3, <2>5, <2>6, <2>7, <2>8 DEF Points
<1> HIDE DEF closed
<1>7. less \in [Upvalues -> UpvalueOf(U)]
  BY <1>5, <1>6
<1>8. \A u \in Upvalues : less[u].var = w.up[u].var
  BY <1>6
<1>9. [w.co EXCEPT !.open = rest] \in CoroOf(U)
  <2> HIDE DEF rest
  <2> QED  BY <1>4, <1>5 DEF CoroOf
<1> DEFINE co == [w.co EXCEPT !.open = rest]
<1>10. Close(w, last) = [w EXCEPT !.co = co, !.up = less]
  BY <1>3
<1> HIDE DEF less, co
<1>11. Close(w, last) \in Worlds(U) /\ Close(w, last).co = co /\ Close(w, last).up = less
       /\ Close(w, last).ok = w.ok
  BY <1>7, <1>9, <1>10 DEF Worlds, co
<1>12. Used(less) = U
  BY <1>8 DEF Used
<1>13. /\ \A k \in 1..n : w.up[open[k]].idx >= last
       /\ n < L => w.up[open[n + 1]].idx < last
  <2>1. n < L => w.up[open[n + 1]].idx \in Nat
    <3>1. n < L => open[n + 1] \in Upvalues
      BY <1>1, <1>2
    <3> QED  BY <1>5, <3>1 DEF UpvalueOf
  <2> QED  BY <1>2, <2>1
<1>14. ClosedFirst(n, Close(w, last), w, last)
  BY <1>6, <1>11, <1>12, <1>13 DEF less, co, closed, ClosedFirst
<1> QED  BY <1>2, <1>11, <1>14

(* So it fits, once the slots it closed have lost their names. *)
LEMMA CloseFits ==
    ASSUME NEW cs, NEW c \in Coros, NEW w, NEW g, Fits(cs, c, w, g), NEW last \in Nat,
           NEW v \in Worlds(Used(w.up)),
           v.up = Close(w, last).up, v.co.open = Close(w, last).co.open, v.co.block = w.co.block,
           CutTo(v.co.stack, w.co.stack, last)
    PROVE  Fits(cs, c, v, g)
<1> DEFINE ds == [cs EXCEPT ![c] = w.co]
           U == Used(w.up)
<1>1. /\ w \in Worlds(U) /\ w.co \in CoroOf(U) /\ w.up \in [Upvalues -> UpvalueOf(U)]
      /\ v.co \in CoroOf(U) /\ v.up \in [Upvalues -> UpvalueOf(U)]
      /\ cs \in [Coros -> CoroOf(U)] /\ Exact(ds, w.up)
  BY DEF Fits, Worlds
<1>2. ds \in [Coros -> CoroOf(U)] /\ ds[c] = w.co
      /\ [ds EXCEPT ![c] = v.co] = [cs EXCEPT ![c] = v.co]
  BY <1>1, PutCoro
<1>3. Pointed(c, w.co, w.up)
  BY <1>1, <1>2 DEF Exact
<1> HIDE DEF ds
<1>4. PICK n \in 0..Len(w.co.open) : ClosedFirst(n, Close(w, last), w, last)
  BY <1>1, <1>3, CloseEffect
<1> HIDE DEF U
<1>5. v.co.open = SubSeq(w.co.open, n + 1, Len(w.co.open))
  BY <1>1, <1>4 DEF CoroOf, ClosedFirst
<1>6. ASSUME NEW k \in 1..n
      PROVE  v.up[w.co.open[k]].open = FALSE /\ v.up[w.co.open[k]].var = w.up[w.co.open[k]].var
  <2>1. PICK u : u = w.co.open[k]
    OBVIOUS
  <2>2. u \in {w.co.open[j] : j \in 1..n}
    BY <2>1
  <2>3. u \in Upvalues /\ Shut(w, u).open = FALSE /\ Shut(w, u).var = w.up[u].var
    BY <1>4, <2>2 DEF ClosedFirst
  <2>4. v.up[u] = Shut(w, u)
    BY <1>4, <2>2, <2>3 DEF ClosedFirst
  <2> QED  BY <2>1, <2>3, <2>4
<1>7. ASSUME NEW u \in Upvalues, \A k \in 1..n : w.co.open[k] # u PROVE v.up[u] = w.up[u]
  BY <1>4, <1>7 DEF ClosedFirst
<1>8. Closes(n, last, ds[c].open, v.co.open, v.up, w.up)
  <2>1. Closes(n, last, w.co.open, v.co.open, v.up, w.up)
    BY ONLY <1>4, <1>5, <1>6, <1>7 DEF Closes, ClosedFirst
  <2> QED  BY <1>2, <2>1
<1>9. Exact([ds EXCEPT ![c] = v.co], v.up)
  <2>1. n \in 0..Len(ds[c].open) /\ CutTo(v.co.stack, ds[c].stack, last) /\ v.co.block = ds[c].block
    BY <1>2
  <2> QED  BY <1>1, <1>2, <1>8, <2>1, ExactClosed
<1>10. Used(v.up) = U
  BY <1>4 DEF ClosedFirst, U
<1> QED  BY <1>1, <1>2, <1>9, <1>10 DEF Fits, U

(* What is held: the lists of open upvalues are. *)
LEMMA ListedIsHeld ==
    ASSUME NEW cs, NEW up, NEW g, NEW c \in Coros, cs[c].open \in Seq(Upvalues),
           NEW k \in 1..Len(cs[c].open)
    PROVE  cs[c].open[k] \in Held(cs, up, g)
<1>1. cs[c].open[k] \in Upvalues /\ Contains(cs[c].open, cs[c].open[k])
  BY DEF Contains
<1> QED  BY <1>1 DEF Held

(* More is held only if a slot, a frame, a list or an upvalue names it. *)
LEMMA HeldGrows ==
    ASSUME NEW cs, NEW ds, NEW up, NEW more, NEW g, NEW new,
           \A d \in Coros : ds[d].stack = cs[d].stack /\ ds[d].frames = cs[d].frames,
           \A d \in Coros, u \in Upvalues : Contains(ds[d].open, u) => u = new \/ Contains(cs[d].open, u),
           \A u \in Upvalues : more[u].val = up[u].val \/ more[u].val = None
    PROVE  Held(ds, more, g) \subseteq Held(cs, up, g) \cup {new}
<1> SUFFICES ASSUME NEW u \in Held(ds, more, g), u # new
             PROVE  u \in Held(cs, up, g)
  OBVIOUS
<1>0. u \in Upvalues /\ Names(None) = {}
  BY DEF Names, IsClosure, Held
<1>1. CASE u \in Names(g) \/ \E t \in Upvalues : u \in Names(more[t].val)
  BY <1>0, <1>1 DEF Held
<1>2. CASE \E d \in Coros : \/ \E i \in DOMAIN ds[d].stack : u \in Names(ds[d].stack[i].val)
                            \/ \E i \in DOMAIN ds[d].frames : Contains(ds[d].frames[i].ups, u)
  BY <1>0, <1>2 DEF Held
<1>3. CASE \E d \in Coros : Contains(ds[d].open, u)
  BY <1>0, <1>3 DEF Held
<1> QED  BY <1>1, <1>2, <1>3 DEF Held

(* jml_vm_upvalue_capture: the upvalue of the slot, an old one or a new. *)
CapturedAs(v, u, w) ==
    /\ Fits(coro, running, v, global) /\ v.ok = w.ok
    /\ u \in Used(v.up) /\ Used(w.up) \subseteq Used(v.up)
    /\ \E open : v.co = [w.co EXCEPT !.open = open]
    /\ Unused(w) \ {u} \subseteq Unused(v)

(* jml_vm_upvalue_capture answers the upvalue of a slot with a name, as long
   as there is room for one more.                                          *)
LEMMA CaptureFits ==
    ASSUME running \in Coros, NEW w, Fits(coro, running, w, global),
           NEW at \in 1..Len(w.co.stack), w.co.stack[at].var # 0, Unused(w) # {}
    PROVE  CapturedAs(Capture(w, at).w, Capture(w, at).u, w)
<1> DEFINE U == Used(w.up)
           ds == [coro EXCEPT ![running] = w.co]
           open == w.co.open
           L == Len(open)
           fits(m) == /\ \A k \in 1..m : w.up[open[k]].idx > at
                      /\ m < L => ~(w.up[open[m + 1]].idx > at)
           n == CHOOSE m \in 0..L : fits(m)
           new == Min(Unused(w))
<1>1. /\ w \in Worlds(U) /\ w.co \in CoroOf(U) /\ w.up \in [Upvalues -> UpvalueOf(U)]
      /\ open \in Seq(Upvalues) /\ L \in Nat /\ w.co.stack \in Seq(SlotOf(U))
      /\ coro \in [Coros -> CoroOf(U)] /\ global \in Values(U) /\ Exact(ds, w.up)
  BY SMTT(30) DEF Fits, Worlds, CoroOf
<1>2. ds \in [Coros -> CoroOf(U)] /\ ds[running] = w.co
      /\ \A d \in Coros : d # running => ds[d] = coro[d]
  BY <1>1, PutCoro
<1>3. Pointed(running, w.co, w.up)
  BY <1>1, <1>2 DEF Exact
<1>4. n \in 0..L /\ fits(n)
  <2>1. \E m \in 0..L : /\ \A k \in 1..m : k \in {i \in 1..L : w.up[open[i]].idx > at}
                        /\ m < L => (m + 1) \notin {i \in 1..L : w.up[open[i]].idx > at}
    <3> HIDE DEF open, L
    <3> QED  BY <1>1, LongestPrefix
  <2>2. \E m \in 0..L : fits(m)
    <3>1. PICK m \in 0..L : /\ \A k \in 1..m : k \in {i \in 1..L : w.up[open[i]].idx > at}
                            /\ m < L => (m + 1) \notin {i \in 1..L : w.up[open[i]].idx > at}
      BY <2>1
    <3>2. m < L => m + 1 \in 1..L
      BY <1>1
    <3> QED  BY <3>1, <3>2
  <2> QED  BY <2>2
<1>5. new \in Unused(w) /\ new \in Upvalues
  <2>1. Unused(w) \subseteq Upvalues /\ Upvalues \subseteq Nat
    BY DEF Unused, Upvalues
  <2> QED  BY <2>1, MinIsIn
<1>6. NotListed(new, ds)
  <2> SUFFICES ASSUME NEW d \in Coros, NEW k \in 1..Len(ds[d].open) PROVE ds[d].open[k] # new
    BY DEF NotListed
  <2>1. ds[d].open \in Seq(Upvalues)
    BY <1>2 DEF CoroOf
  <2> HIDE DEF ds, new
  <2>2. ds[d].open[k] \in Held(ds, w.up, global)
    BY <2>1, ListedIsHeld
  <2> QED  BY <1>5, <2>2 DEF Unused, ds
<1> DEFINE found == n < L /\ w.up[open[n + 1]].idx = at
<1>7. CASE found
  <2>1. Capture(w, at) = [w |-> w, u |-> open[n + 1]]
    BY <1>7 DEF Capture, Prefix
  <2>2. n + 1 \in 1..L
    <3> HIDE DEF n, L
    <3> QED  BY <1>1, <1>4, <1>7 DEF found
  <2>3. open[n + 1] \in Upvalues /\ w.up[open[n + 1]].var # 0
    <3>1. PICK k \in 1..L : k = n + 1
      BY <2>2
    <3> HIDE DEF n
    <3>2. Points(w.up[open[k]], running, w.co)
      BY <1>3 DEF Pointed
    <3>3. open[k] \in Upvalues
      BY <1>1
    <3>4. w.up[open[k]].var # 0
      BY <3>2 DEF Points
    <3> HIDE DEF open
    <3> QED  BY <3>1, <3>3, <3>4
  <2>4. w.co = [w.co EXCEPT !.open = open]
    BY <1>1 DEF CoroOf
  <2>5. CapturedAs(w, open[n + 1], w)
    BY <2>3, <2>4 DEF CapturedAs, Used
  <2>6. Capture(w, at).w = w /\ Capture(w, at).u = open[n + 1]
    BY <2>1, SMTT(30)
  <2> QED  BY <2>5, <2>6
<1>8. CASE ~found
  <2> DEFINE o == [open |-> TRUE, coro |-> running, block |-> w.co.block, idx |-> at,
                   val |-> None, var |-> w.co.stack[at].var]
             list == InsertAt(open, n + 1, new)
             more == [w.up EXCEPT ![new] = o]
             v == [w EXCEPT !.co.open = list, !.up[new] = o]
             co == [w.co EXCEPT !.open = list]
             W == Used(more)
  <2>1. Capture(w, at) = [w |-> v, u |-> new]
    BY <1>8 DEF Capture, CaptureNew, Prefix
  <2> HIDE DEF n, new, found
  <2>2. PlaceOf(n, at, open, w.up)
    <3>1. n < L => w.up[open[n + 1]].idx \in Nat
      <4>1. n < L => open[n + 1] \in Upvalues
        BY <1>1, <1>4
      <4> QED  BY <1>1, <4>1 DEF UpvalueOf
    <3>2. n < L => w.up[open[n + 1]].idx < at
      BY <1>4, <1>8, <3>1 DEF found
    <3> QED  BY <1>4, <3>2 DEF PlaceOf
  <2>3. list \in Seq(Upvalues) /\ \A u : Contains(list, u) => u = new \/ Contains(open, u)
    <3>1. PICK m \in 1..(L + 1) : m = n + 1
      BY <1>1, <1>4
    <3> DEFINE l == InsertAt(open, m, new)
    <3>2. /\ l \in Seq(Upvalues) /\ Len(l) = L + 1
          /\ \A k \in 1..(m - 1) : l[k] = open[k]
          /\ l[m] = new
          /\ \A k \in (m + 1)..(L + 1) : l[k] = open[k - 1]
      <4> HIDE DEF open
      <4> QED  BY <1>1, <1>5, Inserted
    <3> HIDE DEF l, open, L
    <3>3. \A k \in 1..(L + 1) : l[k] = new \/ \E j \in 1..L : l[k] = open[j]
      <4> TAKE k \in 1..(L + 1)
      <4>1. CASE k < m
        <5>1. k \in 1..(m - 1) /\ k \in 1..L
          BY <1>1, <4>1
        <5> QED  BY <3>2, <5>1
      <4>2. CASE k > m
        <5>1. k \in (m + 1)..(L + 1) /\ k - 1 \in 1..L
          BY <1>1, <4>2
        <5> QED  BY <3>2, <5>1
      <4> QED  BY <1>1, <3>2, <4>1, <4>2
    <3> QED  BY <3>1, <3>2, <3>3 DEF l, L, Contains
  <2> HIDE DEF list
  <2>4. o.open = TRUE /\ o.coro = running /\ o.block = w.co.block /\ o.idx = at /\ o.val = None
        /\ o.var = w.co.stack[at].var
    OBVIOUS
  <2>5. U \subseteq W /\ new \in W
    <3>1. \A u \in Upvalues : more[u] = IF u = new THEN o ELSE w.up[u]
      BY <1>1
    <3> HIDE DEF o, more
    <3> QED  BY <1>5, <2>4, <3>1 DEF Used
  <2> HIDE DEF U, W
  <2>6. o \in UpvalueOf(W)
    <3>1. w.co.stack[at].var \in 0..MaxVars /\ w.co.block \in Nat /\ at \in Nat
      <4>1. w.co.stack[at] \in SlotOf(U) /\ w.co.block \in Nat /\ Len(w.co.stack) \in Nat
        BY <1>1 DEF CoroOf
      <4> QED  BY <4>1 DEF SlotOf
    <3> QED  BY <3>1 DEF UpvalueOf, Values
  <2> HIDE DEF o
  <2>7. /\ w.co \in CoroOf(W) /\ w.up \in [Upvalues -> UpvalueOf(W)]
        /\ coro \in [Coros -> CoroOf(W)] /\ global \in Values(W) /\ ds \in [Coros -> CoroOf(W)]
    BY <1>1, <1>2, <2>5, TypesGrow
  <2>8. co \in CoroOf(W) /\ co.open = list /\ co.block = w.co.block /\ co.stack = w.co.stack
        /\ co.frames = w.co.frames
    BY <2>3, <2>7 DEF CoroOf
  <2>9. more \in [Upvalues -> UpvalueOf(W)]
    BY <2>6, <2>7
  <2>10. v = [w EXCEPT !.co = co, !.up = more]
    BY <1>1 DEF Worlds
  <2> HIDE DEF co, more, v
  <2>11. v \in Worlds(W) /\ v.co = co /\ v.up = more /\ v.ok = w.ok
    BY <1>1, <2>8, <2>9, <2>10 DEF Worlds
  <2>12. [ds EXCEPT ![running] = co] = [coro EXCEPT ![running] = co]
    BY <2>7
  <2> HIDE DEF ds
  <2>13. Exact([ds EXCEPT ![running] = co], more)
    <3>1. /\ at \in 1..Len(ds[running].stack) /\ ds[running].stack[at].var # 0
          /\ n \in 0..Len(ds[running].open) /\ PlaceOf(n, at, ds[running].open, w.up)
          /\ co.open = InsertAt(ds[running].open, n + 1, new) /\ co.block = ds[running].block
          /\ co.stack = ds[running].stack
          /\ o.open = TRUE /\ o.coro = running /\ o.block = co.block /\ o.idx = at
          /\ o.var = ds[running].stack[at].var
      BY <1>2, <1>4, <2>2, <2>4, <2>8 DEF list
    <3> QED  BY <1>1, <1>5, <1>6, <2>7, <2>8, <3>1, ExactCaptured DEF more
  <2>14. Fits(coro, running, v, global)
    BY <2>7, <2>11, <2>12, <2>13 DEF Fits, W
  <2>15. Unused(w) \ {new} \subseteq Unused(v)
    <3> DEFINE es == [coro EXCEPT ![running] = co]
    <3>1. es[running] = co /\ \A d \in Coros : d # running => es[d] = coro[d]
      BY <2>7, <2>8, PutCoro
    <3> HIDE DEF es
    <3>2. /\ \A d \in Coros : es[d].stack = ds[d].stack /\ es[d].frames = ds[d].frames
          /\ \A d \in Coros, u \in Upvalues :
                Contains(es[d].open, u) => u = new \/ Contains(ds[d].open, u)
      BY <1>2, <2>3, <2>8, <3>1
    <3>3. \A u \in Upvalues : more[u].val = w.up[u].val \/ more[u].val = None
      BY <1>1, <2>4 DEF more
    <3>4. Held(es, more, global) \subseteq Held(ds, w.up, global) \cup {new}
      BY <3>2, <3>3, HeldGrows
    <3> QED  BY <2>11, <3>4 DEF Unused, es, ds
  <2>16. v.co = [w.co EXCEPT !.open = list]
    BY <2>11 DEF co
  <2>17. CapturedAs(v, new, w)
    BY <2>5, <2>11, <2>14, <2>15, <2>16 DEF W, U, CapturedAs
  <2>18. Capture(w, at).w = v /\ Capture(w, at).u = new
    BY <2>1
  <2> QED  BY <2>17, <2>18
<1> QED  BY <1>7, <1>8

(* The captures of a closure, one after the other. *)
CanCapture(c, w) ==
    /\ c.local \in BOOLEAN
    /\ c.local = TRUE => /\ F.slots + c.index \in 1..Len(w.co.stack)
                         /\ w.co.stack[F.slots + c.index].var # 0
    /\ c.local = FALSE => c.index \in DOMAIN F.ups

Took(a, w, n) ==
    /\ Fits(coro, running, a.w, global) /\ a.w.ok = w.ok
    /\ \E open : a.w.co = [w.co EXCEPT !.open = open]
    /\ Used(w.up) \subseteq Used(a.w.up)
    /\ a.us \in Seq(Used(a.w.up)) /\ Len(a.us) = n

(* One step of OP_CLOSURE: one more upvalue, and at most one less unused. *)
LEMMA TakeOne ==
    ASSUME running \in Coros, NEW w, NEW a, NEW n \in Nat, NEW c, w \in Worlds(Used(w.up)),
           Took(a, w, n), CanCapture(c, w), F.ups \in Cells(Used(w.up)),
           c.local = TRUE => Unused(a.w) # {}
    PROVE  /\ Took(CaptureNext(a, c), w, n + 1)
           /\ c.local = FALSE => CaptureNext(a, c).w = a.w
           /\ c.local = TRUE => \E u : Unused(a.w) \ {u} \subseteq Unused(CaptureNext(a, c).w)
<1>1. a.us \in Seq(Used(a.w.up)) /\ Len(a.us) = n
  BY DEF Took
<1>2. CASE c.local = TRUE
  <2> DEFINE at == F.slots + c.index
             r == Capture(a.w, at)
  <2>1. PICK open : a.w.co = [w.co EXCEPT !.open = open]
    BY DEF Took
  <2>2. a.w.co.stack = w.co.stack
    BY <2>1 DEF Worlds, CoroOf
  <2>3. at \in 1..Len(a.w.co.stack) /\ a.w.co.stack[at].var # 0
    BY <1>2, <2>2 DEF CanCapture
  <2> HIDE DEF at
  <2>4. CapturedAs(r.w, r.u, a.w)
    BY <1>2, <2>3, CaptureFits DEF Took
  <2>5. CaptureNext(a, c) = [w |-> r.w, us |-> Append(a.us, r.u)]
    BY <1>2 DEF CaptureNext, at
  <2> HIDE DEF r
  <2>6. \E list : r.w.co = [w.co EXCEPT !.open = list]
    <3>1. PICK list : r.w.co = [a.w.co EXCEPT !.open = list]
      BY <2>4 DEF CapturedAs
    <3>2. r.w.co = [w.co EXCEPT !.open = list]
      BY <2>1, <3>1 DEF Worlds, CoroOf
    <3> QED  BY <3>2
  <2>7. a.us \in Seq(Used(r.w.up)) /\ r.u \in Used(r.w.up)
    BY <1>1, <2>4, SeqMonotonic DEF CapturedAs
  <2>8. PICK us : us = Append(a.us, r.u) /\ us \in Seq(Used(r.w.up)) /\ Len(us) = n + 1
    BY <1>1, <2>7, AppendProperties, ZenonT(30)
  <2>9. Fits(coro, running, r.w, global) /\ r.w.ok = w.ok /\ Used(w.up) \subseteq Used(r.w.up)
    BY <2>4 DEF CapturedAs, Took
  <2>10. PICK b : b = CaptureNext(a, c)
    OBVIOUS
  <2>11. PICK v : v = r.w
    OBVIOUS
  <2>12. b.w = v /\ b.us = us
    BY <2>5, <2>8, <2>10, <2>11
  <2>13. Took(b, w, n + 1)
    BY ONLY <2>6, <2>8, <2>9, <2>11, <2>12 DEF Took
  <2>14. Unused(a.w) \ {r.u} \subseteq Unused(b.w)
    BY <2>4, <2>11, <2>12 DEF CapturedAs
  <2>15. \E u : Unused(a.w) \ {u} \subseteq Unused(b.w)
    BY <2>14
  <2> QED  BY <1>2, <2>10, <2>13, <2>15
<1>3. CASE c.local = FALSE
  <2> DEFINE u == F.ups[c.index]
  <2>1. CaptureNext(a, c) = [w |-> a.w, us |-> Append(a.us, u)]
    BY <1>3 DEF CaptureNext
  <2>2. u \in Used(a.w.up)
    <3>1. \E n1 \in 0..MaxCaptures : F.ups \in [1..n1 -> Used(w.up)]
      BY DEF Cells
    <3>2. u \in Used(w.up)
      BY <1>3, <3>1 DEF CanCapture
    <3> QED  BY <3>2 DEF Took
  <2> HIDE DEF u
  <2>3. PICK us : us = Append(a.us, u) /\ us \in Seq(Used(a.w.up)) /\ Len(us) = n + 1
    <3> DEFINE S == Used(a.w.up)
    <3>1. a.us \in Seq(S) /\ u \in S
      BY <1>1, <2>2
    <3> HIDE DEF S
    <3>2. Append(a.us, u) \in Seq(S) /\ Len(Append(a.us, u)) = Len(a.us) + 1
      BY ONLY <3>1, AppendProperties
    <3> QED  BY ONLY <1>1, <3>2 DEF S
  <2>4. PICK b : b = CaptureNext(a, c)
    OBVIOUS
  <2>5. b.w = a.w /\ b.us = us
    BY <2>1, <2>3, <2>4
  <2>6. Took(b, w, n + 1)
    BY <2>3, <2>5 DEF Took
  <2> QED  BY <1>3, <2>4, <2>5, <2>6
<1> QED  BY <1>2, <1>3 DEF CanCapture

(* The captures so far, for each number of them. *)
Captured(f, n, base, caps) ==
    f = [k \in 0..n |-> IF k = 0 THEN base ELSE CaptureNext(f[k - 1], caps[k])]

(* The function CaptureAll defines by recursion exists. *)
LEMMA CapturesDefined ==
    ASSUME NEW base, NEW caps, NEW n \in Nat
    PROVE  \E f : Captured(f, n, base, caps)
<1> DEFINE Defined(m) ==
        \E f : f = [k \in 0..m |-> IF k = 0 THEN base ELSE CaptureNext(f[k - 1], caps[k])]
           T == {m \in Nat : ~Defined(m)}
<1> SUFFICES ASSUME T # {} PROVE FALSE
  BY DEF Captured
<1>1. PICK m \in T : \A k \in T : m <= k
  <2>1. T \in SUBSET Nat
    OBVIOUS
  <2> HIDE DEF T
  <2> QED  BY <2>1, Smallest
<1>2. CASE m = 0
  <2> DEFINE f == [k \in 0..m |-> base]
  <2>1. f = [k \in 0..m |-> IF k = 0 THEN base ELSE CaptureNext(f[k - 1], caps[k])]
    BY <1>2
  <2> QED  BY <2>1
<1>3. CASE m # 0
  <2>1. m - 1 \in Nat /\ m - 1 < m /\ m \in Nat
    BY <1>3
  <2>2. PICK f : f = [k \in 0..(m - 1) |-> IF k = 0 THEN base ELSE CaptureNext(f[k - 1], caps[k])]
    <3>1. Defined(m - 1)
      BY <1>1, <2>1
    <3> QED  BY <3>1
  <2> DEFINE g == [k \in 0..m |-> IF k = m THEN CaptureNext(f[m - 1], caps[m]) ELSE f[k]]
  <2>3. \A k \in 0..m : g[k] = IF k = 0 THEN base ELSE CaptureNext(g[k - 1], caps[k])
    <3> TAKE k \in 0..m
    <3>1. CASE k = m
      BY <1>3, <2>1, <3>1
    <3>2. CASE k # m
      <4>1. k \in 0..(m - 1) /\ g[k] = f[k]
        BY <2>1, <3>2
      <4>2. f[k] = IF k = 0 THEN base ELSE CaptureNext(f[k - 1], caps[k])
        BY <2>2, <4>1
      <4>3. k # 0 => k - 1 \in 0..m /\ k - 1 # m
        BY <2>1, <4>1
      <4> QED  BY <4>1, <4>2, <4>3
    <3> QED  BY <3>1, <3>2
  <2>4. g = [k \in 0..m |-> IF k = 0 THEN base ELSE CaptureNext(g[k - 1], caps[k])]
    BY <2>3
  <2> QED  BY <2>4
<1> QED  BY <1>2, <1>3

(* The captures of a closure are taken one after the other. *)
LEMMA CapturesUnfold ==
    ASSUME NEW w, NEW caps, Len(caps) \in Nat
    PROVE  \E f : /\ f[0] = [w |-> w, us |-> <<>>]
                  /\ \A k \in 1..Len(caps) : f[k] = CaptureNext(f[k - 1], caps[k])
                  /\ CaptureAll(w, caps) = f[Len(caps)]
<1> DEFINE base == [w |-> w, us |-> <<>>]
           n == Len(caps)
           f == CHOOSE h : h = [k \in 0..n |-> IF k = 0 THEN base ELSE CaptureNext(h[k - 1], caps[k])]
<1>1. CaptureAll(w, caps) = f[n]
  BY DEF CaptureAll
<1>2. f = CHOOSE h : Captured(h, n, base, caps)
  BY DEF Captured
<1>3. Captured(f, n, base, caps)
  <2>1. \E h : Captured(h, n, base, caps)
    BY CapturesDefined
  <2> HIDE DEF f, base, n
  <2> QED  BY <1>2, <2>1
<1> HIDE DEF f
<1>4. f[0] = base
  BY <1>3 DEF Captured
<1>5. \A k \in 1..n : f[k] = CaptureNext(f[k - 1], caps[k])
  BY <1>3 DEF Captured
<1> QED  BY <1>1, <1>4, <1>5

(* A set that misses one element of another is at most one smaller. *)
LEMMA FewerByOne ==
    ASSUME NEW S, NEW T, NEW u, IsFiniteSet(S), IsFiniteSet(T), S \ {u} \subseteq T
    PROVE  Cardinality(S) <= Cardinality(T) + 1
<1>1. Cardinality(S \ {u}) <= Cardinality(T) /\ IsFiniteSet(S \ {u})
  BY FS_Subset
<1>2. Cardinality(S) \in Nat /\ Cardinality(T) \in Nat /\ Cardinality(S \ {u}) \in Nat
  BY <1>1, FS_CardinalityType
<1>3. CASE u \in S
  <2>1. Cardinality(S \ {u}) = Cardinality(S) - 1
    BY <1>3, FS_RemoveElement
  <2> QED  BY <1>1, <1>2, <2>1
<1>4. CASE u \notin S
  <2>1. S \ {u} = S
    BY <1>4
  <2> QED  BY <1>1, <1>2, <2>1
<1> QED  BY <1>3, <1>4

(* The places of the captures of locals among the first k. *)
LocalsOf(caps, k) == {j \in 1..k : caps[j].local = TRUE}

(* One more of them when the next capture is of a local. *)
LEMMA LocalsGrow ==
    ASSUME NEW caps, NEW n \in Nat, NEW k \in 1..n
    PROVE  /\ IsFiniteSet(LocalsOf(caps, k - 1)) /\ IsFiniteSet(LocalsOf(caps, n))
           /\ Cardinality(LocalsOf(caps, k - 1)) <= Cardinality(LocalsOf(caps, k))
           /\ caps[k].local = TRUE
              => /\ Cardinality(LocalsOf(caps, k)) = Cardinality(LocalsOf(caps, k - 1)) + 1
                 /\ Cardinality(LocalsOf(caps, k)) <= Cardinality(LocalsOf(caps, n))
<1> DEFINE before == LocalsOf(caps, k - 1)
           now    == LocalsOf(caps, k)
           all    == LocalsOf(caps, n)
<1>1. before \subseteq now /\ now \subseteq all
  BY DEF LocalsOf
<1>2. IsFiniteSet(all)
  <2>1. all \subseteq 1..n /\ IsFiniteSet(1..n)
    BY FS_Interval DEF LocalsOf
  <2> QED  BY <2>1, FS_Subset
<1>3. IsFiniteSet(now) /\ Cardinality(now) <= Cardinality(all)
  BY <1>1, <1>2, FS_Subset
<1>4. IsFiniteSet(before) /\ Cardinality(before) <= Cardinality(now)
  BY <1>1, <1>3, FS_Subset
<1>5. ASSUME caps[k].local = TRUE PROVE Cardinality(now) = Cardinality(before) + 1
  <2>1. now = before \cup {k} /\ k \notin before
    BY <1>5 DEF LocalsOf
  <2> HIDE DEF before, now
  <2> QED  BY <1>4, <2>1, FS_AddElement
<1> QED  BY <1>2, <1>3, <1>4, <1>5

(* All the captures: each finds an upvalue as long as there are as many
   unused ones as there are locals to capture.                             *)
LEMMA CaptureAllFits ==
    ASSUME running \in Coros, NEW w, Fits(coro, running, w, global), F.ups \in Cells(Used(w.up)),
           w.co = [w.co EXCEPT !.open = w.co.open],
           NEW caps, Len(caps) \in Nat, \A k \in 1..Len(caps) : CanCapture(caps[k], w),
           Cardinality(LocalsOf(caps, Len(caps))) <= Cardinality(Unused(w))
    PROVE  Took(CaptureAll(w, caps), w, Len(caps))
<1> DEFINE n == Len(caps)
           base == [w |-> w, us |-> <<>>]
<1>1. PICK f : /\ f[0] = base
               /\ \A k \in 1..n : f[k] = CaptureNext(f[k - 1], caps[k])
               /\ CaptureAll(w, caps) = f[n]
  BY CapturesUnfold
<1>2. \A v : IsFiniteSet(Unused(v))
  <2> TAKE v
  <2>1. Unused(v) \subseteq Upvalues /\ IsFiniteSet(Upvalues)
    <3>1. MaxUpvalues \in Int /\ 1 \in Int
      BY CoroutineAssumption
    <3> QED  BY <3>1, FS_Interval DEF Unused, Upvalues
  <2> QED  BY <2>1, FS_Subset
<1> DEFINE left(v) == Cardinality(Unused(v))
           locals(k) == Cardinality(LocalsOf(caps, k))
           Holds(k) == Took(f[k], w, k) /\ left(w) <= left(f[k].w) + locals(k)
<1>3. \A v : left(v) \in Nat
  BY <1>2, FS_CardinalityType
<1>4. Holds(0)
  <2>1. PICK b : b = base
    OBVIOUS
  <2>2. b.w = w /\ b.us = <<>> /\ <<>> \in Seq(Used(w.up)) /\ Len(<<>>) = 0
    BY <2>1
  <2>3. Took(b, w, 0)
    BY ONLY <2>2, Fits(coro, running, w, global), w.co = [w.co EXCEPT !.open = w.co.open] DEF Took
  <2>4. locals(0) = 0
    <3>1. LocalsOf(caps, 0) = {}
      BY DEF LocalsOf
    <3> QED  BY <3>1, FS_EmptySet
  <2>5. f[0].w = w
    BY <1>1, <2>1, <2>2
  <2> HIDE DEF base, left, locals
  <2> QED  BY <1>1, <1>3, <2>1, <2>3, <2>4, <2>5
<1>5. ASSUME NEW k \in 1..n, Holds(k - 1) PROVE Holds(k)
  <2>1. PICK a, m, c : a = f[k - 1] /\ m = k - 1 /\ m \in Nat /\ c = caps[k]
    OBVIOUS
  <2>2. /\ locals(m) <= locals(k) /\ locals(m) \in Nat /\ locals(n) \in Nat /\ locals(k) \in Nat
        /\ c.local = TRUE => locals(k) = locals(m) + 1 /\ locals(k) <= locals(n)
    <3>1. n \in Nat
      OBVIOUS
    <3>2. /\ IsFiniteSet(LocalsOf(caps, k - 1)) /\ IsFiniteSet(LocalsOf(caps, n))
          /\ Cardinality(LocalsOf(caps, k - 1)) <= Cardinality(LocalsOf(caps, k))
          /\ caps[k].local = TRUE
              => /\ Cardinality(LocalsOf(caps, k)) = Cardinality(LocalsOf(caps, k - 1)) + 1
                 /\ Cardinality(LocalsOf(caps, k)) <= Cardinality(LocalsOf(caps, n))
      BY <3>1, LocalsGrow
    <3>3. IsFiniteSet(LocalsOf(caps, k))
      <4>1. LocalsOf(caps, k) \subseteq LocalsOf(caps, n)
        BY DEF LocalsOf
      <4> QED  BY <3>2, <4>1, FS_Subset
    <3> QED  BY <2>1, <3>2, <3>3, FS_CardinalityType
  <2> HIDE DEF locals
  <2>3. Took(a, w, m) /\ left(w) <= left(a.w) + locals(m) /\ CanCapture(c, w)
    BY <1>5, <2>1
  <2>4. c.local = TRUE => Unused(a.w) # {}
    <3>1. locals(n) <= left(w)
      BY DEF locals
    <3>2. c.local = TRUE => left(a.w) # 0
      <4> HIDE DEF left
      <4> QED  BY <1>3, <2>2, <2>3, <3>1
    <3> QED  BY <3>2, FS_EmptySet
  <2>5. PICK b : b = CaptureNext(a, c)
    OBVIOUS
  <2>6. w \in Worlds(Used(w.up))
    BY DEF Fits
  <2>7. /\ Took(b, w, m + 1)
        /\ c.local = FALSE => b.w = a.w
        /\ c.local = TRUE => \E u : Unused(a.w) \ {u} \subseteq Unused(b.w)
    <3>1. m \in Nat
      BY <2>1
    <3>2. Took(a, w, m) /\ CanCapture(c, w) /\ F.ups \in Cells(Used(w.up))
      BY <2>3
    <3>3. /\ Took(CaptureNext(a, c), w, m + 1)
          /\ c.local = FALSE => CaptureNext(a, c).w = a.w
          /\ c.local = TRUE => \E u : Unused(a.w) \ {u} \subseteq Unused(CaptureNext(a, c).w)
      BY ONLY running \in Coros, <2>4, <2>6, <3>1, <3>2, TakeOne
    <3> QED  BY <2>5, <3>3
  <2>8. left(w) <= left(b.w) + locals(k)
    <3>1. CASE c.local = TRUE
      <4>1. left(a.w) <= left(b.w) + 1
        BY <1>2, <2>7, <3>1, FewerByOne
      <4> HIDE DEF left
      <4> QED  BY <1>3, <2>2, <2>3, <3>1, <4>1
    <3>2. CASE c.local = FALSE
      <4>1. b.w = a.w
        BY <2>7, <3>2
      <4> HIDE DEF left
      <4> QED  BY <1>3, <2>2, <2>3, <4>1
    <3> QED  BY <2>3, <3>1, <3>2 DEF CanCapture
  <2>9. f[k] = b /\ m + 1 = k
    BY <1>1, <2>1, <2>5
  <2> HIDE DEF left
  <2> QED  BY <2>7, <2>8, <2>9
<1> DEFINE Bad == {k \in 0..n : ~Holds(k)}
<1>6. Bad = {}
  <2> SUFFICES ASSUME Bad # {} PROVE FALSE
    OBVIOUS
  <2>1. Bad \in SUBSET Nat
    OBVIOUS
  <2>2. PICK k \in Bad : \A j \in Bad : k <= j
    <3> HIDE DEF Bad
    <3> QED  BY <2>1, Smallest
  <2> HIDE DEF Holds
  <2>3. k # 0 /\ k \in 1..n /\ ~Holds(k)
    BY <1>4
  <2>4. Holds(k - 1)
    <3>1. k - 1 \in 0..n /\ ~(k <= k - 1)
      BY <2>3
    <3> QED  BY <2>2, <3>1
  <2> QED  BY <1>5, <2>3, <2>4
<1>7. Holds(n)
  <2>1. n \in 0..n
    OBVIOUS
  <2> HIDE DEF Holds
  <2> QED  BY <1>6, <2>1
<1> QED  BY <1>1, <1>7

Sound(cs, up, g) == Typed(cs, up, g) /\ Exact(cs, up)

-----------------------------------------------------------------------------
(* Garbage. *)

(* A value all of whose names are in H needs no others. *)
LEMMA Retyped ==
    ASSUME NEW U, NEW H, NEW v \in Values(U), \A u \in U : u \in Names(v) => u \in H
    PROVE  v \in Values(U \cap H)
<1>1. CASE v \in Data \cup {Exc, None}
  BY <1>1 DEF Values
<1>2. CASE v \notin Data \cup {Exc, None}
  <2>1. PICK us \in Cells(U) : v = Closure(us)
    BY <1>2 DEF Values
  <2>2. PICK n \in 0..MaxCaptures : us \in [1..n -> U]
    BY <2>1 DEF Cells
  <2>3. Names(v) = {us[i] : i \in DOMAIN us}
    BY <1>2, <2>1 DEF Names, IsClosure, Closure, ToSet
  <2>4. us \in [1..n -> U \cap H]
    BY <2>2, <2>3
  <2> QED  BY <2>1, <2>4 DEF Values, Cells
<1> QED  BY <1>1, <1>2

(* What Held leaves out is named by nothing. *)
LEMMA NothingNames ==
    ASSUME NEW U, U \subseteq Upvalues, NEW cs \in [Coros -> CoroOf(U)],
           NEW up \in [Upvalues -> UpvalueOf(U)], NEW g \in Values(U),
           NEW H, H = Held(cs, up, g)
    PROVE  /\ g \in Values(U \cap H)
           /\ \A t \in Upvalues : up[t].val \in Values(U \cap H)
           /\ \A c \in Coros : \A i \in 1..Len(cs[c].stack) : cs[c].stack[i].val \in Values(U \cap H)
           /\ \A c \in Coros : \A i \in 1..Len(cs[c].frames) : cs[c].frames[i].ups \in Cells(U \cap H)
<1>0. \A c \in Coros : /\ cs[c].stack \in Seq(SlotOf(U)) /\ cs[c].frames \in Seq(FrameOf(U))
                       /\ DOMAIN cs[c].stack = 1..Len(cs[c].stack)
                       /\ DOMAIN cs[c].frames = 1..Len(cs[c].frames)
  BY DEF CoroOf
<1>1. g \in Values(U \cap H)
  <2>1. \A u \in U : u \in Names(g) => u \in H
    BY DEF Held
  <2> QED  BY <2>1, Retyped
<1>2. ASSUME NEW t \in Upvalues PROVE up[t].val \in Values(U \cap H)
  <2>1. \A u \in U : u \in Names(up[t].val) => u \in H
    BY DEF Held
  <2>2. up[t].val \in Values(U)
    BY DEF UpvalueOf
  <2> QED  BY <2>1, <2>2, Retyped
<1>3. ASSUME NEW c \in Coros, NEW i \in 1..Len(cs[c].stack)
      PROVE  cs[c].stack[i].val \in Values(U \cap H)
  <2>1. \A u \in U : u \in Names(cs[c].stack[i].val) => u \in H
    BY <1>0 DEF Held
  <2>2. cs[c].stack[i].val \in Values(U)
    <3>1. cs[c].stack[i] \in SlotOf(U)
      BY <1>0
    <3> QED  BY <3>1 DEF SlotOf
  <2> QED  BY <2>1, <2>2, Retyped
<1>4. ASSUME NEW c \in Coros, NEW i \in 1..Len(cs[c].frames)
      PROVE  cs[c].frames[i].ups \in Cells(U \cap H)
  <2>1. PICK us : us = cs[c].frames[i].ups
    OBVIOUS
  <2>2. us \in Cells(U)
    <3>1. cs[c].frames[i] \in FrameOf(U)
      BY <1>0
    <3> QED  BY <2>1, <3>1 DEF FrameOf
  <2>3. PICK n \in 0..MaxCaptures : us \in [1..n -> U]
    BY <2>2 DEF Cells
  <2>4. us \in Seq(U) /\ Len(us) = n
    BY <2>3
  <2>5. \A u \in U : Contains(us, u) => u \in H
    BY <1>0, <2>1 DEF Held
  <2>6. \A k \in 1..n : us[k] \in U \cap H
    BY <2>3, <2>4, <2>5 DEF Contains
  <2>7. us \in [1..n -> U \cap H]
    BY <2>3, <2>6
  <2> QED  BY <2>1, <2>7 DEF Cells
<1> QED  BY <1>1, <1>2, <1>3, <1>4

(* The collector takes the upvalues nobody holds: what is left is as it
   should be.                                                              *)
LEMMA SettleKeeps ==
    ASSUME NEW cs, NEW up, NEW g, Sound(cs, up, g), Settle(cs, up, g)
    PROVE  coro' = cs /\ global' = g /\ Sound(cs, upvalues', g)
<1> DEFINE U == Used(up)
           H == Held(cs, up, g)
           less == [u \in Upvalues |-> IF u \in H THEN up[u] ELSE Free]
           W == U \cap H
<1>1. coro' = cs /\ global' = g /\ upvalues' = less
  BY DEF Settle
<1>2. /\ cs \in [Coros -> CoroOf(U)] /\ up \in [Upvalues -> UpvalueOf(U)] /\ g \in Values(U)
      /\ U \subseteq Upvalues /\ Exact(cs, up)
  BY DEF Sound, Typed, Used
<1>3. Used(less) = W
  BY DEF Used, Free
<1>4. /\ g \in Values(W)
      /\ \A t \in Upvalues : up[t].val \in Values(W)
      /\ \A c \in Coros : \A i \in 1..Len(cs[c].stack) : cs[c].stack[i].val \in Values(W)
      /\ \A c \in Coros : \A i \in 1..Len(cs[c].frames) : cs[c].frames[i].ups \in Cells(W)
  <2> HIDE DEF U, H
  <2>1. H = Held(cs, up, g)
    BY DEF H
  <2> QED  BY <1>2, <2>1, NothingNames
<1>5. Exact(cs, less)
  <2>1. \A c \in Coros : cs[c].open \in Seq(Upvalues)
    BY <1>2 DEF CoroOf
  <2>2. \A c \in Coros : \A k \in 1..Len(cs[c].open) : cs[c].open[k] \in H
    BY <2>1, ListedIsHeld
  <2> HIDE DEF H, U
  <2>3. PICK l : l = less
    OBVIOUS
  <2>4. Exact(cs, l)
    BY <1>2, <2>2, <2>3, ExactSettled
  <2> QED  BY <2>3, <2>4
<1>6. less \in [Upvalues -> UpvalueOf(W)]
  <2> SUFFICES ASSUME NEW u \in Upvalues PROVE less[u] \in UpvalueOf(W)
    OBVIOUS
  <2>1. up[u] \in UpvalueOf(W)
    <3>1. up[u] \in UpvalueOf(U) /\ up[u].val \in Values(W)
      BY <1>2, <1>4
    <3> HIDE DEF U, W
    <3> QED  BY <3>1 DEF UpvalueOf
  <2>2. Free \in UpvalueOf(W)
    BY CoroutineAssumption DEF Free, UpvalueOf, Values
  <2> QED  BY <2>1, <2>2
<1>7. cs \in [Coros -> CoroOf(W)]
  <2> SUFFICES ASSUME NEW c \in Coros PROVE cs[c] \in CoroOf(W)
    BY <1>2
  <2>1. cs[c] \in CoroOf(U)
    BY <1>2
  <2> HIDE DEF U, W
  <2>2. cs[c].stack \in Seq(SlotOf(W))
    <3>1. cs[c].stack \in Seq(SlotOf(U))
      BY <2>1 DEF CoroOf
    <3>2. \A i \in 1..Len(cs[c].stack) : cs[c].stack[i] \in SlotOf(W)
      <4> TAKE i \in 1..Len(cs[c].stack)
      <4>1. cs[c].stack[i] \in SlotOf(U) /\ cs[c].stack[i].val \in Values(W)
        BY <1>4, <3>1
      <4> QED  BY <4>1 DEF SlotOf
    <3> QED  BY <3>1, <3>2
  <2>3. cs[c].frames \in Seq(FrameOf(W))
    <3>1. cs[c].frames \in Seq(FrameOf(U))
      BY <2>1 DEF CoroOf
    <3>2. \A i \in 1..Len(cs[c].frames) : cs[c].frames[i] \in FrameOf(W)
      <4> TAKE i \in 1..Len(cs[c].frames)
      <4>1. cs[c].frames[i] \in FrameOf(U) /\ cs[c].frames[i].ups \in Cells(W)
        BY <1>4, <3>1
      <4> QED  BY <4>1 DEF FrameOf
    <3> QED  BY <3>1, <3>2
  <2> QED  BY <2>1, <2>2, <2>3 DEF CoroOf
<1> QED  BY <1>1, <1>3, <1>4, <1>5, <1>6, <1>7 DEF Sound, Typed

(* What fits a world does so as a state. *)
LEMMA FitsIsSound ==
    ASSUME NEW cs, NEW c \in Coros, NEW w, NEW g, Fits(cs, c, w, g)
    PROVE  Sound([cs EXCEPT ![c] = w.co], w.up, g)
<1> DEFINE U == Used(w.up)
<1>1. w.co \in CoroOf(U) /\ w.up \in [Upvalues -> UpvalueOf(U)] /\ cs \in [Coros -> CoroOf(U)]
  BY DEF Fits, Worlds
<1> HIDE DEF U
<1>2. [cs EXCEPT ![c] = w.co] \in [Coros -> CoroOf(U)]
  BY <1>1
<1> QED  BY <1>1, <1>2 DEF Fits, Sound, Typed, U

(* And what is sound as a state fits as the world of any coroutine. *)
LEMMA SoundFits ==
    ASSUME NEW cs, NEW c \in Coros, NEW up, NEW g, Sound(cs, up, g)
    PROVE  Fits(cs, c, [co |-> cs[c], up |-> up, ok |-> TRUE], g)
<1> DEFINE w == [co |-> cs[c], up |-> up, ok |-> TRUE]
           U == Used(up)
<1>1. cs \in [Coros -> CoroOf(U)] /\ up \in [Upvalues -> UpvalueOf(U)] /\ g \in Values(U) /\ Exact(cs, up)
  BY DEF Sound, Typed
<1> HIDE DEF U
<1>2. [cs EXCEPT ![c] = cs[c]] = cs /\ w.co = cs[c] /\ w.up = up
  BY <1>1
<1>3. w \in Worlds(U)
  BY <1>1 DEF Worlds
<1> HIDE DEF w
<1> QED  BY <1>1, <1>2, <1>3 DEF Fits, U, w

-----------------------------------------------------------------------------
(* The frames on a stack. *)

(* Where a frame starts and where its locals end. *)
LEMMA FrameEnd ==
    ASSUME NEW U, NEW f \in FrameOf(U)
    PROVE  /\ f.slots \in Nat \ {0} /\ f.locals \in Nat \ {0} /\ f.locals <= MaxLocals
           /\ End(f) \in Nat /\ f.slots < End(f) /\ End(f) = f.slots + f.locals
<1>1. MaxLocals \in Nat
  BY CoroutineAssumption
<1>2. f.slots \in Nat \ {0} /\ f.locals \in 1..MaxLocals
  BY DEF FrameOf
<1> QED  BY ONLY <1>1, <1>2 DEF End

(* The frames of a coroutine that is live, one by one. *)
LEMMA FrameFacts ==
    ASSUME NEW U, NEW co \in CoroOf(U), NEW temps, Shaped(co, temps)
    PROVE  /\ Len(co.frames) \in Nat \ {0} /\ Len(co.stack) \in Nat
           /\ Last(co.frames) = co.frames[Len(co.frames)] /\ Last(co.frames).try = -1
           /\ \A k \in 1..Len(co.frames) :
                 /\ co.frames[k] \in FrameOf(U)
                 /\ co.frames[k].slots \in Nat \ {0} /\ co.frames[k].locals \in Nat \ {0}
                 /\ co.frames[k].locals <= MaxLocals
                 /\ End(co.frames[k]) \in Nat /\ co.frames[k].slots < End(co.frames[k])
                 /\ End(co.frames[k]) = co.frames[k].slots + co.frames[k].locals
                 /\ End(co.frames[k]) <= End(Last(co.frames))
<1> DEFINE fs == co.frames
           n == Len(fs)
<1>1. fs \in Seq(FrameOf(U)) /\ n \in Nat /\ fs # <<>> /\ co.stack \in Seq(SlotOf(U))
  BY DEF CoroOf, Shaped, Tiled
<1>2. n \in Nat \ {0} /\ Last(fs) = fs[n]
  <2> HIDE DEF fs
  <2> QED  BY <1>1 DEF Last
<1>3. \A k \in 1..n : /\ fs[k] \in FrameOf(U)
                      /\ fs[k].slots \in Nat \ {0} /\ fs[k].locals \in Nat \ {0}
                      /\ fs[k].locals <= MaxLocals
                      /\ End(fs[k]) \in Nat /\ fs[k].slots < End(fs[k])
                      /\ End(fs[k]) = fs[k].slots + fs[k].locals
  <2> TAKE k \in 1..n
  <2>1. fs[k] \in FrameOf(U)
    BY <1>1
  <2> HIDE DEF fs
  <2> QED  BY <2>1, FrameEnd
<1>4. \A i, j \in 1..n : i < j => End(fs[i]) <= fs[j].slots
  BY DEF Shaped, Tiled
<1>5. ASSUME NEW k \in 1..n PROVE End(fs[k]) <= End(fs[n])
  <2> HIDE DEF fs
  <2>1. k = n \/ k < n
    BY <1>2
  <2>2. CASE k < n
    <3>1. n \in 1..n /\ End(fs[k]) <= fs[n].slots
      BY <1>2, <1>4, <2>2
    <3> QED  BY <1>3, <3>1
  <2> QED  BY <1>3, <2>1, <2>2
<1>6. Last(fs).try = -1
  BY <1>2 DEF Shaped, Tiled
<1> QED  BY <1>1, <1>2, <1>3, <1>5, <1>6

(* The first i frames are left, the last of them with other locals and
   stopped at no `try`.                                                    *)
Retops(new, old, i) ==
    /\ Len(new) = i /\ \A k \in 1..i : new[k].slots = old[k].slots
    /\ \A k \in 1..(i - 1) : new[k] = old[k]
    /\ new[i].try = -1

(* The stack is that of those frames: below the last one it is named as it
   was, above that its locals have names.                                  *)
NamedAs(new, old, f) ==
    /\ f.slots <= Len(old)
    /\ \A j \in 1..Len(new) : IF j <= f.slots THEN new[j].var # 0 <=> old[j].var # 0
                              ELSE new[j].var # 0 <=> j < End(f)

(* A stack that lost frames, slots or locals is shaped if what is left of the
   frames and the names of the slots go together.                          *)
LEMMA ShapedAgain ==
    ASSUME NEW U, NEW co \in CoroOf(U), NEW temps, Shaped(co, temps),
           NEW W, NEW v \in CoroOf(W), NEW i \in 1..Len(co.frames),
           Retops(v.frames, co.frames, i), NamedAs(v.stack, co.stack, v.frames[i]),
           NEW more, End(v.frames[i]) <= Len(v.stack) + 1,
           Len(v.stack) < End(v.frames[i]) + more,
           Len(v.stack) < v.cap, Len(v.frames) < v.framecap
    PROVE  Shaped(v, more)
<1> DEFINE old == co.frames
           new == v.frames
           n == Len(old)
<1>1. /\ n \in Nat /\ new \in Seq(FrameOf(W)) /\ Len(new) = i /\ i \in Nat \ {0} /\ i <= n
      /\ Len(co.stack) \in Nat /\ Len(v.stack) \in Nat
      /\ \A k \in 1..n : old[k].slots \in Nat \ {0} /\ End(old[k]) \in Nat /\ old[k].slots < End(old[k])
  <2>1. new \in Seq(FrameOf(W)) /\ Len(v.stack) \in Nat
    BY DEF CoroOf
  <2> QED  BY <2>1, FrameFacts DEF Retops
<1>2. /\ old # <<>> /\ old[1].slots = 1
      /\ \A k, m \in 1..n : k < m => End(old[k]) <= old[m].slots
      /\ \A k \in 1..n : k < n => Waits(old[k], old[k + 1])
      /\ n <= FramesMax
      /\ \A j \in 1..Len(co.stack) : co.stack[j].var # 0 <=> IsLocal(old, j)
  BY DEF Shaped, Tiled
<1>3. /\ \A k \in 1..i : new[k].slots = old[k].slots
      /\ \A k \in 1..(i - 1) : new[k] = old[k]
      /\ new[i].try = -1
  BY DEF Retops
<1>4. /\ new[i].slots <= Len(co.stack)
      /\ \A j \in 1..Len(v.stack) : IF j <= new[i].slots THEN v.stack[j].var # 0 <=> co.stack[j].var # 0
                                    ELSE v.stack[j].var # 0 <=> j < End(new[i])
  BY DEF NamedAs
<1>5. new[i] \in FrameOf(W) /\ Last(new) = new[i]
  BY <1>1 DEF Last
<1> HIDE DEF old, new
<1>6. new[i].slots \in Nat \ {0} /\ End(new[i]) \in Nat /\ new[i].slots < End(new[i])
  BY <1>5, FrameEnd
<1>7. \A k, m \in 1..Len(new) : k < m => End(new[k]) <= new[m].slots
  <2> SUFFICES ASSUME NEW k \in 1..i, NEW m \in 1..i, k < m PROVE End(new[k]) <= new[m].slots
    BY <1>1
  <2>1. k \in 1..(i - 1) /\ k \in 1..n /\ m \in 1..n
    BY <1>1
  <2> QED  BY <1>2, <1>3, <2>1
<1>8. \A k \in 1..Len(new) : k < Len(new) => Waits(new[k], new[k + 1])
  <2> SUFFICES ASSUME NEW k \in 1..i, k < i PROVE Waits(new[k], new[k + 1])
    BY <1>1
  <2>1. k \in 1..(i - 1) /\ k \in 1..n /\ k < n /\ k + 1 \in 1..i
    BY <1>1
  <2>2. Waits(old[k], old[k + 1])
    BY <1>2, <2>1
  <2>3. new[k] = old[k] /\ new[k + 1].slots = old[k + 1].slots
    BY <1>3, <2>1
  <2> QED  BY <2>2, <2>3 DEF Waits
<1>9. Tiled(new)
  <2>1. new # <<>> /\ new[1].slots = 1 /\ new[Len(new)].try = -1
    <3>1. 1 \in 1..i
      BY <1>1
    <3> QED  BY <1>1, <1>2, <1>3, <3>1
  <2> QED  BY <1>7, <1>8, <2>1 DEF Tiled
<1>10. ASSUME NEW j \in 1..Len(v.stack) PROVE v.stack[j].var # 0 <=> IsLocal(new, j)
  <2>0. j \in Nat \ {0}
    BY <1>1
  <2>1. CASE j <= new[i].slots
    <3>1. j \in 1..Len(co.stack) /\ (v.stack[j].var # 0 <=> IsLocal(old, j))
      <4>1. j \in 1..Len(co.stack)
        BY <1>1, <1>4, <1>6, <2>0, <2>1
      <4>2. v.stack[j].var # 0 <=> co.stack[j].var # 0
        BY <1>4, <2>1
      <4> QED  BY <1>2, <4>1, <4>2
    <3>2. ASSUME NEW k \in 1..n, old[k].slots < j PROVE k \in 1..(i - 1) /\ k \in 1..i
      <4>1. i \in 1..n /\ old[i].slots = new[i].slots
        BY <1>1, <1>3
      <4>2. ASSUME k >= i PROVE FALSE
        <5>1. k = i \/ i < k
          BY <1>1, <4>2
        <5>2. i < k => End(old[i]) <= old[k].slots
          BY <1>2, <4>1
        <5> QED  BY <1>1, <2>0, <2>1, <3>2, <4>1, <5>1, <5>2
      <4> QED  BY <1>1, <4>2
    <3>3. ASSUME IsLocal(old, j) PROVE IsLocal(new, j)
      <4>1. PICK k \in 1..n : old[k].slots < j /\ j < End(old[k])
        BY <3>3 DEF IsLocal
      <4>2. new[k] = old[k] /\ k \in 1..Len(new)
        BY <1>1, <1>3, <3>2, <4>1
      <4> QED  BY <4>1, <4>2 DEF IsLocal
    <3>4. ASSUME IsLocal(new, j) PROVE IsLocal(old, j)
      <4>1. PICK k \in 1..i : new[k].slots < j /\ j < End(new[k])
        BY <1>1, <3>4 DEF IsLocal
      <4>2. k \in 1..n /\ old[k].slots < j
        BY <1>1, <1>3, <4>1
      <4>3. new[k] = old[k]
        BY <1>3, <3>2, <4>2
      <4> QED  BY <4>1, <4>2, <4>3 DEF IsLocal
    <3> QED  BY <3>1, <3>3, <3>4
  <2>2. CASE ~(j <= new[i].slots)
    <3>1. v.stack[j].var # 0 <=> j < End(new[i])
      BY <1>4, <2>2
    <3>2. new[i].slots < j /\ i \in 1..Len(new)
      BY <1>1, <1>6, <2>0, <2>2
    <3>3. ASSUME IsLocal(new, j) PROVE j < End(new[i])
      <4>1. PICK k \in 1..i : new[k].slots < j /\ j < End(new[k])
        BY <1>1, <3>3 DEF IsLocal
      <4>2. CASE k = i
        BY <4>1, <4>2
      <4>3. CASE k # i
        <5>1. k < i /\ k \in 1..(i - 1) /\ k \in 1..n
          BY <1>1, <4>3
        <5>2. End(new[k]) <= new[i].slots /\ End(new[k]) \in Nat
          BY <1>1, <1>3, <1>7, <3>2, <5>1
        <5> QED  BY <1>6, <2>0, <2>2, <4>1, <5>2
      <4> QED  BY <4>2, <4>3
    <3> QED  BY <3>1, <3>2, <3>3 DEF IsLocal
  <2> QED  BY <2>1, <2>2
<1>11. Len(new) <= FramesMax
  BY <1>1, <1>2, CoroutineAssumption
<1> QED  BY <1>1, <1>5, <1>9, <1>10, <1>11 DEF Shaped, new

-----------------------------------------------------------------------------
(* The chain of coroutines. *)

(* The running coroutine goes on, the others keep their frames. *)
LEMMA ChainGoesOn ==
    ASSUME NEW cs, NEW top, NEW below, ChainOf(cs, top, below), NEW ds,
           \A c \in Coros : ds[c].caller = cs[c].caller,
           Shaped(ds[top], MaxTemps),
           \A c \in Coros : c # top => \/ ds[c] = cs[c]
                                       \/ /\ cs[c] # NoCoro
                                          /\ Shaped(cs[c], MaxTemps - 1) => Shaped(ds[c], MaxTemps - 1)
    PROVE  ChainOf(ds, top, below)
<1>1. below \in Activations /\ Len(below) \in Nat /\ top \in Coros
  BY DEF ChainOf, Activations
<1>2. \A k \in 1..Len(below) : below[k].running \in Coros /\ below[k].running # top
  <2>1. PICK S : S = [running : Coros, caller : Coros \cup {None}]
    OBVIOUS
  <2>2. \A k \in 1..Len(below) : below[k] \in S
    <3>1. below \in Seq(S)
      BY <1>1, <2>1 DEF Activations
    <3> QED  BY ONLY <3>1
  <2>3. \A k \in 1..Len(below) : below[k].running \in Coros
    BY <2>1, <2>2
  <2> QED  BY <2>3 DEF ChainOf
<1>3. ASSUME NEW k \in 1..Len(below)
      PROVE  ds[IF k = Len(below) THEN top ELSE below[k + 1].running].caller = below[k].running
  <2>1. PICK c : c = IF k = Len(below) THEN top ELSE below[k + 1].running
    OBVIOUS
  <2>2. c \in Coros /\ cs[c].caller = below[k].running
    <3>1. k # Len(below) => k + 1 \in 1..Len(below)
      BY <1>1
    <3>2. c \in Coros
      BY <1>1, <1>2, <2>1, <3>1
    <3> QED  BY <2>1, <3>2 DEF ChainOf
  <2> QED  BY <2>1, <2>2
<1>4. \A k \in 1..Len(below) : Shaped(ds[below[k].running], MaxTemps - 1)
  <2> TAKE k \in 1..Len(below)
  <2>1. Shaped(cs[below[k].running], MaxTemps - 1)
    BY DEF ChainOf
  <2> QED  BY <1>2, <2>1
<1>5. ds[Main].caller = None
  BY CoroutineAssumption DEF ChainOf
<1>6. \A c \in Coros : c # top /\ (\A k \in 1..Len(below) : below[k].running # c) => ds[c] = NoCoro
  <2> SUFFICES ASSUME NEW c \in Coros, c # top, \A k \in 1..Len(below) : below[k].running # c
               PROVE  ds[c] = NoCoro
    OBVIOUS
  <2>1. cs[c] = NoCoro
    BY DEF ChainOf
  <2> QED  BY <2>1
<1>7. /\ \A k \in 1..Len(below) : below[k].running # top
      /\ \A j, k \in 1..Len(below) : below[j].running = below[k].running => j = k
      /\ Main = top \/ \E k \in 1..Len(below) : below[k].running = Main
  BY DEF ChainOf
<1> QED  BY ONLY <1>1, <1>3, <1>4, <1>5, <1>6, <1>7, Shaped(ds[top], MaxTemps) DEF ChainOf

(* What an instruction finds. *)
LEMMA Alive ==
    ASSUME IInv, Running
    PROVE  /\ result = "running" /\ running \in Coros /\ Chained /\ Sound(coro, upvalues, global)
           /\ World \in Worlds(Used(upvalues)) /\ Fits(coro, running, World, global)
           /\ coro \in [Coros -> CoroOf(Used(upvalues))]
           /\ Co \in CoroOf(Used(upvalues)) /\ World.co = Co /\ World.up = upvalues
           /\ World.ok = TRUE /\ Shaped(Co, MaxTemps)
<1>1. result = "running" /\ Chained /\ Typed(coro, upvalues, global) /\ Exact(coro, upvalues)
  BY DEF IInv, Stopped, Running
<1>2. running \in Coros /\ Shaped(coro[running], MaxTemps)
  BY <1>1 DEF Chained, ChainOf
<1>3. Sound(coro, upvalues, global)
  BY <1>1 DEF Sound
<1>4. World = [co |-> coro[running], up |-> upvalues, ok |-> TRUE]
  BY DEF World
<1>5. Fits(coro, running, World, global)
  BY <1>2, <1>3, <1>4, SoundFits
<1>6. World.co = coro[running] /\ World.up = upvalues /\ World.ok = TRUE
  BY <1>4
<1>7. World \in Worlds(Used(upvalues)) /\ coro \in [Coros -> CoroOf(Used(upvalues))]
  BY <1>5, <1>6 DEF Fits
<1> QED  BY <1>1, <1>2, <1>3, <1>5, <1>6, <1>7 DEF Co

(* The program may always stop. *)
LEMMA StopKeeps ==
    ASSUME NEW r \in {"ok", "error", "crash", "astray"}, Stop(r)
    PROVE  IInv' /\ result' # "running"
BY DEF Stop, IInv, Stopped

(* An instruction that leaves a world that fits keeps the invariant. *)
LEMMA BecomeKeeps ==
    ASSUME IInv, Running, NEW w, NEW g, Become(w, g), Fits(coro, running, w, g),
           w.ok = TRUE => Shaped(w.co, MaxTemps) /\ w.co.caller = Co.caller
    PROVE  IInv' /\ (result' = "running" => running' = running /\ coro' = [coro EXCEPT ![running] = w.co])
<1>1. running \in Coros /\ Chained /\ coro \in [Coros -> CoroOf(Used(upvalues))] /\ result = "running"
      /\ Co = coro[running]
  BY Alive DEF Co
<1>2. w.ok \in BOOLEAN
  BY DEF Fits, Worlds
<1>3. CASE w.ok = FALSE
  <2>1. Stop("crash")
    BY <1>3 DEF Become
  <2> QED  BY <2>1, StopKeeps
<1>4. CASE w.ok = TRUE
  <2> DEFINE cs == [coro EXCEPT ![running] = w.co]
  <2>1. Settle(cs, w.up, g) /\ running' = running /\ saved' = saved /\ result' = result
    BY <1>4 DEF Become
  <2>2. Sound(cs, w.up, g)
    BY <1>1, FitsIsSound
  <2>3. cs[running] = w.co /\ \A c \in Coros : c # running => cs[c] = coro[c]
    BY <1>1
  <2> HIDE DEF cs
  <2>4. coro' = cs /\ global' = g /\ Sound(cs, upvalues', g)
    BY <2>1, <2>2, SettleKeeps
  <2>5. ChainOf(cs, running, saved)
    <3>1. ChainOf(coro, running, saved)
      BY <1>1 DEF Chained
    <3>2. \A c \in Coros : cs[c].caller = coro[c].caller
      BY <1>1, <1>4, <2>3
    <3> QED  BY <1>4, <2>3, <3>1, <3>2, ChainGoesOn
  <2>6. Chained'
    BY <2>1, <2>4, <2>5 DEF Chained
  <2>7. IInv'
    BY <1>1, <2>1, <2>4, <2>6 DEF IInv, Sound
  <2> QED  BY <2>1, <2>4, <2>7 DEF cs
<1> QED  BY <1>2, <1>3, <1>4

(* From a frame to where the next one starts, or to the top of the stack, the
   slots with names are its locals.                                        *)
LEMMA NamedInFrame ==
    ASSUME NEW U, NEW co \in CoroOf(U), NEW temps, Shaped(co, temps),
           NEW k \in 1..Len(co.frames), NEW j \in 1..Len(co.stack),
           co.frames[k].slots <= j, k < Len(co.frames) => j <= co.frames[k + 1].slots
    PROVE  co.stack[j].var # 0 <=> co.frames[k].slots < j /\ j < End(co.frames[k])
<1> DEFINE fs == co.frames
           n == Len(fs)
<1>1. /\ n \in Nat \ {0}
      /\ \A i \in 1..n : fs[i].slots \in Nat \ {0} /\ End(fs[i]) \in Nat /\ fs[i].slots < End(fs[i])
  BY FrameFacts
<1>2. /\ \A i, m \in 1..n : i < m => End(fs[i]) <= fs[m].slots
      /\ co.stack[j].var # 0 <=> IsLocal(fs, j)
  BY DEF Shaped, Tiled
<1>3. k \in 1..n /\ fs[k].slots <= j /\ (k < n => j <= fs[k + 1].slots) /\ j \in Nat \ {0}
  <2>1. Len(co.stack) \in Nat
    BY DEF CoroOf
  <2> QED  BY <2>1
<1> HIDE DEF fs, n
<1>4. ASSUME NEW i \in 1..n, fs[i].slots < j, j < End(fs[i]) PROVE i = k
  <2>1. CASE i < k
    <3>1. End(fs[i]) <= fs[k].slots
      BY <1>2, <1>3, <2>1
    <3> QED  BY <1>1, <1>3, <1>4, <3>1
  <2>2. CASE k < i
    <3>1. k + 1 \in 1..n /\ k < n /\ (i = k + 1 \/ k + 1 < i)
      BY <1>1, <1>3, <2>2
    <3>2. j <= fs[k + 1].slots /\ fs[k + 1].slots \in Nat /\ End(fs[k + 1]) \in Nat
          /\ fs[k + 1].slots < End(fs[k + 1])
      BY <1>1, <1>3, <3>1
    <3>3. i = k + 1 \/ End(fs[k + 1]) <= fs[i].slots
      BY <1>2, <3>1
    <3>4. i = k + 1 \/ fs[k + 1].slots < fs[i].slots
      BY <1>1, <3>2, <3>3
    <3> QED  BY <1>1, <1>3, <1>4, <3>2, <3>4
  <2> QED  BY <1>1, <1>3, <2>1, <2>2
<1> QED  BY <1>1, <1>2, <1>3, <1>4 DEF IsLocal, fs, n

(* The running function has its locals on the stack and nothing but
   temporaries above them.                                                 *)
LEMMA TopOfStack ==
    ASSUME NEW U, NEW co \in CoroOf(U), NEW temps, Shaped(co, temps), NEW f, f = Last(co.frames)
    PROVE  /\ f.slots \in 1..Len(co.stack) /\ f.try = -1 /\ f \in FrameOf(U)
           /\ End(f) <= Len(co.stack) + 1 /\ Len(co.stack) < End(f) + temps
           /\ Temps(f, co) = Len(co.stack) + 1 - End(f) /\ Temps(f, co) \in Nat
           /\ \A j \in 1..Len(co.stack) : f.slots <= j => (co.stack[j].var # 0 <=> f.slots < j /\ j < End(f))
<1>1. /\ Len(co.frames) \in Nat \ {0} /\ Len(co.stack) \in Nat /\ f = co.frames[Len(co.frames)]
      /\ f.try = -1 /\ Len(co.frames) \in 1..Len(co.frames)
  BY FrameFacts
<1>2. f \in FrameOf(U) /\ End(f) <= Len(co.stack) + 1 /\ Len(co.stack) < End(f) + temps
  BY <1>1, FrameFacts DEF Shaped
<1>3. f.slots \in Nat \ {0} /\ End(f) \in Nat /\ f.slots < End(f) /\ End(f) = f.slots + f.locals
      /\ f.locals \in Nat
  BY <1>2, FrameEnd
<1>4. Temps(f, co) = Len(co.stack) + 1 - End(f) /\ Temps(f, co) \in Nat
  <2>1. PICK e \in Nat, n \in Nat, l \in Nat, a \in Nat :
             e = End(f) /\ n = Len(co.stack) /\ l = f.locals /\ a = f.slots
    BY <1>1, <1>3
  <2>2. e = a + l /\ e <= n + 1
    BY <1>2, <1>3, <2>1
  <2>3. Temps(f, co) = n - (a + l - 1)
    BY <2>1 DEF Temps
  <2>4. n - (a + l - 1) = n + 1 - e /\ n + 1 - e \in Nat
    BY ONLY <2>2, e \in Nat, n \in Nat, l \in Nat, a \in Nat
  <2> QED  BY ONLY <2>1, <2>3, <2>4
<1>5. \A j \in 1..Len(co.stack) : f.slots <= j => (co.stack[j].var # 0 <=> f.slots < j /\ j < End(f))
  BY <1>1, NamedInFrame
<1>6. f.slots \in 1..Len(co.stack)
  BY <1>1, <1>2, <1>3
<1> QED  BY <1>1, <1>2, <1>4, <1>5, <1>6

(* The names of the slots are the old ones, and what is above has none. *)
Overlaid(new, old) ==
    \A j \in 1..Len(new) : /\ j <= Len(old) => (new[j].var # 0 <=> old[j].var # 0)
                           /\ j > Len(old) => new[j].var = 0

(* The last frame with its locals, another stack on top of it. *)
LEMMA SameFrames ==
    ASSUME NEW U, NEW co \in CoroOf(U), NEW temps, Shaped(co, temps),
           NEW W, NEW v \in CoroOf(W), v.frames = co.frames,
           NEW f, f = Last(co.frames), Overlaid(v.stack, co.stack),
           NEW more, End(f) <= Len(v.stack) + 1, Len(v.stack) < End(f) + more,
           Len(v.stack) < v.cap, Len(v.frames) < v.framecap
    PROVE  Shaped(v, more)
<1>1. /\ Len(co.frames) \in Nat \ {0} /\ Len(co.stack) \in Nat /\ f = co.frames[Len(co.frames)]
      /\ f.try = -1 /\ Len(co.frames) \in 1..Len(co.frames) /\ Len(v.stack) \in Nat
  <2>1. Len(v.stack) \in Nat
    BY DEF CoroOf
  <2> QED  BY <2>1, FrameFacts
<1>2. PICK i \in 1..Len(co.frames) : i = Len(co.frames)
  BY <1>1
<1>3. Retops(v.frames, co.frames, i)
  BY <1>1, <1>2 DEF Retops
<1>4. /\ f.slots \in 1..Len(co.stack) /\ f.slots < End(f) /\ f.slots \in Nat /\ End(f) \in Nat
      /\ End(f) <= Len(co.stack) + 1
      /\ \A j \in 1..Len(co.stack) : f.slots <= j => (co.stack[j].var # 0 <=> f.slots < j /\ j < End(f))
  BY TopOfStack, FrameEnd
<1>5. NamedAs(v.stack, co.stack, f)
  <2>1. ASSUME NEW j \in 1..Len(v.stack), j <= f.slots PROVE v.stack[j].var # 0 <=> co.stack[j].var # 0
    BY <1>1, <1>4, <2>1 DEF Overlaid
  <2>2. ASSUME NEW j \in 1..Len(v.stack), ~(j <= f.slots) PROVE v.stack[j].var # 0 <=> j < End(f)
    <3>1. CASE j <= Len(co.stack)
      <4>1. j \in 1..Len(co.stack) /\ f.slots <= j /\ f.slots < j
        BY <1>1, <1>4, <2>2, <3>1
      <4> QED  BY <1>4, <3>1, <4>1 DEF Overlaid
    <3>2. CASE j > Len(co.stack)
      BY <1>1, <1>4, <3>2 DEF Overlaid
    <3> QED  BY <1>1, <3>1, <3>2
  <2>3. f.slots <= Len(co.stack)
    BY <1>4
  <2> QED  BY <2>1, <2>2, <2>3 DEF NamedAs
<1>6. v.frames[i] = f
  BY <1>1, <1>2
<1> QED  BY <1>3, <1>5, <1>6, ShapedAgain

(* One temporary more. *)
LEMMA PushShape ==
    ASSUME NEW U, NEW w \in Worlds(U), NEW s \in SlotOf(U), s.var = 0,
           NEW temps, Shaped(w.co, temps),
           NEW more, Len(w.co.stack) + 1 < End(Last(w.co.frames)) + more,
           Push(w, s).ok = TRUE
    PROVE  Shaped(Push(w, s).co, more) /\ Push(w, s).co.caller = w.co.caller
<1> DEFINE v == Push(w, s).co
           co == w.co
           f == Last(co.frames)
<1>1. /\ v \in CoroOf(U) /\ co \in CoroOf(U) /\ v.stack = Append(co.stack, s)
      /\ v.frames = co.frames /\ v.framecap = co.framecap /\ v.caller = co.caller
      /\ Len(co.stack) < co.cap => Len(co.stack) + 1 < v.cap
  <2>1. PICK p : p = Push(w, s)
    OBVIOUS
  <2>2. /\ p \in Worlds(U) /\ Alike(p, w) /\ p.co.stack = Append(w.co.stack, s)
        /\ Len(w.co.stack) < w.co.cap => Len(w.co.stack) + 1 < p.co.cap
    BY <2>1, PushEffect
  <2> QED  BY <2>1, <2>2 DEF Alike, Worlds
<1>2. co.stack \in Seq(SlotOf(U)) /\ Len(co.stack) \in Nat /\ Len(co.stack) < co.cap
      /\ Len(co.frames) < co.framecap
  BY <1>1 DEF CoroOf, Shaped
<1>3. /\ Len(v.stack) = Len(co.stack) + 1 /\ v.stack[Len(co.stack) + 1] = s
      /\ \A j \in 1..Len(co.stack) : v.stack[j] = co.stack[j]
  BY <1>1, <1>2, AppendProperties
<1> HIDE DEF v, co
<1>4. Overlaid(v.stack, co.stack)
  <2> SUFFICES ASSUME NEW j \in 1..Len(v.stack)
               PROVE  /\ j <= Len(co.stack) => (v.stack[j].var # 0 <=> co.stack[j].var # 0)
                      /\ j > Len(co.stack) => v.stack[j].var = 0
    BY DEF Overlaid
  <2>1. j \in 1..Len(co.stack) \/ j = Len(co.stack) + 1
    BY <1>2, <1>3
  <2> QED  BY <1>2, <1>3, <2>1
<1>5. End(f) <= Len(co.stack) + 1 /\ End(f) \in Nat /\ Shaped(co, temps)
  <2>1. Shaped(co, temps)
    BY DEF co
  <2> QED  BY <1>1, <2>1, TopOfStack, FrameEnd
<1>6. /\ End(f) <= Len(v.stack) + 1 /\ Len(v.stack) < End(f) + more
      /\ Len(v.stack) < v.cap /\ Len(v.frames) < v.framecap
  BY <1>1, <1>2, <1>3, <1>5 DEF co
<1>7. Shaped(v, more)
  <2> HIDE DEF f
  <2>1. f = Last(co.frames)
    BY DEF f
  <2> QED  BY <1>1, <1>4, <1>5, <1>6, <2>1, SameFrames
<1> QED  BY <1>1, <1>7 DEF v, co

-----------------------------------------------------------------------------
(* Instructions that push a value. *)

(* The running function: F, its locals and its temporaries. *)
LEMMA Function ==
    ASSUME IInv, Running
    PROVE  /\ F = Last(Co.frames) /\ F \in FrameOf(Used(upvalues)) /\ F.try = -1
           /\ Co.stack \in Seq(SlotOf(Used(upvalues))) /\ Len(Co.stack) \in Nat
           /\ F.slots \in Nat \ {0} /\ F.locals \in Nat \ {0} /\ F.locals <= MaxLocals
           /\ End(F) \in Nat /\ End(F) = F.slots + F.locals
           /\ F.slots < End(F) /\ F.slots \in 1..Len(Co.stack)
           /\ End(F) <= Len(Co.stack) + 1 /\ Len(Co.stack) < End(F) + MaxTemps
           /\ Temps(F, Co) = Len(Co.stack) + 1 - End(F) /\ Temps(F, Co) \in Nat
           /\ \A j \in 1..Len(Co.stack) :
                 F.slots <= j => (Co.stack[j].var # 0 <=> F.slots < j /\ j < End(F))
           /\ \A i \in Locals : F.slots + i \in 1..Len(Co.stack) /\ Co.stack[F.slots + i].var # 0
           /\ \A i \in 1..Len(Co.stack) : /\ Co.stack[i] \in SlotOf(Used(upvalues))
                                          /\ Co.stack[i].val \in Values(Used(upvalues))
           /\ MaxTemps \in Nat
<1> DEFINE U == Used(upvalues)
<1>1. Co \in CoroOf(U) /\ Shaped(Co, MaxTemps)
  BY Alive
<1> HIDE DEF U
<1>2. F = Last(Co.frames)
  BY DEF F
<1>3. Co.stack \in Seq(SlotOf(U)) /\ Len(Co.stack) \in Nat
  BY <1>1 DEF CoroOf
<1>4. /\ F.slots \in 1..Len(Co.stack) /\ F.try = -1 /\ F \in FrameOf(U)
      /\ End(F) <= Len(Co.stack) + 1 /\ Len(Co.stack) < End(F) + MaxTemps
      /\ Temps(F, Co) = Len(Co.stack) + 1 - End(F) /\ Temps(F, Co) \in Nat
      /\ \A j \in 1..Len(Co.stack) : F.slots <= j => (Co.stack[j].var # 0 <=> F.slots < j /\ j < End(F))
  BY <1>1, <1>2, TopOfStack
<1>5. /\ F.slots \in Nat \ {0} /\ F.locals \in Nat \ {0} /\ F.locals <= MaxLocals
      /\ End(F) \in Nat /\ F.slots < End(F) /\ End(F) = F.slots + F.locals
  BY <1>4, FrameEnd
<1>6. ASSUME NEW i \in Locals PROVE F.slots + i \in 1..Len(Co.stack) /\ Co.stack[F.slots + i].var # 0
  <2>1. i \in 1..(F.locals - 1)
    BY DEF Locals
  <2>2. F.slots + i \in 1..Len(Co.stack) /\ F.slots < F.slots + i /\ F.slots + i < End(F)
    <3>1. PICK a \in Nat, l \in Nat, e \in Nat, n \in Nat :
               a = F.slots /\ l = F.locals /\ e = End(F) /\ n = Len(Co.stack)
      BY <1>3, <1>5
    <3>2. e = a + l /\ e <= n + 1 /\ i \in 1..(l - 1)
      BY <1>4, <1>5, <2>1, <3>1
    <3>3. a + i \in 1..n /\ a < a + i /\ a + i < e
      BY ONLY <3>2, a \in Nat, l \in Nat, e \in Nat, n \in Nat
    <3> QED  BY <3>1, <3>3
  <2> QED  BY <1>4, <1>5, <2>2
<1>7. \A i \in 1..Len(Co.stack) : Co.stack[i] \in SlotOf(U) /\ Co.stack[i].val \in Values(U)
  <2>1. \A i \in 1..Len(Co.stack) : Co.stack[i] \in SlotOf(U)
    BY <1>3
  <2> QED  BY <2>1 DEF SlotOf
<1>8. MaxTemps \in Nat
  BY CoroutineAssumption
<1> QED  BY <1>2, <1>3, <1>4, <1>5, <1>6, <1>7, <1>8 DEF U

(* A slot without a name is as good as any. *)
LEMMA Nameless ==
    ASSUME NEW U, NEW v \in Values(U)
    PROVE  Slot(0, v) \in SlotOf(U) /\ Slot(0, v).var = 0 /\ \A cs, up : IsNew(0, cs, up)
<1>1. 0 \in 0..MaxVars
  BY CoroutineAssumption
<1> QED  BY <1>1 DEF Slot, SlotOf, IsNew

(* OP_CONST and the OP_GET_ instructions, for a value there is. *)
LEMMA PushKeeps ==
    ASSUME IInv, NEW v \in Values(Used(upvalues)), PushValue(v)
    PROVE  IInv'
<1>1. Running /\ Room /\ Become(Push(World, Slot(0, v)), global)
  BY DEF PushValue
<1> DEFINE U == Used(upvalues)
           s == Slot(0, v)
           w == Push(World, s)
<1>2. /\ World \in Worlds(U) /\ Fits(coro, running, World, global) /\ running \in Coros
      /\ World.co = Co /\ World.up = upvalues /\ Shaped(Co, MaxTemps)
  BY <1>1, Alive
<1>3. s \in SlotOf(U) /\ s.var = 0 /\ IsNew(s.var, [coro EXCEPT ![running] = World.co], World.up)
  BY Nameless
<1> HIDE DEF s
<1>4. Fits(coro, running, w, global)
  BY <1>2, <1>3, PushFits
<1>5. Len(Co.stack) + 1 < End(Last(Co.frames)) + MaxTemps
  <2>1. /\ F = Last(Co.frames) /\ Len(Co.stack) \in Nat /\ End(F) \in Nat /\ MaxTemps \in Nat
        /\ Temps(F, Co) = Len(Co.stack) + 1 - End(F) /\ Temps(F, Co) < MaxTemps
    BY <1>1, Function DEF Room
  <2> QED  BY ONLY <2>1
<1>6. w.ok = TRUE => Shaped(w.co, MaxTemps) /\ w.co.caller = Co.caller
  BY <1>2, <1>3, <1>5, PushShape
<1>7. Become(w, global)
  BY <1>1 DEF s
<1> HIDE DEF w
<1> QED  BY <1>1, <1>4, <1>6, <1>7, BecomeKeeps

(* OP_CONST *)
LEMMA ConstKeeps ==
    ASSUME IInv, Const
    PROVE  IInv'
<1>1. PICK v \in Data \cup {Exc} : PushValue(v)
  BY DEF Const
<1>2. v \in Values(Used(upvalues))
  BY DEF Values
<1> QED  BY <1>1, <1>2, PushKeeps

(* OP_GET_LOCAL *)
LEMMA GetLocalKeeps ==
    ASSUME IInv, Running, GetLocal
    PROVE  IInv'
<1>1. PICK i \in Locals : PushValue(Co.stack[F.slots + i].val)
  BY DEF GetLocal
<1>2. Co.stack[F.slots + i].val \in Values(Used(upvalues))
  BY Function
<1> QED  BY <1>1, <1>2, PushKeeps

(* An upvalue of the running function is in use. *)
LEMMA CapturedInUse ==
    ASSUME IInv, Running, NEW j \in DOMAIN F.ups
    PROVE  F.ups[j] \in Used(upvalues) /\ F.ups[j] \in Upvalues
<1>1. F.ups \in Cells(Used(upvalues))
  BY Function DEF FrameOf
<1>2. F.ups[j] \in Used(upvalues)
  BY <1>1 DEF Cells
<1> QED  BY <1>2 DEF Used

(* An open upvalue is in the list of its coroutine, and points at a slot of
   its stack that has its name.                                            *)
LEMMA OpenPoints ==
    ASSUME IInv, Running, NEW u \in Upvalues, upvalues[u].open = TRUE,
           NEW c, c = upvalues[u].coro
    PROVE  /\ c \in Coros /\ Points(upvalues[u], c, coro[c])
           /\ coro[c].stack \in Seq(SlotOf(Used(upvalues)))
<1>1. Exact(coro, upvalues) /\ coro \in [Coros -> CoroOf(Used(upvalues))]
  BY Alive DEF Sound
<1>2. c \in Coros
  BY <1>1 DEF Exact, InOneCell
<1>3. Pointed(c, coro[c], upvalues)
  BY <1>1, <1>2 DEF Exact
<1>4. PICK k \in 1..Len(coro[c].open) : coro[c].open[k] = u
  BY <1>3 DEF Pointed
<1>5. Points(upvalues[u], c, coro[c])
  BY <1>3, <1>4 DEF Pointed
<1>6. coro[c].stack \in Seq(SlotOf(Used(upvalues)))
  BY <1>1, <1>2 DEF CoroOf
<1> QED  BY <1>2, <1>5, <1>6

(* OP_GET_UPVALUE: what an open upvalue addresses is a slot of a stack. *)
LEMMA GetUpvalueKeeps ==
    ASSUME IInv, Running, GetUpvalue
    PROVE  IInv'
<1>1. PICK j \in DOMAIN F.ups : PushValue(Deref(F.ups[j]))
  BY DEF GetUpvalue
<1>2. PICK u \in Upvalues : u = F.ups[j]
  BY CapturedInUse
<1>3. upvalues[u] \in UpvalueOf(Used(upvalues))
  BY Alive DEF Sound, Typed
<1>4. Deref(u) \in Values(Used(upvalues))
  <2>1. CASE upvalues[u].open = TRUE
    <3>1. PICK c \in Coros : /\ c = upvalues[u].coro /\ Points(upvalues[u], c, coro[c])
                             /\ coro[c].stack \in Seq(SlotOf(Used(upvalues)))
      BY <2>1, OpenPoints
    <3>2. coro[c].stack[upvalues[u].idx] \in SlotOf(Used(upvalues))
      BY <3>1 DEF Points
    <3>3. coro[c].stack[upvalues[u].idx].val \in Values(Used(upvalues)) /\ None \in Values(Used(upvalues))
      BY <3>2 DEF SlotOf, Values
    <3> QED  BY <2>1, <3>1, <3>3 DEF Deref
  <2>2. CASE upvalues[u].open = FALSE
    BY <1>3, <2>2 DEF Deref, UpvalueOf
  <2> QED  BY <1>3, <2>1, <2>2 DEF UpvalueOf
<1> QED  BY <1>1, <1>2, <1>4, PushKeeps

(* OP_GET_GLOBAL *)
LEMMA GetGlobalKeeps ==
    ASSUME IInv, GetGlobal
    PROVE  IInv'
<1>1. PushValue(global) /\ Running
  BY DEF GetGlobal, PushValue
<1>2. global \in Values(Used(upvalues))
  BY <1>1, Alive DEF Sound, Typed
<1> QED  BY <1>1, <1>2, PushKeeps

-----------------------------------------------------------------------------
(* Instructions that assign. *)

(* Another stack, and nothing else. *)
OnlyStack(v, w) ==
    /\ v.up = w.up /\ v.ok = w.ok
    /\ v.co.cap = w.co.cap /\ v.co.block = w.co.block /\ v.co.open = w.co.open
    /\ v.co.frames = w.co.frames /\ v.co.framecap = w.co.framecap /\ v.co.caller = w.co.caller

WithStack(w, s) == [w EXCEPT !.co.stack = s]

(* Another stack, and nothing else. *)
LEMMA PutStack ==
    ASSUME NEW U, NEW w \in Worlds(U), NEW s \in Seq(SlotOf(U)),
           NEW v, v = WithStack(w, s)
    PROVE  v \in Worlds(U) /\ v.co.stack = s /\ OnlyStack(v, w)
<1>1. PICK co \in CoroOf(U) : co = w.co
  BY DEF Worlds
<1>2. PICK b : b = [co EXCEPT !.stack = s]
  OBVIOUS
<1>3. /\ b \in CoroOf(U) /\ b.stack = s /\ b.cap = co.cap /\ b.block = co.block /\ b.open = co.open
      /\ b.frames = co.frames /\ b.framecap = co.framecap /\ b.caller = co.caller
  BY <1>2 DEF CoroOf
<1>4. v = [w EXCEPT !.co = b]
  BY <1>1, <1>2 DEF WithStack
<1>5. v \in Worlds(U) /\ v.co = b /\ v.up = w.up /\ v.ok = w.ok
  BY <1>3, <1>4 DEF Worlds
<1> QED  BY <1>1, <1>3, <1>5 DEF OnlyStack

(* The same slots with the same names. *)
SameNames(new, old) ==
    Len(new) = Len(old) /\ \A j \in 1..Len(old) : new[j].var = old[j].var

(* An assignment changes no name. *)
LEMMA PutValue ==
    ASSUME NEW U, NEW s \in Seq(SlotOf(U)), NEW i \in 1..Len(s), NEW x \in Values(U)
    PROVE  /\ [s EXCEPT ![i].val = x] \in Seq(SlotOf(U))
           /\ SameNames([s EXCEPT ![i].val = x], s)
<1>1. PICK t : t = [s[i] EXCEPT !.val = x]
  OBVIOUS
<1>2. s[i] \in SlotOf(U)
  OBVIOUS
<1>3. t \in SlotOf(U) /\ t.var = s[i].var
  BY <1>1, <1>2 DEF SlotOf
<1>4. [s EXCEPT ![i].val = x] = [s EXCEPT ![i] = t]
  BY <1>1
<1>5. PICK r : r = [s EXCEPT ![i] = t]
  OBVIOUS
<1>6. r \in Seq(SlotOf(U)) /\ Len(r) = Len(s) /\ r[i] = t /\ \A j \in 1..Len(s) : j # i => r[j] = s[j]
  BY <1>3, <1>5
<1>7. SameNames(r, s)
  BY <1>3, <1>6 DEF SameNames
<1> QED  BY <1>4, <1>5, <1>6, <1>7

(* Where a variable is depends on the names of the slots only. *)
LEMMA SameNamesFits ==
    ASSUME NEW cs, NEW c \in Coros, NEW w, NEW g, Fits(cs, c, w, g),
           NEW v \in Worlds(Used(w.up)), v.up = w.up,
           v.co.open = w.co.open, v.co.block = w.co.block,
           SameNames(v.co.stack, w.co.stack)
    PROVE  Fits(cs, c, v, g)
<1>1. PICK m \in Nat, x \in 0..MaxVars : m = 0 /\ x = 0
  BY CoroutineAssumption
<1>2. IsNew(x, [cs EXCEPT ![c] = w.co], w.up)
  BY <1>1 DEF IsNew
<1>3. Len(w.co.stack) \in Nat
  BY DEF Fits, Worlds, CoroOf
<1>4. SlotsKept(v.co.stack, w.co.stack, m, x) /\ NamesKept(v.co.stack, w.co.stack)
  <2>1. PICK new, old : new = v.co.stack /\ old = w.co.stack
    OBVIOUS
  <2>2. Len(new) = Len(old) /\ (\A j \in 1..Len(old) : new[j].var = old[j].var) /\ Len(old) \in Nat
    BY <1>3, <2>1 DEF SameNames
  <2>3. SlotsKept(new, old, m, x) /\ NamesKept(new, old)
    BY ONLY <2>2 DEF SlotsKept, NamesKept
  <2> QED  BY <2>1, <2>3
<1> QED  BY <1>1, <1>2, <1>4, StackFits

(* So do the locals of the frames. *)
LEMMA SameNamesShape ==
    ASSUME NEW U, NEW co \in CoroOf(U), NEW temps, Shaped(co, temps),
           NEW W, NEW v \in CoroOf(W), v.frames = co.frames, v.cap = co.cap, v.framecap = co.framecap,
           SameNames(v.stack, co.stack)
    PROVE  Shaped(v, temps)
<1>1. /\ Tiled(co.frames)
      /\ End(Last(co.frames)) <= Len(co.stack) + 1 /\ Len(co.stack) < End(Last(co.frames)) + temps
      /\ Len(co.stack) < co.cap
      /\ Len(co.frames) <= FramesMax /\ Len(co.frames) < co.framecap
      /\ \A j \in 1..Len(co.stack) : co.stack[j].var # 0 <=> IsLocal(co.frames, j)
  BY DEF Shaped
<1>2. Len(v.stack) = Len(co.stack) /\ \A j \in 1..Len(co.stack) : v.stack[j].var = co.stack[j].var
  BY DEF SameNames
<1> QED  BY ONLY <1>1, <1>2, v.frames = co.frames, v.cap = co.cap, v.framecap = co.framecap DEF Shaped

(* What is on top of the stack. *)
LEMMA PeekIsValue ==
    ASSUME IInv, Running, NEW n \in Nat, Temps(F, Co) > n
    PROVE  /\ Peek(n) \in Values(Used(upvalues)) /\ Len(Co.stack) - n \in 1..Len(Co.stack)
           /\ End(F) <= Len(Co.stack) - n
<1>1. PICK e \in Nat, l \in Nat : e = End(F) /\ l = Len(Co.stack) /\ e > 0
  BY Function
<1>2. l + 1 - e > n
  BY <1>1, Function
<1>3. l - n \in 1..l /\ e <= l - n
  BY ONLY <1>1, <1>2, e \in Nat, l \in Nat, n \in Nat
<1> QED  BY <1>1, <1>3, Function DEF Peek

(* OP_SET_LOCAL *)
LEMMA SetLocalKeeps ==
    ASSUME IInv, Running, NEW i \in Locals, SetLocal(i)
    PROVE  IInv'
<1> DEFINE U == Used(upvalues)
           at == F.slots + i
           s == [Co.stack EXCEPT ![at].val = Peek(0)]
           w == [World EXCEPT !.co.stack[F.slots + i].val = Peek(0)]
<1>1. Temps(F, Co) > 0 /\ Become(w, global)
  BY DEF SetLocal
<1>2. /\ World \in Worlds(U) /\ Fits(coro, running, World, global) /\ running \in Coros
      /\ World.co = Co /\ World.up = upvalues /\ Shaped(Co, MaxTemps)
  BY Alive
<1>3. at \in 1..Len(Co.stack) /\ Co.stack \in Seq(SlotOf(U)) /\ Peek(0) \in Values(U)
  BY <1>1, Function, PeekIsValue
<1>4. s \in Seq(SlotOf(U)) /\ SameNames(s, Co.stack)
  <2> HIDE DEF at
  <2> QED  BY <1>3, PutValue
<1>5. w = WithStack(World, s)
  BY <1>2 DEF WithStack
<1> HIDE DEF s, w
<1>6. w \in Worlds(U) /\ w.co.stack = s /\ OnlyStack(w, World)
  <2> HIDE DEF U
  <2>1. World \in Worlds(U) /\ s \in Seq(SlotOf(U))
    BY <1>2, <1>4
  <2> QED  BY ONLY <1>5, <2>1, PutStack
<1>7. Fits(coro, running, w, global)
  BY <1>2, <1>4, <1>6, SameNamesFits DEF OnlyStack
<1>8. Shaped(w.co, MaxTemps) /\ w.co.caller = Co.caller
  <2>1. w.co \in CoroOf(U) /\ Co \in CoroOf(U)
    BY <1>2, <1>6 DEF Worlds
  <2>2. /\ w.co.frames = Co.frames /\ w.co.cap = Co.cap /\ w.co.framecap = Co.framecap
        /\ w.co.caller = Co.caller
    BY <1>2, <1>6 DEF OnlyStack
  <2> HIDE DEF U
  <2>3. Shaped(w.co, MaxTemps)
    BY <1>2, <1>4, <1>6, <2>1, <2>2, SameNamesShape
  <2> QED  BY <2>2, <2>3
<1> QED  BY <1>1, <1>7, <1>8, BecomeKeeps

(* An assignment through an upvalue that is closed. *)
LEMMA SetClosedKeeps ==
    ASSUME IInv, Running, Temps(F, Co) > 0, NEW u \in Used(upvalues), upvalues[u].open = FALSE,
           Become([World EXCEPT !.up[u].val = Peek(0)], global)
    PROVE  IInv'
<1> DEFINE U == Used(upvalues)
           w == [World EXCEPT !.up[u].val = Peek(0)]
           o == [upvalues[u] EXCEPT !.val = Peek(0)]
           more == [upvalues EXCEPT ![u] = o]
<1>1. /\ World \in Worlds(U) /\ Fits(coro, running, World, global) /\ running \in Coros
      /\ World.co = Co /\ World.up = upvalues /\ World.ok = TRUE /\ Shaped(Co, MaxTemps)
      /\ Co \in CoroOf(U) /\ coro \in [Coros -> CoroOf(U)]
  BY Alive
<1>2. upvalues \in [Upvalues -> UpvalueOf(U)] /\ u \in Upvalues /\ Exact(coro, upvalues)
      /\ global \in Values(U)
  BY Alive DEF Sound, Typed, Used
<1>3. Peek(0) \in Values(U)
  BY PeekIsValue
<1>4. /\ o \in UpvalueOf(U) /\ o.open = FALSE /\ o.coro = upvalues[u].coro /\ o.idx = upvalues[u].idx
      /\ o.var = upvalues[u].var /\ o.var # 0
  <2>1. PICK p \in UpvalueOf(U), x \in Values(U) : p = upvalues[u] /\ x = Peek(0)
    BY <1>2, <1>3
  <2>2. o = [p EXCEPT !.val = x]
    BY <2>1
  <2>3. u \in Used(upvalues)
    OBVIOUS
  <2>4. upvalues[u].var # 0
    BY <2>3 DEF Used
  <2> HIDE DEF o
  <2> QED  BY <2>1, <2>2, <2>4 DEF UpvalueOf
<1>5. w = [World EXCEPT !.up = more]
  BY <1>1
<1> HIDE DEF o
<1>6. more \in [Upvalues -> UpvalueOf(U)] /\ more[u] = o /\ \A t \in Upvalues : t # u => more[t] = upvalues[t]
  BY <1>2, <1>4
<1> HIDE DEF more, w
<1>7. Used(more) = U
  BY <1>4, <1>6 DEF Used
<1>8. w \in Worlds(U) /\ w.co = Co /\ w.up = more /\ w.ok = TRUE
  BY <1>1, <1>5, <1>6 DEF Worlds
<1>9. MovedWith(running, Co.block, more, upvalues)
  <2> SUFFICES ASSUME NEW t \in Upvalues
               PROVE  /\ more[t].open = upvalues[t].open /\ more[t].coro = upvalues[t].coro
                      /\ more[t].idx = upvalues[t].idx /\ more[t].var = upvalues[t].var
                      /\ upvalues[t].var = 0 => more[t] = upvalues[t]
                      /\ upvalues[t].open = TRUE
                         => more[t].block = IF upvalues[t].coro = running THEN Co.block ELSE upvalues[t].block
    BY DEF MovedWith
  <2>1. CASE t = u
    BY <1>4, <1>6, <2>1
  <2>2. CASE t # u
    <3>1. more[t] = upvalues[t]
      BY <1>6, <2>2
    <3>2. ASSUME upvalues[t].open = TRUE, upvalues[t].coro = running PROVE upvalues[t].block = Co.block
      <4>1. Points(upvalues[t], running, coro[running])
        BY <3>2, OpenPoints
      <4> QED  BY <4>1 DEF Points, Co
    <3> QED  BY <3>1, <3>2
  <2> QED  BY <2>1, <2>2
<1>10. Exact([coro EXCEPT ![running] = Co], more)
  <2>1. Co.open = coro[running].open /\ Co.stack = coro[running].stack
    BY DEF Co
  <2> QED  BY <1>1, <1>2, <1>6, <1>9, <2>1, ExactMoved
<1>11. Fits(coro, running, w, global)
  BY <1>1, <1>2, <1>7, <1>8, <1>10 DEF Fits
<1>12. Become(w, global)
  BY DEF w
<1> QED  BY <1>1, <1>8, <1>11, <1>12, BecomeKeeps

(* An assignment through an upvalue that is open: to the slot it points at,
   of whichever coroutine.                                                 *)
LEMMA SetOpenKeeps ==
    ASSUME IInv, Running, Temps(F, Co) > 0, NEW u \in Upvalues, upvalues[u].open = TRUE,
           NEW o, o = upvalues[u],
           Settle([coro EXCEPT ![o.coro].stack[o.idx].val = Peek(0)], upvalues, global),
           UNCHANGED <<running, saved, result>>
    PROVE  IInv'
<1> DEFINE U == Used(upvalues)
           c == o.coro
           s == [coro[c].stack EXCEPT ![o.idx].val = Peek(0)]
           co == [coro[c] EXCEPT !.stack = s]
           cs == [coro EXCEPT ![o.coro].stack[o.idx].val = Peek(0)]
<1>1. /\ running \in Coros /\ result = "running" /\ Chained /\ coro \in [Coros -> CoroOf(U)]
      /\ upvalues \in [Upvalues -> UpvalueOf(U)] /\ global \in Values(U) /\ Exact(coro, upvalues)
  BY Alive DEF Sound, Typed
<1>2. c \in Coros /\ Points(o, c, coro[c]) /\ coro[c].stack \in Seq(SlotOf(U))
  BY OpenPoints
<1>3. Peek(0) \in Values(U)
  BY PeekIsValue
<1>4. s \in Seq(SlotOf(U)) /\ SameNames(s, coro[c].stack)
  <2>1. PICK i \in 1..Len(coro[c].stack) : i = o.idx
    BY <1>2 DEF Points
  <2> HIDE DEF c
  <2> QED  BY <1>2, <1>3, <2>1, PutValue
<1>5. cs = [coro EXCEPT ![c] = co]
  BY <1>1, <1>2
<1> HIDE DEF s, cs
<1>6. /\ co \in CoroOf(U) /\ co.stack = s /\ co.open = coro[c].open /\ co.block = coro[c].block
      /\ co.frames = coro[c].frames /\ co.cap = coro[c].cap /\ co.framecap = coro[c].framecap
      /\ co.caller = coro[c].caller
  <2>1. PICK b \in CoroOf(U) : b = coro[c]
    BY <1>1, <1>2
  <2> QED  BY <1>4, <2>1 DEF CoroOf
<1> HIDE DEF co, c
<1>7. Exact(cs, upvalues)
  <2>1. PICK m \in Nat, x \in 0..MaxVars : m = 0 /\ x = 0
    <3>1. MaxVars \in Nat
      BY CoroutineAssumption
    <3>2. 0 \in Nat /\ 0 \in 0..MaxVars
      BY ONLY <3>1
    <3> QED  BY ONLY <3>2
  <2>2. IsNew(x, coro, upvalues)
    BY <2>1 DEF IsNew
  <2>3. Len(coro[c].stack) \in Nat
    BY <1>2, SMTT(30)
  <2>4. SlotsKept(co.stack, coro[c].stack, m, x) /\ NamesKept(co.stack, coro[c].stack)
    <3>1. PICK new, old : new = co.stack /\ old = coro[c].stack
      OBVIOUS
    <3>2. Len(new) = Len(old) /\ (\A j \in 1..Len(old) : new[j].var = old[j].var) /\ Len(old) \in Nat
      BY <1>4, <1>6, <2>3, <3>1 DEF SameNames
    <3>3. SlotsKept(new, old, m, x) /\ NamesKept(new, old)
      BY ONLY <3>2 DEF SlotsKept, NamesKept
    <3> QED  BY <3>1, <3>3
  <2> QED  BY <1>1, <1>2, <1>5, <1>6, <2>2, <2>4, ExactStack
<1>8. Sound(cs, upvalues, global)
  <2>1. cs \in [Coros -> CoroOf(U)]
    BY <1>1, <1>5, <1>6
  <2> QED  BY <1>1, <1>7, <2>1 DEF Sound, Typed
<1>9. coro' = cs /\ global' = global /\ Sound(cs, upvalues', global)
  <2>1. Settle(cs, upvalues, global)
    BY DEF cs, c
  <2> QED  BY <1>8, <2>1, SettleKeeps
<1>10. cs[c] = co /\ \A d \in Coros : d # c => cs[d] = coro[d]
  BY <1>1, <1>2, <1>5
<1>11. \A t : Shaped(coro[c], t) => Shaped(co, t)
  <2> SUFFICES ASSUME NEW t, Shaped(coro[c], t) PROVE Shaped(co, t)
    OBVIOUS
  <2>1. coro[c] \in CoroOf(U)
    BY <1>1, <1>2
  <2> QED  BY <1>4, <1>6, <2>1, SameNamesShape
<1>12. coro[c] # NoCoro
  <2>1. Len(NoCoro.stack) = 0
    BY DEF NoCoro
  <2> QED  BY <1>2, <2>1 DEF Points
<1>13. ChainOf(cs, running, saved)
  <2>1. \A d \in Coros : cs[d].caller = coro[d].caller
    BY <1>6, <1>10
  <2>2. Shaped(cs[running], MaxTemps)
    <3>1. Shaped(coro[running], MaxTemps)
      BY <1>1 DEF Chained, ChainOf
    <3> QED  BY <1>1, <1>10, <1>11, <3>1
  <2>3. ChainOf(coro, running, saved)
    BY <1>1 DEF Chained
  <2> QED  BY <1>10, <1>11, <1>12, <2>1, <2>2, <2>3, ChainGoesOn
<1> QED  BY <1>1, <1>9, <1>13 DEF IInv, Sound, Chained

(* OP_SET_UPVALUE: on a slot of this coroutine or another, or in the upvalue. *)
LEMMA SetUpvalueKeeps ==
    ASSUME IInv, Running, NEW j \in DOMAIN F.ups, SetUpvalue(j)
    PROVE  IInv'
<1>1. PICK u \in Upvalues : u = F.ups[j] /\ u \in Used(upvalues)
  BY CapturedInUse
<1>2. upvalues[u].open \in BOOLEAN
  BY Alive DEF Sound, Typed, UpvalueOf
<1>3. CASE upvalues[u].open = TRUE
  <2>1. PICK o : o = upvalues[u]
    OBVIOUS
  <2>2. /\ Temps(F, Co) > 0
        /\ Settle([coro EXCEPT ![o.coro].stack[o.idx].val = Peek(0)], upvalues, global)
        /\ UNCHANGED <<running, saved, result>>
    BY <1>1, <1>3, <2>1 DEF SetUpvalue
  <2> QED  BY <1>3, <2>1, <2>2, SetOpenKeeps
<1>4. CASE upvalues[u].open = FALSE
  <2>1. Temps(F, Co) > 0 /\ Become([World EXCEPT !.up[u].val = Peek(0)], global)
    BY <1>1, <1>4 DEF SetUpvalue
  <2> QED  BY <1>1, <1>4, <2>1, SetClosedKeeps
<1> QED  BY <1>2, <1>3, <1>4

(* OP_SET_GLOBAL *)
LEMMA SetGlobalKeeps ==
    ASSUME IInv, SetGlobal
    PROVE  IInv'
<1>1. PICK g : Running /\ Temps(F, Co) > 0 /\ Become(World, g) /\ (g = Peek(0) \/ g = None)
  BY DEF SetGlobal
<1>2. g \in Values(Used(upvalues))
  <2>1. Peek(0) \in Values(Used(upvalues)) /\ None \in Values(Used(upvalues))
    BY <1>1, PeekIsValue DEF Values
  <2> QED  BY <1>1, <2>1
<1>3. Fits(coro, running, World, global) /\ World.up = upvalues /\ World.co = Co /\ Shaped(Co, MaxTemps)
  BY <1>1, Alive
<1>4. Fits(coro, running, World, g)
  BY <1>2, <1>3 DEF Fits
<1> QED  BY <1>1, <1>3, <1>4, BecomeKeeps

-----------------------------------------------------------------------------
(* Instructions that shrink the stack or count another local. *)

(* The first elements of a sequence. *)
LEMMA CutPrefix ==
    ASSUME NEW S, NEW s \in Seq(S), NEW m \in 0..Len(s)
    PROVE  /\ SubSeq(s, 1, m) \in Seq(S) /\ Len(SubSeq(s, 1, m)) = m
           /\ \A i \in 1..m : SubSeq(s, 1, m)[i] = s[i]
<1>1. \A i \in 1..m : s[i] \in S
  OBVIOUS
<1>2. m \in Int /\ 1 \in Int
  OBVIOUS
<1>3. /\ SubSeq(s, 1, m) \in Seq(S)
      /\ Len(SubSeq(s, 1, m)) = IF 1 <= m THEN m - 1 + 1 ELSE 0
      /\ \A i \in 1 .. m - 1 + 1 : SubSeq(s, 1, m)[i] = s[1 + i - 1]
  BY ONLY <1>1, <1>2, SubSeqProperties
<1>4. m \in Nat
  OBVIOUS
<1> QED  BY ONLY <1>3, <1>4

(* Temporaries are dropped. *)
LEMMA DropEffect ==
    ASSUME NEW U, NEW w \in Worlds(U), NEW n \in Nat, n <= Len(w.co.stack)
    PROVE  /\ Drop(w, n) \in Worlds(U) /\ OnlyStack(Drop(w, n), w)
           /\ Len(Drop(w, n).co.stack) = Len(w.co.stack) - n
           /\ \A i \in 1..(Len(w.co.stack) - n) : Drop(w, n).co.stack[i] = w.co.stack[i]
<1> DEFINE s == w.co.stack
           m == Len(s) - n
<1>1. s \in Seq(SlotOf(U)) /\ Len(s) \in Nat
  BY DEF Worlds, CoroOf
<1>2. m \in 0..Len(s)
  BY <1>1
<1>3. Drop(w, n) = WithStack(w, SubSeq(s, 1, m))
  BY DEF Drop, WithStack
<1> HIDE DEF s, m
<1>4. PICK t \in Seq(SlotOf(U)) : /\ t = SubSeq(s, 1, m) /\ Len(t) = m
                                  /\ \A i \in 1..m : t[i] = s[i]
  BY <1>1, <1>2, CutPrefix, ZenonT(30)
<1>5. Drop(w, n) \in Worlds(U) /\ Drop(w, n).co.stack = t /\ OnlyStack(Drop(w, n), w)
  <2>1. PICK v : v = Drop(w, n)
    OBVIOUS
  <2>2. v = WithStack(w, t)
    BY <1>3, <1>4, <2>1
  <2>3. v \in Worlds(U) /\ v.co.stack = t /\ OnlyStack(v, w)
    BY ONLY <2>2, w \in Worlds(U), t \in Seq(SlotOf(U)), PutStack
  <2> QED  BY <2>1, <2>3
<1> QED  BY <1>4, <1>5 DEF s, m

(* Slots without a name may go. *)
LEMMA DropFits ==
    ASSUME NEW cs, NEW c \in Coros, NEW w, NEW g, Fits(cs, c, w, g),
           NEW n \in Nat, n <= Len(w.co.stack),
           \A i \in 1..Len(w.co.stack) : i > Len(w.co.stack) - n => w.co.stack[i].var = 0
    PROVE  Fits(cs, c, Drop(w, n), g)
<1> DEFINE v == Drop(w, n)
<1>1. w \in Worlds(Used(w.up)) /\ Len(w.co.stack) \in Nat
  BY DEF Fits, Worlds, CoroOf
<1>2. /\ v \in Worlds(Used(w.up)) /\ OnlyStack(v, w)
      /\ Len(v.co.stack) = Len(w.co.stack) - n
      /\ \A i \in 1..(Len(w.co.stack) - n) : v.co.stack[i] = w.co.stack[i]
  BY <1>1, DropEffect
<1> HIDE DEF v
<1>3. PICK m \in Nat, x \in 0..MaxVars : m = 0 /\ x = 0
  BY CoroutineAssumption
<1>4. IsNew(x, [cs EXCEPT ![c] = w.co], w.up)
  BY <1>3 DEF IsNew
<1>5. SlotsKept(v.co.stack, w.co.stack, m, x) /\ NamesKept(v.co.stack, w.co.stack)
  <2>1. PICK new, old : new = v.co.stack /\ old = w.co.stack
    OBVIOUS
  <2>2. /\ Len(old) \in Nat /\ Len(new) = Len(old) - n /\ \A i \in 1..(Len(old) - n) : new[i] = old[i]
        /\ \A i \in 1..Len(old) : i > Len(old) - n => old[i].var = 0
    BY <1>1, <1>2, <2>1
  <2>3. SlotsKept(new, old, m, x) /\ NamesKept(new, old)
    BY ONLY <2>2, n \in Nat DEF SlotsKept, NamesKept
  <2> QED  BY <2>1, <2>3
<1>6. Fits(cs, c, v, g)
  BY <1>2, <1>4, <1>5, StackFits DEF OnlyStack
<1> QED  BY <1>6 DEF v

(* The temporaries of the running function may go. *)
LEMMA DropShape ==
    ASSUME NEW U, NEW w \in Worlds(U), NEW temps \in Nat, Shaped(w.co, temps),
           NEW n \in Nat, n <= Temps(Last(w.co.frames), w.co)
    PROVE  /\ n <= Len(w.co.stack) /\ Shaped(Drop(w, n).co, temps)
           /\ Drop(w, n).co.caller = w.co.caller
           /\ \A i \in 1..Len(w.co.stack) : i > Len(w.co.stack) - n => w.co.stack[i].var = 0
<1> DEFINE co == w.co
           f == Last(co.frames)
           v == Drop(w, n).co
<1>1. co \in CoroOf(U) /\ Shaped(co, temps)
  BY DEF Worlds
<1>2. /\ f.slots \in 1..Len(co.stack) /\ f \in FrameOf(U)
      /\ End(f) <= Len(co.stack) + 1 /\ Len(co.stack) < End(f) + temps
      /\ Temps(f, co) = Len(co.stack) + 1 - End(f)
      /\ \A j \in 1..Len(co.stack) : f.slots <= j => (co.stack[j].var # 0 <=> f.slots < j /\ j < End(f))
  <2> HIDE DEF co, f
  <2>1. f = Last(co.frames)
    BY DEF f
  <2> QED  BY <1>1, <2>1, TopOfStack
<1>3. End(f) \in Nat /\ f.slots \in Nat \ {0} /\ f.slots < End(f) /\ Len(co.stack) \in Nat
  <2>1. Len(co.stack) \in Nat
    BY <1>1 DEF CoroOf
  <2> HIDE DEF co, f
  <2> QED  BY <1>2, <2>1, FrameEnd
<1>4. n <= Len(co.stack) + 1 - End(f) /\ n <= Len(co.stack)
  BY <1>2, <1>3
<1>5. /\ Drop(w, n) \in Worlds(U) /\ OnlyStack(Drop(w, n), w)
      /\ Len(v.stack) = Len(co.stack) - n
      /\ \A i \in 1..(Len(co.stack) - n) : v.stack[i] = co.stack[i]
  BY <1>4, DropEffect
<1>6. /\ v.frames = co.frames /\ v.cap = co.cap /\ v.framecap = co.framecap /\ v.caller = co.caller
      /\ v \in CoroOf(U)
  BY <1>5 DEF OnlyStack, Worlds
<1> HIDE DEF v, co, f
<1>7. Shaped(v, temps)
  <2>1. f = Last(co.frames) /\ Len(co.stack) < co.cap /\ Len(co.frames) < co.framecap
    BY <1>1 DEF Shaped, f
  <2>2. Overlaid(v.stack, co.stack)
    <3>1. \A j \in 1..Len(v.stack) : j \in 1..(Len(co.stack) - n) /\ j <= Len(co.stack)
      BY <1>3, <1>5
    <3> QED  BY <1>3, <1>5, <3>1 DEF Overlaid
  <2>3. End(f) <= Len(v.stack) + 1 /\ Len(v.stack) < v.cap /\ Len(v.stack) <= Len(co.stack)
        /\ Len(v.stack) \in Nat
    <3>1. co.cap \in Nat
      BY <1>1 DEF CoroOf
    <3> QED  BY <1>3, <1>4, <1>5, <1>6, <2>1, <3>1, SMTT(30)
  <2>4. Len(v.stack) < End(f) + temps
    <3>1. Len(co.stack) < End(f) + temps /\ Len(v.stack) <= Len(co.stack)
      BY <1>2, <2>3
    <3> QED  BY ONLY <1>3, <2>3, <3>1, temps \in Nat
  <2> QED  BY <1>1, <1>6, <2>1, <2>2, <2>3, <2>4, SameFrames
<1>8. ASSUME NEW i \in 1..Len(co.stack), i > Len(co.stack) - n PROVE co.stack[i].var = 0
  <2>1. f.slots <= i /\ ~(i < End(f))
    BY <1>3, <1>4, <1>8
  <2> QED  BY <1>2, <2>1
<1> QED  BY <1>4, <1>6, <1>7, <1>8 DEF v, co

(* OP_POP *)
LEMMA PopKeeps ==
    ASSUME IInv, Pop
    PROVE  IInv'
<1>1. Running /\ Temps(F, Co) > 0 /\ Become(Drop(World, 1), global)
  BY DEF Pop
<1>2. /\ World \in Worlds(Used(upvalues)) /\ Fits(coro, running, World, global) /\ running \in Coros
      /\ World.co = Co /\ Shaped(Co, MaxTemps)
  BY <1>1, Alive
<1>3. F = Last(Co.frames) /\ Temps(F, Co) \in Nat
  BY <1>1, Function
<1>4. PICK n \in Nat : n = 1 /\ n <= Temps(Last(World.co.frames), World.co)
  BY <1>1, <1>2, <1>3
<1> DEFINE w == Drop(World, n)
<1>5. /\ n <= Len(World.co.stack) /\ Shaped(w.co, MaxTemps) /\ w.co.caller = World.co.caller
      /\ \A i \in 1..Len(World.co.stack) : i > Len(World.co.stack) - n => World.co.stack[i].var = 0
  <2>1. MaxTemps \in Nat /\ Shaped(World.co, MaxTemps)
    BY <1>2, CoroutineAssumption
  <2> QED  BY <1>2, <1>4, <2>1, DropShape
<1>6. Fits(coro, running, w, global)
  BY <1>2, <1>5, DropFits
<1>7. Become(w, global)
  BY <1>1, <1>4
<1> HIDE DEF w
<1> QED  BY <1>1, <1>2, <1>5, <1>6, <1>7, BecomeKeeps

-----------------------------------------------------------------------------
(* Another frame on top. *)
OnlyFrames(v, w) ==
    /\ v.up = w.up /\ v.ok = w.ok /\ v.co.stack = w.co.stack
    /\ v.co.cap = w.co.cap /\ v.co.block = w.co.block /\ v.co.open = w.co.open
    /\ v.co.framecap = w.co.framecap /\ v.co.caller = w.co.caller

WithFrames(w, fs) == [w EXCEPT !.co.frames = fs]

(* Other frames, and nothing else. *)
LEMMA PutFrames ==
    ASSUME NEW U, NEW w \in Worlds(U), NEW fs \in Seq(FrameOf(U)),
           NEW v, v = WithFrames(w, fs)
    PROVE  v \in Worlds(U) /\ v.co.frames = fs /\ OnlyFrames(v, w)
<1>1. PICK co \in CoroOf(U) : co = w.co
  BY DEF Worlds
<1>2. PICK b : b = [co EXCEPT !.frames = fs]
  OBVIOUS
<1>3. /\ b \in CoroOf(U) /\ b.frames = fs /\ b.cap = co.cap /\ b.block = co.block /\ b.open = co.open
      /\ b.stack = co.stack /\ b.framecap = co.framecap /\ b.caller = co.caller
  BY <1>2 DEF CoroOf
<1>4. v = [w EXCEPT !.co = b]
  BY <1>1, <1>2 DEF WithFrames
<1>5. v \in Worlds(U) /\ v.co = b /\ v.up = w.up /\ v.ok = w.ok
  BY <1>3, <1>4 DEF Worlds
<1> QED  BY <1>1, <1>3, <1>5 DEF OnlyFrames

(* No upvalue depends on the frames. *)
LEMMA FramesFit ==
    ASSUME NEW cs, NEW c \in Coros, NEW w, NEW g, Fits(cs, c, w, g),
           NEW v \in Worlds(Used(w.up)), OnlyFrames(v, w)
    PROVE  Fits(cs, c, v, g)
<1>1. SameNames(v.co.stack, w.co.stack)
  BY DEF OnlyFrames, SameNames
<1> QED  BY <1>1, SameNamesFits DEF OnlyFrames

(* The frame on top counts n locals more. *)
LEMMA DeclaredEffect ==
    ASSUME NEW U, NEW w \in Worlds(U), NEW L \in Nat \ {0}, L = Len(w.co.frames),
           NEW n \in Int, NEW f \in FrameOf(U), f = w.co.frames[L],
           f.locals + n \in 1..MaxLocals, NEW v, v = Declared(w, n)
    PROVE  /\ v \in Worlds(U) /\ OnlyFrames(v, w) /\ Len(v.co.frames) = L
           /\ \A k \in 1..(L - 1) : v.co.frames[k] = w.co.frames[k]
           /\ v.co.frames[L] \in FrameOf(U) /\ v.co.frames[L].try = f.try
           /\ v.co.frames[L].slots = f.slots /\ End(v.co.frames[L]) = End(f) + n
<1> DEFINE fs == w.co.frames
<1>1. fs \in Seq(FrameOf(U)) /\ L \in 1..Len(fs) /\ f = fs[L]
  BY DEF Worlds, CoroOf
<1>2. f.slots \in Nat \ {0} /\ f.locals \in Nat \ {0} /\ f.locals <= MaxLocals /\ End(f) = f.slots + f.locals
  BY FrameEnd
<1>3. PICK l \in 1..MaxLocals : l = f.locals + n
  OBVIOUS
<1>4. PICK g : g = [f EXCEPT !.locals = l]
  OBVIOUS
<1>5. g \in FrameOf(U) /\ g.slots = f.slots /\ g.locals = l /\ g.try = f.try
  BY <1>4 DEF FrameOf
<1>6. PICK gs : gs = [fs EXCEPT ![L] = g]
  OBVIOUS
<1>7. gs \in Seq(FrameOf(U)) /\ Len(gs) = Len(fs) /\ gs[L] = g /\ \A k \in 1..(L - 1) : gs[k] = fs[k]
  BY <1>1, <1>5, <1>6
<1>8. v = WithFrames(w, gs)
  BY <1>1, <1>3, <1>4, <1>6 DEF Declared, WithFrames
<1> HIDE DEF fs
<1>9. v \in Worlds(U) /\ v.co.frames = gs /\ OnlyFrames(v, w)
  BY ONLY <1>7, <1>8, w \in Worlds(U), PutFrames
<1>10. End(g) = End(f) + n
  BY <1>2, <1>3, <1>5 DEF End
<1> QED  BY <1>5, <1>7, <1>9, <1>10 DEF fs

(* The frame on top is stopped at an instruction that tries, or at none. *)
TriedAt(w, t) == [w EXCEPT !.co.frames[Len(w.co.frames)].try = t]

(* Frame L of w, which is f, tries t in v. *)
Retried(v, w, U, L, t, f) ==
    /\ v \in Worlds(U) /\ OnlyFrames(v, w) /\ Len(v.co.frames) = L
    /\ \A k \in 1..(L - 1) : v.co.frames[k] = w.co.frames[k]
    /\ v.co.frames[L] \in FrameOf(U) /\ v.co.frames[L].try = t
    /\ v.co.frames[L].locals = f.locals
    /\ v.co.frames[L].slots = f.slots /\ End(v.co.frames[L]) = End(f)

(* That changes no other frame, nor the slots of this one. *)
LEMMA TryEffect ==
    ASSUME NEW U, NEW w \in Worlds(U), NEW L \in Nat \ {0}, L = Len(w.co.frames),
           NEW f \in FrameOf(U), f = w.co.frames[L],
           NEW t \in -1..MaxLocals, NEW v, v = TriedAt(w, t)
    PROVE  Retried(v, w, U, L, t, f)
<1> DEFINE fs == w.co.frames
<1>1. fs \in Seq(FrameOf(U)) /\ L \in 1..Len(fs) /\ f = fs[L]
  BY DEF Worlds, CoroOf
<1>2. PICK g : g = [f EXCEPT !.try = t]
  OBVIOUS
<1>3. g \in FrameOf(U) /\ g.slots = f.slots /\ g.locals = f.locals /\ g.try = t
  BY <1>2 DEF FrameOf
<1>4. PICK gs : gs = [fs EXCEPT ![L] = g]
  OBVIOUS
<1>5. gs \in Seq(FrameOf(U)) /\ Len(gs) = Len(fs) /\ gs[L] = g /\ \A k \in 1..(L - 1) : gs[k] = fs[k]
  BY <1>1, <1>3, <1>4
<1>6. v = WithFrames(w, gs)
  BY <1>1, <1>2, <1>4 DEF WithFrames, TriedAt
<1> HIDE DEF fs
<1>7. v \in Worlds(U) /\ v.co.frames = gs /\ OnlyFrames(v, w)
  BY ONLY <1>5, <1>6, w \in Worlds(U), PutFrames
<1>8. End(g) = End(f)
  BY <1>3 DEF End
<1> QED  BY <1>3, <1>5, <1>7, <1>8 DEF fs, Retried

(* A variable that is neither on a stack nor in an upvalue. *)
LEMMA Fresh ==
    ASSUME IInv, Running, NewVars # {}
    PROVE  NewVar \in 1..MaxVars /\ IsNew(NewVar, coro, upvalues)
<1>1. NewVars \subseteq 1..MaxVars /\ NewVars \in SUBSET Nat
  BY DEF NewVars, Vars
<1>2. NewVar \in NewVars
  BY <1>1, MinIsIn DEF NewVar
<1>3. PICK x : x = NewVar /\ x \notin UsedVars
  BY <1>2 DEF NewVars
<1> DEFINE onStacks == UNION {{coro[c].stack[i].var : i \in DOMAIN coro[c].stack} : c \in Coros}
           inUpvalues == {upvalues[u].var : u \in Upvalues}
<1>4. UsedVars = onStacks \cup inUpvalues
  BY DEF UsedVars
<1>5. \A u \in Upvalues : upvalues[u].var # x
  <2>1. \A u \in Upvalues : upvalues[u].var \in inUpvalues
    OBVIOUS
  <2> HIDE DEF onStacks, inUpvalues
  <2> QED  BY <1>3, <1>4, <2>1
<1>6. ASSUME NEW c \in Coros, NEW i \in 1..Len(coro[c].stack) PROVE coro[c].stack[i].var # x
  <2>1. coro[c].stack \in Seq(SlotOf(Used(upvalues)))
    BY Alive DEF CoroOf
  <2>2. i \in DOMAIN coro[c].stack
    BY <2>1
  <2>3. coro[c].stack[i].var \in {coro[c].stack[k].var : k \in DOMAIN coro[c].stack}
    BY <2>2
  <2>4. coro[c].stack[i].var \in onStacks
    BY <2>3
  <2> HIDE DEF onStacks, inUpvalues
  <2> QED  BY <1>3, <1>4, <2>4
<1> QED  BY <1>1, <1>2, <1>3, <1>5, <1>6 DEF IsNew, Off

(* `let`: the temporary becomes the next local. *)
LEMMA LetKeeps ==
    ASSUME IInv, Let
    PROVE  IInv'
<1> DEFINE U == Used(upvalues)
           L == Len(Co.stack)
           n == Len(Co.frames)
           x == NewVar
           t == [Co.stack[L] EXCEPT !.var = x]
           s == [Co.stack EXCEPT ![L] = t]
           a == [World EXCEPT !.co.stack[Len(Co.stack)].var = NewVar]
           w == Declared(a, 1)
<1>1. Running /\ Temps(F, Co) = 1 /\ F.locals < MaxLocals /\ NewVars # {} /\ Become(w, global)
  BY DEF Let
<1>2. /\ World \in Worlds(U) /\ Fits(coro, running, World, global) /\ running \in Coros
      /\ World.co = Co /\ World.up = upvalues /\ Shaped(Co, MaxTemps) /\ Co \in CoroOf(U)
      /\ coro \in [Coros -> CoroOf(U)]
  BY <1>1, Alive
<1>3. /\ F = Last(Co.frames) /\ F \in FrameOf(U) /\ F.try = -1
      /\ Co.stack \in Seq(SlotOf(U)) /\ L \in Nat /\ F.slots \in Nat \ {0} /\ F.locals \in Nat \ {0}
      /\ End(F) \in Nat /\ F.slots < End(F) /\ Temps(F, Co) = L + 1 - End(F)
      /\ L < End(F) + MaxTemps /\ F.slots \in 1..L /\ MaxTemps \in Nat
      /\ \A j \in 1..L : F.slots <= j => (Co.stack[j].var # 0 <=> F.slots < j /\ j < End(F))
  BY <1>1, Function
<1>4. L = End(F) /\ L \in 1..L
  BY <1>1, <1>3
<1>0. MaxLocals \in Nat
  BY CoroutineAssumption
<1>5. x \in 1..MaxVars /\ x # 0 /\ x \in 0..MaxVars /\ IsNew(x, coro, upvalues)
  BY <1>1, Fresh, CoroutineAssumption
<1>6. n \in Nat \ {0} /\ F = Co.frames[n]
  BY <1>2, <1>3, FrameFacts
<1> HIDE DEF x
<1>7. t \in SlotOf(U) /\ t.var = x
  <2>1. Co.stack[L] \in SlotOf(U)
    BY <1>3, <1>4
  <2> QED  BY <1>5, <2>1 DEF SlotOf
<1>8. s \in Seq(SlotOf(U)) /\ Len(s) = L /\ s[L] = t /\ \A j \in 1..L : j # L => s[j] = Co.stack[j]
  <2> HIDE DEF t
  <2> QED  BY <1>3, <1>4, <1>7
<1>9. a = WithStack(World, s)
  BY <1>2 DEF WithStack, x
<1> HIDE DEF s, t, a
<1>10. a \in Worlds(U) /\ a.co.stack = s /\ OnlyStack(a, World)
  BY ONLY <1>2, <1>8, <1>9, PutStack
<1>11. Fits(coro, running, a, global)
  <2>1. SlotsKept(s, Co.stack, L, x)
    BY <1>3, <1>7, <1>8 DEF SlotsKept
  <2>2. NamesKept(s, Co.stack)
    <3>1. Co.stack[L].var = 0
      BY <1>3, <1>4, SMTT(30)
    <3>2. \A i \in 1..L : Co.stack[i].var # 0 => i # L
      BY <3>1
    <3> HIDE DEF L
    <3>3. \A i \in 1..L : Co.stack[i].var # 0 => i <= Len(s) /\ s[i].var = Co.stack[i].var
      BY <1>3, <1>8, <3>2
    <3> QED  BY <3>3 DEF NamesKept, L
  <2>3. [coro EXCEPT ![running] = World.co] = coro
    BY <1>2 DEF Co
  <2>4. IsNew(x, [coro EXCEPT ![running] = World.co], World.up)
    BY <1>2, <1>5, <2>3
  <2>5. a.up = World.up /\ a.co.open = World.co.open /\ a.co.block = World.co.block
    BY <1>10 DEF OnlyStack
  <2>6. SlotsKept(a.co.stack, World.co.stack, L, x) /\ NamesKept(a.co.stack, World.co.stack)
    BY <1>2, <1>10, <2>1, <2>2
  <2>7. a \in Worlds(Used(World.up))
    BY <1>2, <1>10
  <2> HIDE DEF L
  <2> QED  BY <1>2, <1>3, <1>5, <2>4, <2>5, <2>6, <2>7, StackFits
<1>12. PICK v : v = w
  OBVIOUS
<1>13. /\ v \in Worlds(U) /\ OnlyFrames(v, a) /\ Len(v.co.frames) = n
       /\ \A k \in 1..(n - 1) : v.co.frames[k] = a.co.frames[k]
       /\ v.co.frames[n].try = -1 /\ v.co.frames[n].slots = F.slots
       /\ End(v.co.frames[n]) = End(F) + 1
  <2>1. a.co.frames = Co.frames
    BY <1>2, <1>10 DEF OnlyStack
  <2>2. PICK k \in Nat \ {0}, i \in Int : k = n /\ i = 1 /\ k = Len(a.co.frames)
    BY <1>6, <2>1
  <2>3. PICK f \in FrameOf(U) : f = F /\ f = a.co.frames[k] /\ f.locals + i \in 1..MaxLocals
    <3>1. F.locals + 1 \in 1..MaxLocals
      BY ONLY <1>0, <1>1, <1>3, SMTT(30)
    <3> QED  BY <1>3, <1>6, <2>1, <2>2, <3>1
  <2>4. v = Declared(a, i)
    BY <1>12, <2>2
  <2> HIDE DEF n
  <2>5. /\ v \in Worlds(U) /\ OnlyFrames(v, a) /\ Len(v.co.frames) = k
        /\ \A j \in 1..(k - 1) : v.co.frames[j] = a.co.frames[j]
        /\ v.co.frames[k] \in FrameOf(U) /\ v.co.frames[k].try = f.try
        /\ v.co.frames[k].slots = f.slots /\ End(v.co.frames[k]) = End(f) + i
    BY ONLY <1>10, <2>2, <2>3, <2>4, f \in FrameOf(U), k \in Nat \ {0}, i \in Int, DeclaredEffect
  <2> QED  BY <1>3, <2>2, <2>3, <2>5
<1>14. Fits(coro, running, v, global)
  <2>1. v \in Worlds(Used(a.up))
    BY <1>2, <1>10, <1>13 DEF OnlyStack
  <2> QED  BY <1>2, <1>11, <1>13, <2>1, FramesFit
<1>15. /\ v.co \in CoroOf(U) /\ v.co.stack = s /\ v.co.cap = Co.cap /\ v.co.framecap = Co.framecap
       /\ v.co.caller = Co.caller /\ a.co.frames = Co.frames
  BY <1>2, <1>10, <1>13 DEF OnlyStack, OnlyFrames, Worlds
<1>16. Shaped(v.co, MaxTemps)
  <2>1. PICK i \in 1..n : i = n
    BY <1>6
  <2>2. Retops(v.co.frames, Co.frames, i)
    <3>1. \A k \in 1..n : k = n \/ k \in 1..(n - 1)
      BY <1>6
    <3>2. \A k \in 1..n : v.co.frames[k].slots = Co.frames[k].slots
      BY <1>6, <1>13, <1>15, <3>1
    <3> QED  BY <1>13, <1>15, <2>1, <3>2 DEF Retops
  <2>3. NamedAs(v.co.stack, Co.stack, v.co.frames[i])
    <3>1. ASSUME NEW j \in 1..L
          PROVE  IF j <= F.slots THEN s[j].var # 0 <=> Co.stack[j].var # 0
                 ELSE s[j].var # 0 <=> j < End(F) + 1
      <4>1. CASE j = L
        <5>1. s[j].var = x /\ x # 0 /\ F.slots < j /\ j < End(F) + 1
          BY <1>3, <1>4, <1>5, <1>7, <1>8, <4>1
        <5>2. ~(j <= F.slots) /\ s[j].var # 0
          BY <1>3, <4>1, <5>1
        <5> HIDE DEF L, s
        <5> QED  BY ONLY <5>1, <5>2
      <4>2. CASE j # L
        <5>1. s[j] = Co.stack[j] /\ j < End(F) /\ j < End(F) + 1 /\ j \in Nat
          BY <1>3, <1>4, <1>8, <4>2, SMTT(30)
        <5>2. ~(j <= F.slots) => Co.stack[j].var # 0
          <6>1. F.slots <= j => (Co.stack[j].var # 0 <=> F.slots < j /\ j < End(F))
            BY <1>3
          <6>2. F.slots \in Nat
            BY <1>3
          <6> HIDE DEF L
          <6> QED  BY <5>1, <6>1, <6>2
        <5> HIDE DEF L, s
        <5> QED  BY ONLY <5>1, <5>2
      <4> QED  BY <4>1, <4>2
    <3>2. F.slots <= L
      BY <1>3
    <3> QED  BY <1>8, <1>13, <1>15, <2>1, <3>1, <3>2 DEF NamedAs
  <2>4. /\ End(v.co.frames[i]) <= Len(v.co.stack) + 1
        /\ Len(v.co.stack) < End(v.co.frames[i]) + MaxTemps
        /\ Len(v.co.stack) < v.co.cap /\ Len(v.co.frames) < v.co.framecap
    <3>1. Len(Co.stack) < Co.cap /\ Len(Co.frames) < Co.framecap
      BY <1>2 DEF Shaped
    <3> QED  BY <1>3, <1>4, <1>8, <1>13, <1>15, <2>1, <3>1, SMTT(30)
  <2> QED  BY <1>2, <1>15, <2>2, <2>3, <2>4, ShapedAgain
<1>17. Become(v, global)
  BY <1>1, <1>12
<1> QED  BY <1>1, <1>14, <1>15, <1>16, <1>17, BecomeKeeps

-----------------------------------------------------------------------------
(* Instructions that close upvalues. *)

(* jml_vm_upvalue_close touches the list and the upvalues of the coroutine. *)
OnlyOpen(v, w) ==
    /\ v.ok = w.ok /\ v.co.stack = w.co.stack /\ v.co.frames = w.co.frames
    /\ v.co.cap = w.co.cap /\ v.co.block = w.co.block
    /\ v.co.framecap = w.co.framecap /\ v.co.caller = w.co.caller

(* What it leaves alone. *)
LEMMA CloseSame ==
    ASSUME NEW cs, NEW c \in Coros, NEW w, NEW g, Fits(cs, c, w, g), NEW last \in Nat,
           NEW v, v = Close(w, last)
    PROVE  v \in Worlds(Used(w.up)) /\ Used(v.up) = Used(w.up) /\ OnlyOpen(v, w)
<1> DEFINE U == Used(w.up)
<1>1. w \in Worlds(U) /\ cs \in [Coros -> CoroOf(U)] /\ Exact([cs EXCEPT ![c] = w.co], w.up)
  BY DEF Fits
<1>2. w.co \in CoroOf(U)
  BY <1>1 DEF Worlds
<1>3. Pointed(c, w.co, w.up)
  <2>1. [cs EXCEPT ![c] = w.co][c] = w.co
    BY <1>1
  <2>2. Pointed(c, [cs EXCEPT ![c] = w.co][c], w.up)
    BY <1>1 DEF Exact
  <2> QED  BY <2>1, <2>2
<1>4. v \in Worlds(U) /\ \E n \in 0..Len(w.co.open) : ClosedFirst(n, v, w, last)
  BY <1>1, <1>3, CloseEffect
<1>5. PICK n \in 0..Len(w.co.open) : ClosedFirst(n, v, w, last)
  BY <1>4
<1>6. PICK rest : v.co = [w.co EXCEPT !.open = rest] /\ v.ok = w.ok /\ Used(v.up) = U
  BY <1>5 DEF ClosedFirst
<1>7. OnlyOpen(v, w)
  BY <1>2, <1>6 DEF CoroOf, OnlyOpen
<1> QED  BY <1>4, <1>6, <1>7

(* The stack is cut where nothing below `last` that is lost has a name. *)
LEMMA ClosedCut ==
    ASSUME NEW cs, NEW c \in Coros, NEW w, NEW g, Fits(cs, c, w, g), NEW last \in Nat,
           NEW v \in Worlds(Used(w.up)), v.up = Close(w, last).up, v.co.open = Close(w, last).co.open,
           v.co.block = w.co.block,
           Len(v.co.stack) < last, Len(v.co.stack) <= Len(w.co.stack),
           \A i \in 1..Len(v.co.stack) : v.co.stack[i] = w.co.stack[i],
           \A i \in 1..Len(w.co.stack) : Len(v.co.stack) < i /\ i < last => w.co.stack[i].var = 0
    PROVE  Fits(cs, c, v, g) /\ Used(v.up) = Used(w.up)
<1>1. CutTo(v.co.stack, w.co.stack, last)
  BY DEF CutTo
<1>2. Used(v.up) = Used(w.up)
  <2>1. PICK b : b = Close(w, last)
    OBVIOUS
  <2>2. Used(b.up) = Used(w.up)
    BY <2>1, CloseSame
  <2> QED  BY <2>1, <2>2
<1> QED  BY <1>1, <1>2, CloseFits

(* The end of a scope: OP_POP or OP_CLOSE_UPVALUE for its last local. *)
LEMMA EndScopeKeeps ==
    ASSUME IInv, EndScope
    PROVE  IInv'
<1> DEFINE U == Used(upvalues)
           n == Len(Co.frames)
<1>1. /\ Running /\ Temps(F, Co) = 0 /\ F.locals > 1
      /\ Become(Declared(Drop(Close(World, Len(Co.stack)), 1), -1), global)
  BY DEF EndScope
<1>2. /\ World \in Worlds(U) /\ Fits(coro, running, World, global) /\ running \in Coros
      /\ World.co = Co /\ World.up = upvalues /\ Shaped(Co, MaxTemps) /\ Co \in CoroOf(U)
  BY <1>1, Alive
<1>3. /\ F = Last(Co.frames) /\ F \in FrameOf(U) /\ F.try = -1
      /\ Len(Co.stack) \in Nat /\ F.slots \in Nat \ {0} /\ F.locals \in Nat \ {0} /\ F.locals <= MaxLocals
      /\ End(F) \in Nat /\ End(F) = F.slots + F.locals /\ Temps(F, Co) = Len(Co.stack) + 1 - End(F)
      /\ F.slots \in 1..Len(Co.stack) /\ MaxTemps \in Nat
      /\ \A j \in 1..Len(Co.stack) : F.slots <= j => (Co.stack[j].var # 0 <=> F.slots < j /\ j < End(F))
  BY <1>1, Function
<1>4. PICK L \in Nat : L = Len(Co.stack) /\ L + 1 = End(F) /\ F.slots < L /\ L > 0
  <2>1. PICK l, e, a, m \in Nat : l = Len(Co.stack) /\ e = End(F) /\ a = F.slots /\ m = F.locals
    BY <1>3
  <2>2. l + 1 - e = 0 /\ e = a + m /\ m > 1
    BY <1>1, <1>3, <2>1
  <2>3. l + 1 = e /\ a < l /\ l > 0
    BY ONLY <2>2, l \in Nat, e \in Nat, a \in Nat, m \in Nat
  <2> QED  BY <2>1, <2>3
<1>5. n \in Nat \ {0} /\ F = Co.frames[n]
  BY <1>2, <1>3, FrameFacts
<1>6. PICK b : b = Close(World, L)
  OBVIOUS
<1>7. b \in Worlds(U) /\ Used(b.up) = U /\ OnlyOpen(b, World)
  BY <1>2, <1>6, CloseSame
<1>8. b.co.stack = Co.stack /\ b.co.frames = Co.frames
  BY <1>2, <1>7 DEF OnlyOpen
<1>9. PICK one, d : one \in Nat /\ one = 1 /\ d = Drop(b, one)
  OBVIOUS
<1>10. /\ d \in Worlds(U) /\ OnlyStack(d, b) /\ Len(d.co.stack) = L - 1
       /\ \A i \in 1..(L - 1) : d.co.stack[i] = Co.stack[i]
  <2>1. one <= Len(b.co.stack)
    BY <1>4, <1>8, <1>9
  <2>2. /\ d \in Worlds(U) /\ OnlyStack(d, b)
        /\ Len(d.co.stack) = Len(b.co.stack) - one
        /\ \A i \in 1..(Len(b.co.stack) - one) : d.co.stack[i] = b.co.stack[i]
    BY <1>7, <1>9, <2>1, DropEffect
  <2> QED  BY <1>4, <1>8, <1>9, <2>2
<1>11. Fits(coro, running, d, global) /\ Used(d.up) = U
  <2>1. /\ d.up = Close(World, L).up /\ d.co.open = Close(World, L).co.open
        /\ d.co.block = World.co.block /\ d \in Worlds(Used(World.up))
    BY <1>2, <1>6, <1>7, <1>10 DEF OnlyStack, OnlyOpen
  <2>2. /\ Len(d.co.stack) < L /\ Len(d.co.stack) <= Len(World.co.stack)
        /\ \A i \in 1..Len(d.co.stack) : d.co.stack[i] = World.co.stack[i]
        /\ \A i \in 1..Len(World.co.stack) : Len(d.co.stack) < i /\ i < L => World.co.stack[i].var = 0
    BY <1>2, <1>4, <1>10
  <2>3. Fits(coro, running, World, global) /\ running \in Coros /\ L \in Nat
    BY <1>2
  <2>4. Fits(coro, running, d, global) /\ Used(d.up) = Used(World.up)
    BY ONLY <2>1, <2>2, <2>3, ClosedCut
  <2> QED  BY <1>2, <2>4
<1>12. d.co.frames = Co.frames
  BY <1>8, <1>10 DEF OnlyStack
<1>13. PICK v : v = Declared(d, -1)
  OBVIOUS
<1>14. /\ v \in Worlds(U) /\ OnlyFrames(v, d) /\ Len(v.co.frames) = n
       /\ \A k \in 1..(n - 1) : v.co.frames[k] = Co.frames[k]
       /\ v.co.frames[n].try = -1 /\ v.co.frames[n].slots = F.slots
       /\ End(v.co.frames[n]) = L
  <2>1. PICK k \in Nat \ {0}, i \in Int : k = n /\ i = -1 /\ k = Len(d.co.frames)
    BY <1>5, <1>12
  <2>2. MaxLocals \in Nat /\ F.locals + i \in 1..MaxLocals
    <3>1. MaxLocals \in Nat
      BY CoroutineAssumption
    <3> QED  BY <1>1, <1>3, <2>1, <3>1
  <2>3. PICK f \in FrameOf(U) : f = F /\ f = d.co.frames[k] /\ f.locals + i \in 1..MaxLocals
    BY <1>3, <1>5, <1>12, <2>1, <2>2
  <2>4. v = Declared(d, i)
    BY <1>13, <2>1
  <2> HIDE DEF n
  <2>5. /\ v \in Worlds(U) /\ OnlyFrames(v, d) /\ Len(v.co.frames) = k
        /\ \A j \in 1..(k - 1) : v.co.frames[j] = d.co.frames[j]
        /\ v.co.frames[k] \in FrameOf(U) /\ v.co.frames[k].try = f.try
        /\ v.co.frames[k].slots = f.slots /\ End(v.co.frames[k]) = End(f) + i
    BY ONLY <1>10, <2>1, <2>3, <2>4, f \in FrameOf(U), k \in Nat \ {0}, i \in Int, DeclaredEffect
  <2>6. End(f) + i = L
    BY <1>3, <1>4, <2>1, <2>3
  <2> QED  BY <1>3, <1>12, <2>1, <2>3, <2>5, <2>6
<1>15. Fits(coro, running, v, global)
  BY <1>2, <1>11, <1>14, FramesFit
<1>16. /\ v.co \in CoroOf(U) /\ v.co.stack = d.co.stack /\ v.co.cap = Co.cap /\ v.co.framecap = Co.framecap
       /\ v.co.caller = Co.caller
  BY <1>2, <1>7, <1>10, <1>14 DEF OnlyStack, OnlyFrames, OnlyOpen, Worlds
<1>17. Shaped(v.co, MaxTemps)
  <2>1. PICK i \in 1..n : i = n
    BY <1>5
  <2>2. Retops(v.co.frames, Co.frames, i)
    <3>1. \A k \in 1..n : k = n \/ k \in 1..(n - 1)
      BY <1>5
    <3>2. \A k \in 1..n : v.co.frames[k].slots = Co.frames[k].slots
      BY <1>5, <1>14, <3>1
    <3> QED  BY <1>14, <2>1, <3>2 DEF Retops
  <2>3. NamedAs(v.co.stack, Co.stack, v.co.frames[i])
    <3>1. ASSUME NEW j \in 1..(L - 1)
          PROVE  /\ d.co.stack[j] = Co.stack[j]
                 /\ ~(j <= F.slots) => (d.co.stack[j].var # 0 <=> j < L)
      <4>1. d.co.stack[j] = Co.stack[j] /\ j \in 1..Len(Co.stack) /\ j < L /\ j < End(F) /\ j \in Nat
        BY <1>4, <1>10
      <4>2. F.slots <= j => (Co.stack[j].var # 0 <=> F.slots < j /\ j < End(F))
        BY <1>3, <4>1
      <4> QED  BY <1>3, <4>1, <4>2
    <3>2. F.slots <= Len(Co.stack)
      BY <1>3
    <3>3. \A j \in 1..Len(v.co.stack) : j \in 1..(L - 1)
      BY <1>10, <1>16
    <3> QED  BY <1>14, <1>16, <2>1, <3>1, <3>2, <3>3 DEF NamedAs
  <2>4. /\ End(v.co.frames[i]) <= Len(v.co.stack) + 1
        /\ Len(v.co.stack) < End(v.co.frames[i]) + MaxTemps
        /\ Len(v.co.stack) < v.co.cap /\ Len(v.co.frames) < v.co.framecap
    <3>1. L < Co.cap /\ Len(Co.frames) < Co.framecap /\ Co.cap \in Nat
      BY <1>2, <1>4 DEF Shaped, CoroOf
    <3>2. /\ End(v.co.frames[i]) = L /\ Len(v.co.stack) = L - 1
          /\ v.co.cap = Co.cap /\ Len(v.co.frames) = Len(Co.frames) /\ v.co.framecap = Co.framecap
      BY <1>10, <1>14, <1>16, <2>1
    <3>3. L <= L - 1 + 1 /\ L - 1 < L + MaxTemps /\ L - 1 < Co.cap
      BY ONLY <1>3, <3>1, L \in Nat
    <3> QED  BY ONLY <3>1, <3>2, <3>3
  <2> QED  BY <1>2, <1>16, <2>2, <2>3, <2>4, ShapedAgain
<1>18. Become(v, global)
  BY <1>1, <1>4, <1>6, <1>9, <1>13
<1> QED  BY <1>1, <1>15, <1>16, <1>17, <1>18, BecomeKeeps

-----------------------------------------------------------------------------
(* What the variables hold. *)

(* x holds v, on a stack or in a closed upvalue. *)
BindsIn(cs, up, x, v) ==
    \/ \E c \in Coros : \E i \in 1..Len(cs[c].stack) : cs[c].stack[i].var = x /\ cs[c].stack[i].val = v
    \/ \E u \in Upvalues : up[u].open = FALSE /\ up[u].var = x /\ up[u].val = v

Pairs(cs, up) ==
    (UNION {{<<cs[c].stack[i].var, cs[c].stack[i].val>> : i \in DOMAIN cs[c].stack} : c \in Coros})
    \cup {<<up[u].var, up[u].val>> : u \in {t \in {s \in Upvalues : up[s] # Free} : ~up[t].open}}

(* Stacks and upvalues that look like those of a state. *)
Readable(cs, up) ==
    /\ \A c \in Coros : DOMAIN cs[c].stack = 1..Len(cs[c].stack)
    /\ \A u \in Upvalues : up[u].open \in BOOLEAN

(* A pair of a variable and a value says what the variable holds. *)
LEMMA PairsBind ==
    ASSUME NEW cs, NEW up, Readable(cs, up), NEW b \in Pairs(cs, up), b[1] # 0
    PROVE  b = <<b[1], b[2]>> /\ BindsIn(cs, up, b[1], b[2])
<1>1. CASE b \in UNION {{<<cs[c].stack[i].var, cs[c].stack[i].val>> : i \in DOMAIN cs[c].stack} : c \in Coros}
  <2>1. PICK c \in Coros : b \in {<<cs[c].stack[i].var, cs[c].stack[i].val>> : i \in DOMAIN cs[c].stack}
    BY <1>1
  <2>2. PICK i \in DOMAIN cs[c].stack : b = <<cs[c].stack[i].var, cs[c].stack[i].val>>
    BY <2>1
  <2>3. i \in 1..Len(cs[c].stack)
    BY <2>2 DEF Readable
  <2>4. b[1] = cs[c].stack[i].var /\ b[2] = cs[c].stack[i].val
    BY <2>2
  <2> QED  BY <2>2, <2>3, <2>4 DEF BindsIn
<1>2. CASE b \in {<<up[u].var, up[u].val>> : u \in {t \in {s \in Upvalues : up[s] # Free} : ~up[t].open}}
  <2>1. PICK u \in Upvalues : ~up[u].open /\ b = <<up[u].var, up[u].val>>
    BY <1>2
  <2>2. up[u].open = FALSE
    BY <2>1 DEF Readable
  <2>3. b[1] = up[u].var /\ b[2] = up[u].val
    BY <2>1
  <2> QED  BY <2>1, <2>2, <2>3 DEF BindsIn
<1> QED  BY <1>1, <1>2 DEF Pairs

(* The pairs are what the run compares. *)
LEMMA BindingsArePairs ==
    Bindings = Pairs(coro, upvalues) /\ Bindings' = Pairs(coro', upvalues')
BY DEF Bindings, Pairs, InUse

(* States are readable. *)
LEMMA StatesAreReadable ==
    ASSUME NEW cs, NEW up, NEW U, cs \in [Coros -> CoroOf(U)], up \in [Upvalues -> UpvalueOf(U)]
    PROVE  Readable(cs, up)
<1>1. ASSUME NEW c \in Coros PROVE DOMAIN cs[c].stack = 1..Len(cs[c].stack)
  <2>1. cs[c].stack \in Seq(SlotOf(U))
    BY DEF CoroOf
  <2> QED  BY <2>1
<1>2. ASSUME NEW u \in Upvalues PROVE up[u].open \in BOOLEAN
  BY DEF UpvalueOf
<1> QED  BY <1>1, <1>2 DEF Readable

(* A variable holds one value. *)
LEMMA BindsOnce ==
    ASSUME NEW cs, NEW up, Exact(cs, up), NEW x, x # 0, NEW v, NEW w,
           BindsIn(cs, up, x, v), BindsIn(cs, up, x, w)
    PROVE  v = w
<1>1. OnOneSlot(cs) /\ InOneCell(cs, up)
  BY DEF Exact
<1>2. CASE \E c \in Coros : \E i \in 1..Len(cs[c].stack) : cs[c].stack[i].var = x /\ cs[c].stack[i].val = v
  <2>1. PICK c \in Coros : \E i \in 1..Len(cs[c].stack) : cs[c].stack[i].var = x /\ cs[c].stack[i].val = v
    BY <1>2
  <2>2. PICK i \in 1..Len(cs[c].stack) : cs[c].stack[i].var = x /\ cs[c].stack[i].val = v
    BY <2>1
  <2>3. ~Off(cs, x)
    BY <2>2 DEF Off
  <2>4. PICK d \in Coros : \E j \in 1..Len(cs[d].stack) : cs[d].stack[j].var = x /\ cs[d].stack[j].val = w
    BY <1>1, <2>3 DEF BindsIn, InOneCell
  <2>5. PICK j \in 1..Len(cs[d].stack) : cs[d].stack[j].var = x /\ cs[d].stack[j].val = w
    BY <2>4
  <2>6. c = d /\ i = j
    BY <1>1, <2>2, <2>5 DEF OnOneSlot
  <2> QED  BY <2>2, <2>5, <2>6
<1>3. CASE \E u \in Upvalues : up[u].open = FALSE /\ up[u].var = x /\ up[u].val = v
  <2>1. PICK u \in Upvalues : up[u].open = FALSE /\ up[u].var = x /\ up[u].val = v
    BY <1>3
  <2>2. Off(cs, x)
    BY <1>1, <2>1 DEF InOneCell
  <2>3. PICK t \in Upvalues : up[t].open = FALSE /\ up[t].var = x /\ up[t].val = w
    BY <2>2 DEF BindsIn, Off
  <2>4. u = t
    BY <1>1, <2>1, <2>3 DEF InOneCell
  <2> QED  BY <2>1, <2>3, <2>4
<1> QED  BY <1>2, <1>3 DEF BindsIn

(* What a variable may hold after a step: what it held, or anything when it
   is new or the step assigns to it.                                       *)
Known(x, v) == IsNew(x, coro, upvalues) \/ Assigns(x) \/ BindsIn(coro, upvalues, x, v)

KnownSlots(s)  == \A i \in 1..Len(s) : Known(s[i].var, s[i].val)
KnownCells(up) == \A u \in Upvalues : up[u].open = FALSE => Known(up[u].var, up[u].val)
KnownAfter     == \A x, v : x # 0 /\ BindsIn(coro', upvalues', x, v) => Known(x, v)

(* If nothing else is held, no value is lost. *)
LEMMA KnownIsKept ==
    ASSUME IInv, result = "running", IInv', KnownAfter
    PROVE  KeepsValues
<1>1. Exact(coro, upvalues) /\ Readable(coro, upvalues)
  BY StatesAreReadable DEF IInv, Stopped, Typed
<1>2. Readable(coro', upvalues')
  <2>1. CASE Typed(coro', upvalues', global')
    BY <2>1, StatesAreReadable DEF Typed
  <2>2. CASE Stopped'
    <3>1. \A c \in Coros : coro'[c].stack = <<>>
      BY <2>2 DEF Stopped, NoCoro
    <3>2. \A u \in Upvalues : upvalues'[u].open = FALSE
      BY <2>2 DEF Stopped, Free, Upvalues
    <3>3. PICK s : s = <<>> /\ DOMAIN s = 1..Len(s)
      OBVIOUS
    <3>4. \A c \in Coros : coro'[c].stack = s
      BY <3>1, <3>3
    <3>5. \A c \in Coros : DOMAIN (coro'[c].stack) = 1..Len(coro'[c].stack)
      BY <3>3, <3>4
    <3> QED  BY <3>2, <3>5 DEF Readable
  <2>3. Stopped' \/ Typed(coro', upvalues', global')
    BY DEF IInv
  <2> QED  BY <2>1, <2>2, <2>3
<1> SUFFICES ASSUME NEW x \in Differ(Bindings, Bindings') \ {0}, x \in Common(Bindings, Bindings'),
                    ~Assigns(x)
             PROVE  FALSE
  BY DEF KeepsValues
<1>3. PICK B, C : B = Bindings /\ C = Bindings' /\ B = Pairs(coro, upvalues) /\ C = Pairs(coro', upvalues')
  BY BindingsArePairs
<1>4. PICK b \in B, c \in C : b[1] = x /\ c[1] = x
  BY <1>3 DEF Common
<1>5. x # 0 /\ BindsIn(coro, upvalues, x, b[2])
  BY <1>1, <1>3, <1>4, PairsBind
<1>6. ~IsNew(x, coro, upvalues)
  BY <1>5 DEF IsNew, Off, BindsIn
<1>7. ASSUME NEW d \in B, d[1] = x PROVE d = <<x, b[2]>>
  <2>1. d = <<x, d[2]>> /\ BindsIn(coro, upvalues, x, d[2])
    BY <1>1, <1>3, <1>5, <1>7, PairsBind
  <2>2. d[2] = b[2]
    BY <1>1, <1>5, <2>1, BindsOnce
  <2> QED  BY <2>1, <2>2
<1>8. ASSUME NEW d \in C, d[1] = x PROVE d = <<x, b[2]>>
  <2>1. d = <<x, d[2]>> /\ BindsIn(coro', upvalues', x, d[2])
    BY <1>2, <1>3, <1>5, <1>8, PairsBind
  <2>2. BindsIn(coro, upvalues, x, d[2])
    BY <1>5, <1>6, <2>1 DEF KnownAfter, Known
  <2>3. d[2] = b[2]
    BY <1>1, <1>5, <2>2, BindsOnce
  <2> QED  BY <2>1, <2>3
<1>9. PICK d \in (B \ C) \cup (C \ B) : d[1] = x
  BY <1>3 DEF Differ
<1>10. b = <<x, b[2]>> /\ c = <<x, b[2]>> /\ d = <<x, b[2]>>
  BY <1>4, <1>7, <1>8, <1>9
<1> QED  BY <1>4, <1>9, <1>10

-----------------------------------------------------------------------------
(* Worlds that remember what the variables hold. *)

(* The fields a world has, whatever they are. *)
Whole(w) ==
    /\ w = [co |-> w.co, up |-> w.up, ok |-> w.ok]
    /\ w.co = [stack |-> w.co.stack, cap |-> w.co.cap, block |-> w.co.block,
               frames |-> w.co.frames, framecap |-> w.co.framecap,
               open |-> w.co.open, caller |-> w.co.caller]
    /\ w.up = [u \in Upvalues |-> w.up[u]]
    /\ \A u \in Upvalues :
          w.up[u] = [open |-> w.up[u].open, coro |-> w.up[u].coro, block |-> w.up[u].block,
                     idx |-> w.up[u].idx, val |-> w.up[u].val, var |-> w.up[u].var]
    /\ \E S : w.co.stack \in Seq(S)

Remembers(w) == Whole(w) /\ KnownSlots(w.co.stack) /\ KnownCells(w.up)

(* The same upvalues, but for the block they point into. *)
SameCells(more, up) ==
    \A u \in Upvalues : more[u].open = up[u].open /\ more[u].var = up[u].var /\ more[u].val = up[u].val

(* They hold what the others do. *)
LEMMA SameCellsKnown ==
    ASSUME NEW up, KnownCells(up), NEW more, SameCells(more, up)
    PROVE  KnownCells(more)
BY DEF KnownCells, SameCells

(* Worlds with types are whole. *)
LEMMA TypedIsWhole ==
    ASSUME NEW U, NEW w \in Worlds(U)
    PROVE  Whole(w)
<1>1. w = [co |-> w.co, up |-> w.up, ok |-> w.ok] /\ w.co \in CoroOf(U) /\ w.up \in [Upvalues -> UpvalueOf(U)]
  BY DEF Worlds
<1>2. w.co = [stack |-> w.co.stack, cap |-> w.co.cap, block |-> w.co.block,
              frames |-> w.co.frames, framecap |-> w.co.framecap,
              open |-> w.co.open, caller |-> w.co.caller] /\ w.co.stack \in Seq(SlotOf(U))
  BY <1>1 DEF CoroOf
<1>3. w.up = [u \in Upvalues |-> w.up[u]]
  BY <1>1
<1>4. \A u \in Upvalues :
         w.up[u] = [open |-> w.up[u].open, coro |-> w.up[u].coro, block |-> w.up[u].block,
                    idx |-> w.up[u].idx, val |-> w.up[u].val, var |-> w.up[u].var]
  BY <1>1 DEF UpvalueOf
<1> QED  BY <1>1, <1>2, <1>3, <1>4 DEF Whole

(* Frames, and how many there may be, hold no variable. *)
LEMMA FramesRemember ==
    ASSUME NEW w, Remembers(w), NEW fs, NEW v, v = WithFrames(w, fs)
    PROVE  Remembers(v) /\ v.co.stack = w.co.stack /\ v.up = w.up
<1>1. Whole(v) /\ v.co.stack = w.co.stack /\ v.up = w.up
  BY DEF Remembers, Whole, WithFrames
<1> QED  BY <1>1 DEF Remembers

(* Nor does the room for more of them. *)
LEMMA FrameCapRemembers ==
    ASSUME NEW w, Remembers(w), NEW n, NEW v, v = [w EXCEPT !.co.framecap = n]
    PROVE  Remembers(v) /\ v.co.stack = w.co.stack /\ v.up = w.up
<1>1. Whole(v) /\ v.co.stack = w.co.stack /\ v.up = w.up
  BY DEF Remembers, Whole
<1> QED  BY <1>1 DEF Remembers

(* The frame on top is another one. *)
LEMMA TopRemembers ==
    ASSUME NEW w, Remembers(w), NEW v, NEW n, v = Declared(w, n) \/ v = Resumed(w) \/ v = TriedAt(w, n)
    PROVE  Remembers(v) /\ v.co.stack = w.co.stack /\ v.up = w.up
<1>1. \E fs : v = WithFrames(w, fs)
  <2>1. CASE v = Declared(w, n)
    <3>1. v = WithFrames(w, [w.co.frames EXCEPT ![Len(w.co.frames)].locals = @ + n])
      BY <2>1 DEF Declared, WithFrames, Remembers, Whole
    <3> QED  BY <3>1
  <2>2. CASE v = Resumed(w)
    <3>1. v = WithFrames(w, [w.co.frames EXCEPT ![Len(w.co.frames)].try = -1])
      BY <2>2 DEF Resumed, WithFrames, Remembers, Whole
    <3> QED  BY <3>1
  <2>3. CASE v = TriedAt(w, n)
    <3>1. v = WithFrames(w, [w.co.frames EXCEPT ![Len(w.co.frames)].try = n])
      BY <2>3 DEF TriedAt, WithFrames, Remembers, Whole
    <3> QED  BY <3>1
  <2> QED  BY <2>1, <2>2, <2>3
<1> QED  BY <1>1, FramesRemember

(* Another stack, of slots that are known. *)
LEMMA StackRemembers ==
    ASSUME NEW w, Remembers(w), NEW S, NEW s \in Seq(S), KnownSlots(s), NEW v, v = WithStack(w, s)
    PROVE  Remembers(v) /\ v.co.stack = s /\ v.up = w.up
<1>1. Whole(v) /\ v.co.stack = s /\ v.up = w.up
  BY DEF Remembers, Whole, WithStack
<1> QED  BY <1>1 DEF Remembers

(* Slots that are left and one that is new. *)
LEMMA SlotsRemember ==
    ASSUME NEW S, NEW s \in Seq(S), KnownSlots(s)
    PROVE  /\ \A e : Known(e.var, e.val) => \E T : Append(s, e) \in Seq(T) /\ KnownSlots(Append(s, e))
           /\ \A m \in 0..Len(s) : SubSeq(s, 1, m) \in Seq(S) /\ KnownSlots(SubSeq(s, 1, m))
           /\ \A i \in 1..Len(s) : \A e : Known(e.var, e.val) =>
                 \E T : [s EXCEPT ![i] = e] \in Seq(T) /\ KnownSlots([s EXCEPT ![i] = e])
<1>1. ASSUME NEW e, Known(e.var, e.val)
      PROVE  \E T : Append(s, e) \in Seq(T) /\ KnownSlots(Append(s, e))
  <2>1. s \in Seq(S \cup {e}) /\ e \in S \cup {e}
    OBVIOUS
  <2>2. PICK T, t : s \in Seq(T) /\ e \in T /\ t = Append(s, e)
    BY <2>1
  <2>3. t \in Seq(T) /\ Len(t) = Len(s) + 1 /\ \A i \in 1..(Len(s) + 1) : t[i] = IF i = Len(s) + 1 THEN e ELSE s[i]
    BY <2>2, AppendProperties
  <2>4. ASSUME NEW i \in 1..Len(t) PROVE Known(t[i].var, t[i].val)
    <3>1. CASE i = Len(s) + 1
      BY <1>1, <2>3, <3>1
    <3>2. CASE i # Len(s) + 1
      <4>1. i \in 1..Len(s) /\ t[i] = s[i]
        BY <2>3, <3>2
      <4> QED  BY <4>1 DEF KnownSlots
    <3> QED  BY <3>1, <3>2
  <2> QED  BY <2>2, <2>3, <2>4 DEF KnownSlots
<1>2. ASSUME NEW m \in 0..Len(s)
      PROVE  SubSeq(s, 1, m) \in Seq(S) /\ KnownSlots(SubSeq(s, 1, m))
  <2>1. PICK t : t = SubSeq(s, 1, m) /\ t \in Seq(S) /\ Len(t) = m /\ \A i \in 1..m : t[i] = s[i]
    <3>1. /\ SubSeq(s, 1, m) \in Seq(S) /\ Len(SubSeq(s, 1, m)) = m
          /\ \A i \in 1..m : SubSeq(s, 1, m)[i] = s[i]
      BY CutPrefix
    <3> QED  BY ONLY <3>1
  <2>2. \A i \in 1..m : i \in 1..Len(s)
    OBVIOUS
  <2>3. KnownSlots(t)
    BY <2>1, <2>2 DEF KnownSlots
  <2> QED  BY <2>1, <2>3
<1>3. ASSUME NEW i \in 1..Len(s), NEW e, Known(e.var, e.val)
      PROVE  \E T : [s EXCEPT ![i] = e] \in Seq(T) /\ KnownSlots([s EXCEPT ![i] = e])
  <2>1. s \in Seq(S \cup {e}) /\ e \in S \cup {e}
    OBVIOUS
  <2>2. PICK T : s \in Seq(T) /\ e \in T
    BY <2>1
  <2>3. [s EXCEPT ![i] = e] \in Seq(T) /\ Len([s EXCEPT ![i] = e]) = Len(s)
    BY <2>2
  <2>4. DOMAIN s = 1..Len(s)
    OBVIOUS
  <2>5. [s EXCEPT ![i] = e][i] = e /\ \A j \in 1..Len(s) : j # i => [s EXCEPT ![i] = e][j] = s[j]
    BY <2>4
  <2>6. PICK t : /\ t = [s EXCEPT ![i] = e] /\ t \in Seq(T) /\ Len(t) = Len(s) /\ t[i] = e
                 /\ \A j \in 1..Len(s) : j # i => t[j] = s[j]
    BY <2>3, <2>5
  <2>7. ASSUME NEW j \in 1..Len(t) PROVE Known(t[j].var, t[j].val)
    <3>1. CASE j = i
      BY <1>3, <2>6, <3>1
    <3>2. CASE j # i
      <4>1. j \in 1..Len(s) /\ t[j] = s[j]
        BY <2>6, <3>2
      <4> QED  BY <4>1 DEF KnownSlots
    <3> QED  BY <3>1, <3>2
  <2>8. KnownSlots(t)
    BY <2>7 DEF KnownSlots
  <2> QED  BY <2>6, <2>8
<1> QED  BY <1>1, <1>2, <1>3

(* jml_obj_coroutine_grow *)
LEMMA GrowRemembers ==
    ASSUME NEW w, Remembers(w), NEW v, v = Grow(w)
    PROVE  Remembers(v) /\ v.co.stack = w.co.stack
<1>1. Whole(w)
  BY DEF Remembers
<1>2. PICK M : M = {u \in Upvalues : Contains(w.co.open, u)}
  OBVIOUS
<1>3. PICK more : more = [u \in Upvalues |-> IF u \in M THEN [w.up[u] EXCEPT !.block = w.co.block + 1]
                                                        ELSE w.up[u]]
  OBVIOUS
<1>4. v = [w EXCEPT !.ok = FALSE]
      \/ v = [w EXCEPT !.co.cap = 2 * w.co.cap, !.co.block = w.co.block + 1, !.up = more]
  BY <1>1, <1>2, <1>3 DEF Grow, GrowWith, Whole
<1>5. CASE v = [w EXCEPT !.ok = FALSE]
  <2>1. v.co = w.co /\ v.up = w.up /\ v = [co |-> v.co, up |-> v.up, ok |-> v.ok]
    BY <1>1, <1>5 DEF Whole
  <2> QED  BY <2>1 DEF Remembers, Whole
<1>6. CASE v = [w EXCEPT !.co.cap = 2 * w.co.cap, !.co.block = w.co.block + 1, !.up = more]
  <2>1. v.co = [w.co EXCEPT !.cap = 2 * w.co.cap, !.block = w.co.block + 1]
        /\ v.up = more /\ v = [co |-> v.co, up |-> v.up, ok |-> v.ok]
    BY <1>1, <1>6 DEF Whole
  <2>2. v.co.stack = w.co.stack
        /\ v.co = [stack |-> v.co.stack, cap |-> v.co.cap, block |-> v.co.block,
                   frames |-> v.co.frames, framecap |-> v.co.framecap,
                   open |-> v.co.open, caller |-> v.co.caller]
    BY <1>1, <2>1 DEF Whole
  <2>3. ASSUME NEW u \in Upvalues
        PROVE  /\ more[u] = [open |-> more[u].open, coro |-> more[u].coro, block |-> more[u].block,
                             idx |-> more[u].idx, val |-> more[u].val, var |-> more[u].var]
               /\ more[u].open = w.up[u].open /\ more[u].var = w.up[u].var /\ more[u].val = w.up[u].val
    <3>1. PICK o : o = w.up[u] /\ o = [open |-> o.open, coro |-> o.coro, block |-> o.block,
                                       idx |-> o.idx, val |-> o.val, var |-> o.var]
      BY <1>1 DEF Whole
    <3>2. more[u] = [o EXCEPT !.block = w.co.block + 1] \/ more[u] = o
      BY <1>3, <3>1
    <3> QED  BY <3>1, <3>2
  <2>4. KnownCells(more)
    BY <2>3, SameCellsKnown DEF SameCells, Remembers
  <2>5. Whole(v)
    BY <1>1, <1>3, <2>1, <2>2, <2>3 DEF Whole
  <2> QED  BY <2>1, <2>2, <2>4, <2>5 DEF Remembers
<1> QED  BY <1>4, <1>5, <1>6

(* jml_vm_push, of a slot that is known *)
LEMMA PushRemembers ==
    ASSUME NEW w, Remembers(w), NEW s, Known(s.var, s.val), NEW v, v = Push(w, s)
    PROVE  Remembers(v) /\ v.co.stack = Append(w.co.stack, s)
<1>1. PICK g : (g = w \/ g = Grow(w)) /\ v = [g EXCEPT !.co.stack = Append(@, s)]
  BY DEF Push
<1>2. Remembers(g) /\ g.co.stack = w.co.stack
  BY <1>1, GrowRemembers
<1>3. PICK S : g.co.stack \in Seq(S)
  BY <1>2 DEF Remembers, Whole
<1>4. KnownSlots(g.co.stack)
  BY <1>2 DEF Remembers
<1>5. PICK t : t = Append(g.co.stack, s)
  OBVIOUS
<1>6. PICK T : t \in Seq(T) /\ KnownSlots(t)
  BY <1>3, <1>4, <1>5, SlotsRemember
<1>7. v = WithStack(g, t)
  BY <1>1, <1>2, <1>5 DEF WithStack, Remembers, Whole
<1>8. Remembers(v) /\ v.co.stack = t
  BY ONLY <1>2, <1>6, <1>7, StackRemembers
<1> QED  BY <1>2, <1>5, <1>8

(* The first slots of a stack. *)
LEMMA CutRemembers ==
    ASSUME NEW w, Remembers(w), NEW m \in 0..Len(w.co.stack),
           NEW v, v = WithStack(w, SubSeq(w.co.stack, 1, m))
    PROVE  Remembers(v) /\ v.co.stack = SubSeq(w.co.stack, 1, m) /\ v.up = w.up
<1>1. PICK S : w.co.stack \in Seq(S)
  BY DEF Remembers, Whole
<1>2. KnownSlots(w.co.stack)
  BY DEF Remembers
<1>3. PICK t : t = SubSeq(w.co.stack, 1, m)
  OBVIOUS
<1>4. t \in Seq(S) /\ KnownSlots(t)
  BY <1>1, <1>2, <1>3, SlotsRemember
<1>5. v = WithStack(w, t)
  BY <1>3
<1>6. Remembers(v) /\ v.co.stack = t /\ v.up = w.up
  BY <1>4, <1>5, StackRemembers
<1> QED  BY <1>3, <1>6

(* A slot that gets another value or another name. *)
LEMMA PokeRemembers ==
    ASSUME NEW w, Remembers(w), NEW i \in 1..Len(w.co.stack), NEW e, Known(e.var, e.val),
           NEW v, v = WithStack(w, [w.co.stack EXCEPT ![i] = e])
    PROVE  Remembers(v) /\ v.co.stack = [w.co.stack EXCEPT ![i] = e] /\ v.up = w.up
<1>1. PICK S : w.co.stack \in Seq(S)
  BY DEF Remembers, Whole
<1>2. KnownSlots(w.co.stack)
  BY DEF Remembers
<1>3. PICK t : t = [w.co.stack EXCEPT ![i] = e]
  OBVIOUS
<1>4. PICK T : t \in Seq(T) /\ KnownSlots(t)
  BY <1>1, <1>2, <1>3, SlotsRemember
<1>5. v = WithStack(w, t)
  BY <1>3
<1>6. Remembers(v) /\ v.co.stack = t /\ v.up = w.up
  BY <1>4, <1>5, StackRemembers
<1> QED  BY <1>3, <1>6

(* jml_vm_upvalue_close: an upvalue keeps what its slot held. *)
LEMMA CloseRemembers ==
    ASSUME NEW w, Fits(coro, running, w, global), running \in Coros, Remembers(w), NEW last \in Nat,
           NEW v, v = Close(w, last)
    PROVE  Remembers(v) /\ v.co.stack = w.co.stack
<1> DEFINE U == Used(w.up)
<1>1. v \in Worlds(U) /\ OnlyOpen(v, w)
  BY CloseSame
<1>2. w \in Worlds(U) /\ Pointed(running, w.co, w.up)
  <2>1. w \in Worlds(U) /\ coro \in [Coros -> CoroOf(U)] /\ Exact([coro EXCEPT ![running] = w.co], w.up)
    BY DEF Fits
  <2>2. [coro EXCEPT ![running] = w.co][running] = w.co
    BY <2>1
  <2>3. Pointed(running, [coro EXCEPT ![running] = w.co][running], w.up)
    BY <2>1 DEF Exact
  <2> QED  BY <2>1, <2>2, <2>3
<1>3. PICK n \in 0..Len(w.co.open) : ClosedFirst(n, v, w, last)
  BY <1>2, CloseEffect
<1>4. w.co.open \in Seq(Upvalues) /\ Len(w.co.open) \in Nat
  BY <1>2 DEF Worlds, CoroOf
<1>5. ASSUME NEW u \in Upvalues, v.up[u].open = FALSE PROVE Known(v.up[u].var, v.up[u].val)
  <2>1. CASE u \in {w.co.open[k] : k \in 1..n}
    <3>1. PICK k \in 1..Len(w.co.open) : u = w.co.open[k]
      BY <1>4, <2>1
    <3>2. Points(w.up[u], running, w.co)
      BY <1>2, <3>1 DEF Pointed
    <3>3. v.up[u] = Shut(w, u) /\ Shut(w, u).var = w.up[u].var
          /\ Shut(w, u).val = w.co.stack[w.up[u].idx].val
      BY <1>3, <2>1 DEF ClosedFirst
    <3>4. PICK i : i = w.up[u].idx /\ i \in 1..Len(w.co.stack) /\ w.co.stack[i].var = w.up[u].var
      BY <3>2 DEF Points
    <3>5. Known(w.co.stack[i].var, w.co.stack[i].val)
      BY <3>4 DEF Remembers, KnownSlots
    <3> QED  BY <3>3, <3>4, <3>5
  <2>2. CASE u \notin {w.co.open[k] : k \in 1..n}
    <3>1. v.up[u] = w.up[u]
      BY <1>3, <2>2 DEF ClosedFirst
    <3> QED  BY <1>5, <3>1 DEF Remembers, KnownCells
  <2> QED  BY <2>1, <2>2
<1>6. Whole(v) /\ v.co.stack = w.co.stack
  BY <1>1, TypedIsWhole DEF OnlyOpen
<1> QED  BY <1>5, <1>6 DEF Remembers, KnownCells

(* jml_vm_upvalue_capture: a new upvalue is open. *)
LEMMA CaptureRemembers ==
    ASSUME NEW w, Remembers(w), NEW at, NEW v, v = Capture(w, at).w
    PROVE  Remembers(v) /\ v.co.stack = w.co.stack
<1>1. v = w \/ v = CaptureNew(w, at).w
  BY DEF Capture
<1>2. CASE v = w
  BY <1>2
<1>3. CASE v = CaptureNew(w, at).w
  <2> DEFINE n == CHOOSE m \in 0..Len(w.co.open) :
                        /\ \A k \in 1..m : w.up[w.co.open[k]].idx > at
                        /\ m < Len(w.co.open) => ~(w.up[w.co.open[m + 1]].idx > at)
             new == Min(Unused(w))
             o == [open |-> TRUE, coro |-> running, block |-> w.co.block, idx |-> at,
                   val |-> None, var |-> w.co.stack[at].var]
             open == InsertAt(w.co.open, n + 1, new)
  <2>1. v = [w EXCEPT !.co.open = open, !.up[new] = o]
    BY <1>3 DEF CaptureNew, Prefix
  <2>2. o = [open |-> TRUE, coro |-> running, block |-> o.block, idx |-> at, val |-> None, var |-> o.var]
    OBVIOUS
  <2> HIDE DEF open, new, o
  <2>3. Whole(w)
    BY DEF Remembers
  <2>4. v.co = [w.co EXCEPT !.open = open] /\ v.up = [w.up EXCEPT ![new] = o]
        /\ v = [co |-> v.co, up |-> v.up, ok |-> v.ok]
    BY <2>1, <2>2, <2>3 DEF Whole
  <2>5. v.co.stack = w.co.stack
        /\ v.co = [stack |-> v.co.stack, cap |-> v.co.cap, block |-> v.co.block,
                   frames |-> v.co.frames, framecap |-> v.co.framecap,
                   open |-> v.co.open, caller |-> v.co.caller]
    BY <2>3, <2>4 DEF Whole
  <2>6. v.up = [u \in Upvalues |-> v.up[u]] /\ \A u \in Upvalues : v.up[u] = o \/ v.up[u] = w.up[u]
    BY <2>3, <2>4 DEF Whole
  <2>7. \A u \in Upvalues :
           v.up[u] = [open |-> v.up[u].open, coro |-> v.up[u].coro, block |-> v.up[u].block,
                      idx |-> v.up[u].idx, val |-> v.up[u].val, var |-> v.up[u].var]
    <3> SUFFICES ASSUME NEW u \in Upvalues, NEW p, p = v.up[u]
                 PROVE  p = [open |-> p.open, coro |-> p.coro, block |-> p.block,
                             idx |-> p.idx, val |-> p.val, var |-> p.var]
      OBVIOUS
    <3>1. CASE p = o
      BY <2>2, <3>1
    <3>2. CASE p = w.up[u]
      BY <2>3, <3>2 DEF Whole
    <3> QED  BY <2>6, <3>1, <3>2
  <2>8. KnownCells(v.up)
    BY <2>2, <2>6 DEF Remembers, KnownCells
  <2>9. Whole(v)
    BY <2>3, <2>4, <2>5, <2>6, <2>7 DEF Whole
  <2> QED  BY <2>5, <2>8, <2>9 DEF Remembers
<1> QED  BY <1>1, <1>2, <1>3

(* The upvalues of a closure *)
LEMMA CaptureAllRemembers ==
    ASSUME NEW w, Remembers(w), NEW caps, Len(caps) \in Nat, NEW v, v = CaptureAll(w, caps).w
    PROVE  Remembers(v) /\ v.co.stack = w.co.stack
<1>1. PICK f : /\ f[0] = [w |-> w, us |-> <<>>]
               /\ \A k \in 1..Len(caps) : f[k] = CaptureNext(f[k - 1], caps[k])
               /\ CaptureAll(w, caps) = f[Len(caps)]
  BY CapturesUnfold
<1> DEFINE Good(k) == Remembers(f[k].w) /\ f[k].w.co.stack = w.co.stack
           T == {k \in 0..Len(caps) : ~Good(k)}
<1>2. Good(0)
  BY <1>1
<1>3. ASSUME NEW k \in 1..Len(caps), Good(k - 1) PROVE Good(k)
  <2>1. PICK a, c : a = f[k - 1] /\ c = caps[k] /\ f[k] = CaptureNext(a, c)
    BY <1>1
  <2>2. Remembers(a.w) /\ a.w.co.stack = w.co.stack
    BY <1>3, <2>1
  <2>3. f[k].w = a.w \/ \E at : f[k].w = Capture(a.w, at).w
    BY <2>1 DEF CaptureNext
  <2>4. Remembers(f[k].w) /\ f[k].w.co.stack = a.w.co.stack
    BY <2>2, <2>3, CaptureRemembers
  <2> QED  BY <2>2, <2>4
<1>4. T = {}
  <2> SUFFICES ASSUME T # {} PROVE FALSE
    OBVIOUS
  <2> HIDE DEF Good
  <2>1. T \in SUBSET Nat
    OBVIOUS
  <2>2. PICK k \in T : \A m \in T : k <= m
    BY <2>1, Smallest
  <2>3. k # 0 /\ k \in 1..Len(caps)
    BY <1>2, <2>2
  <2>4. k - 1 \in 0..Len(caps) /\ ~(k <= k - 1)
    BY <2>3
  <2>5. Good(k - 1)
    BY <2>2, <2>4
  <2> QED  BY <1>3, <2>2, <2>3, <2>5
<1>5. Good(Len(caps))
  BY <1>4
<1> QED  BY <1>1, <1>5

(* The world a step starts from *)
LEMMA WorldRemembers ==
    ASSUME IInv, Running
    PROVE  Remembers(World) /\ World.co = coro[running] /\ World.up = upvalues /\ World.ok = TRUE
<1>1. /\ running \in Coros /\ World \in Worlds(Used(upvalues))
      /\ World.co = coro[running] /\ World.up = upvalues /\ World.ok = TRUE
  BY Alive DEF Co
<1>2. Whole(World)
  BY <1>1, TypedIsWhole
<1>3. KnownSlots(coro[running].stack) /\ KnownCells(upvalues)
  BY <1>1 DEF KnownSlots, KnownCells, Known, BindsIn
<1> QED  BY <1>1, <1>2, <1>3 DEF Remembers
=============================================================================
