# JML in TLA+

This directory holds TLA+ models of the interpreter of the JML language
(`src/src/*.c`, `src/include/jml/*.h`), configurations that check them with TLC
and proofs that tlapm checks, about the collector, the hash table, the
interpreter's stacks, classes, the module loader and the module `signal`.  JML compiles a program to bytecode and runs it on a stack machine with a mark-and-sweep collector.  It is
written in C, runs in one thread (interrupted by signals only), and every
operation that allocates may collect.  The repository has no tests and almost no prose, so the code itself
is the reference.

## The system

| component | state | operations | hard because |
|---|---|---|---|
| hash table, `jml_value.c` | `count`, `capacity_mask`, `entries[]`: empty, tombstone or occupied slots | get, set, pop, del, free, iterate, remove_white | the probe has no bound of its own; tombstones are counted, reused and dropped by growth; growing allocates and may collect, and a collection deletes from the table of strings |
| collector, `jml_gc.c`, and object construction, `jml_type.c` | `vm->objects`, `marked` bits, the gray stack, the exempt stack, the weak table `vm->strings` | reallocate, exempt push and pop, mark roots, trace, sweep, free | any allocation may collect; an operation with two allocations must protect the first result; destructors run in the sweep and may allocate |
| interpreter, `jml_vm.c`, and coroutines, `jml_type.c` | per coroutine: stack, frames, open upvalues, `caller`; `vm->running`, globals, modules | call, return, closures, captured variables, try and spread, import, member and index access | the stack moves when it grows while upvalues point into it; an exception unwinds frames over open upvalues; a second coroutine runs inside an instruction |
| classes and methods, `jml_vm.c` | class statics, instance fields, `super` | class, inherit, invoke, bind, `__init`, `__free` | precedence of fields, methods and statics; inheritance is a copy |
| module loader, `jml_module.c` | `vm->modules`, dynamic library handles | resolve, open, register, initialize, finalize | a module is run before it is registered; initializers may fail half way |
| compiler, `jml_compiler.c` | one `jml_compiler_t` per function: locals, upvalues, scope depth, loop | declarations, scopes, resolution, jumps | its idea of the slots must be that of the run, on every path |
| parser, in `jml_compiler.c` | previous and current token, `panicked`, `w_error`, the C stack | one function per construct | newlines are tokens that some functions eat; after an error it must find the next statement |
| lexer, `jml_lexer.c` | start, current, line, the comment flag | one token per call | comments and strings over several lines and calls, strings in three quotes, lookahead at the end |
| bytecode, `jml_bytecode.c` | code, lines, constants | write, add constant, disassemble | operand widths |
| serialization, `jml_serialization.c` | a byte buffer | write and read bytecode | length checks |
| core functions, `jml_core.c`; printing, `jml_repr.c` | none | format, size, instance tests, conversions | call back into the interpreter (`__size`, `__str`) |
| strings and memory helpers, `jml_string.c`, `jml_util.c`, `jml_error.c` | none | UTF-8, files, messages | formatting |
| `std.signal` | the table of handlers, the dispositions | signal(), the C handler | a signal comes between any two writes |
| `std.json` | offset, bytes counted, the C stack | two passes over the text | the second pass checks nothing |
| other standard modules, `src/std` | files, sockets | wrappers of C libraries | destructors that fail (`std.fs`) |
| front ends, `src/ext` | none | command line, disassembler, Python binding | I/O |

How they interact.  `jml_vm_interpret` compiles a source to a function, wraps
it in a closure and a coroutine, and runs it.  The compiler and every
instruction that makes a value allocate through `jml_reallocate`, which calls
`jml_gc_collect` when `vm->allocated` passes `vm->next_gc`; the collector marks
from the running coroutine and its callers, the globals, the modules, the
compilers that are active and the exempt stack, then takes the unmarked strings
out of `vm->strings` with the hash table's own deletion, then sweeps
`vm->objects`, calling destructors of instances.  Importing a module runs its
top level in a new coroutine *inside* OP_IMPORT: `jml_vm_call_coroutine` saves
`vm->running` on the C stack and sets `caller`.  There are no threads: the
interleavings are between a program and the collector, between a program and
the program nested in it, and between an exception and the frames it leaves.

What makes each component correct:

- hash table: it is a dictionary for its callers; every probe ends; a key is in
  one slot; a collection in the middle of growing changes nothing else.
- collector: nothing reachable or interned is freed, and an operation loses
  nothing but what the collector cannot see; nothing unreachable survives;
  strings stay unique; the list of objects is the heap.
- interpreter: frames tile the stack; a variable is one cell however it is
  captured and wherever it lives; a caught exception finds the stack of its
  `try`; nested runs return to the coroutine that started them.
- classes: lookup order is that of the declaration; a subclass has what its
  superclass had when it was declared.
- modules: a module is run once, and finalized only if it was initialized.
- compiler: local and upvalue indices name the slot the run uses; every jump
  lands on the start of an instruction, and the stack has the same height
  whichever way it is reached.
- parser: what the language allows compiles; an error is reported once and what
  follows it is still read; the compiler returns.
- lexer: every character belongs to a token, a blank or a comment; lines are
  counted right; nothing behind the end is read.
- serialization: reading returns what was written, or fails.
- signal: a caught signal finds its handler; what was asked for is in force.
- json: both passes agree, and agree with JSON in strict mode, but for the texts
  listed under the defects; neither turns without reading.

## The modules

| module | what it is |
|---|---|
| `JmlDict` | abstract: the dictionary `jml_hashmap_t` promises, with weak keys |
| `JmlHashmap`, `MCJmlHashmap` | the open-addressing table; implements `JmlDict` |
| `JmlCoroutine`, `MCJmlCoroutine` | stack, frames, upvalues, exceptions, nested coroutines |
| `JmlGC`, `MCJmlGC` | the collector and the operations that allocate |
| `JmlOps` | the instruction set: numbers, dispatch table, lengths |
| `JmlCode`, `MCJmlCode` | one function body compiled to bytes, and the bytes run |
| `JmlScope` (in `MCJmlProgram`) | resolution of names: locals, upvalues, captures, renaming |
| `JmlGrammar` | abstract: a reference grammar of programs, right ones and ones with mistakes |
| `JmlParser`, `MCJmlParser` | every parsing function of the compiler as a pushdown machine |
| `JmlLexer` (in `MCJmlParser`) | the lexer, one character per step |
| `JmlClass`, `MCJmlProgram` | classes, compiled and run: inheritance, members, calls, `super` |
| `JmlImport` (in `JmlSystem`) | search, loading, registration, binding and release of modules |
| `JmlSerial` (in `JmlSystem`) | bytecode saved to a file and read back |
| `JmlSignal` (in `JmlSystem`) | the module `signal` and its C handler |
| `JmlSystem`, `MCJmlSystem` | the three above, which share no state, as one system |
| `JmlJson`, `JmlJsonText`, `MCJmlJson` | the parser of `std.json`: structure, and inside strings and numbers |
| `JmlSignalProofs` | theorems about `JmlSignal` |
| `JmlImportProofs` | theorems about `JmlImport` |
| `JmlSystemProofs` | those theorems for `JmlSystem`, as the run states them |
| `JmlCoroutineFacts`, `JmlCoroutineProofs` | theorems about `JmlCoroutine`: the invariant, upvalues and the simple instructions; closures, calls, exceptions, returns and the theorems |
| `JmlClassProofs` | theorems about `JmlClass` |
| `JmlGCProofs` | theorems about `JmlGC` |
| `JmlHashmapProofs` | theorems about `JmlHashmap`: its invariants, and that it implements `JmlDict` |

`JmlGC!RemoveWhite` and `JmlHashmap!RemoveWhite` are the same call seen from two
sides: the collector's model takes the unmarked strings out in one step, which
is sound because `JmlHashmap` shows that the loop, step by step and also in the
middle of a growth, takes out those keys and no other.

### JmlHashmap

`capacity` is the mask (-1 for a table without an array), `entries` a function
on `0..capacity`.  A tombstone is the null key with the value true, an empty
slot the null key with the value none; both key and value are modelled, because
the code tells the two apart by the value.  `FindEntry` is
`jml_hashmap_find_entry` as a function of the array: the first place where the
probe stops, or the first tombstone before it.  The loop of the code has no
other exit, so each action that probes requires `Terminates` and
`ProbeTerminates` says that it holds whenever a probe can start.

`Set` makes the load check; `Allocated`, `Rehash` (one slot of the old array per
step) and `Install` are `jml_hashmap_adjust_capacity`; `Place` is the rest of
`jml_hashmap_set`.  `Collect`, `RemoveWhite` (one slot per step) and `Collected`
are a collection as the table of strings sees it: it may come between two calls
or inside the allocation of the new array, after the new capacity was computed
and before the array is there.  The key being set is on the exempt stack then
(`jml_obj_string_allocate`), so it is not among the white ones.

### JmlCoroutine

A program is any sequence of instructions the compiler could have laid out: each
action is an instruction, chosen freely among those the scopes of the running
function allow.  A frame is the closure's upvalues, `slots`, `locals` (what the
compiler counts at that point) and `try`, the operand of the OP_TRY_CALL it is
stopped at.  A slot holds a value and, as history, the variable it was given
to; the properties speak of variables, the code only of slots.  An open upvalue
records the block of the stack its pointer was taken in, so a pointer into a
block that `realloc` has released is visible as such.

Instructions are functions of a *world* (the running coroutine and the
upvalues), so one that pushes and may grow the stack is the composition of the
same `Push`, `Close`, `Capture` as in the code.  After "Stack overflow" the code
goes on through `vm->running`, which `jml_vm_error` has set to NULL; the model
stops with the result "crash" there.

`jml_vm_exception` finds its handler by single bytes at fixed places before the
pc of each frame.  Bytes of operands can look the same: behind OP_GET_LOCAL 31,
an OP_CALL 0 reads as an OP_TRY_CALL.  `Handler` is the frame that tries; any
frame above it may be taken for it, and then the exception is caught where
nothing was tried, above a number of slots read off some other operand.  The
model stops there with the result "astray", so `CaughtWhereTried` speaks of the
exceptions that do not go astray, and says that one is reported as an error only
when no frame tries.

What is assumed of the program, and is the compiler's business: scopes nest; a
`try` is used with no temporary below the call it tries, and not in the
initializer of a local (the compiler's operand would be off by one; see the
hazards); slot 0 is not captured.  A call has at most one argument; the
mismatches of arity, and every other runtime error, are `Fail`.  Growing always
moves the block, the worse of `realloc`'s two outcomes.

### JmlGC

`heap` is what is allocated, `list` is `vm->objects`, `refs` the pointers
`jml_gc_blacken_obj` follows, `roots` what `jml_gc_mark_roots` marks besides the
exempt stack, `hand` what only locals of C functions hold.  The mutator links,
unlinks, roots, exempts, takes into a local and releases what it can get at
(`Near`), and allocates.  `New` and `Made` are an operation that makes an object
of operands (closure, bound method, instance, exception, array); `Intern`,
`String` and `Table` are the three allocations of a new string (the characters
and the object, then the growing table); `Root` and `Push` are `jml_vm_push`,
which may grow the stack before it stores; `Grow` and `Grown` are any other
allocation in the middle of a C function.  `Collect` may fire inside each of
them.  `Blacken` takes any gray object: the order of the gray stack does not
matter to the properties.  `Keep` and `SweepOne` walk the list with the code's
`previous`; `SweepOne` may leave an exception of a failed destructor at the head
of the list behind the walker, if `Failing`.  `VmFree` is `jml_vm_free`.

The collector marks the stacks, the tables and the exempt stack, and nothing that
is in a local variable of a C function only.  The interpreter has several places
where an allocation comes while an operand or a result is: `jml_vm_push` when the
stack grows (`jml_vm.c:163`), OP_ARRAY, OP_MAP and the call of a variadic
function, which take the operands off the stack first (2460, 2496, 427),
`jml_array_concatenate` (843), `jml_obj_exception_format` (`jml_type.c:388`, the
name while the message is made), `jml_json_object_parse` (`json.c:995`, the key
while its value is parsed).  The model has no list of them: *any* object may be in
hand when an allocation begins.  If a collection then finds it nowhere else it is
freed; the operation goes on with freed memory, and the model stops it there
(`pc = "lost"`, in `SweepStrings`).  `NothingInHandIsFreed` says that this never
happens, and TLC finds it violated in seven states (`New`, `Made`, `Root`,
`Collect`, `RemoveWhite`).  What is checked and proved is what remains true:
`NothingLiveIsFreed` for all that roots and exempt objects lead to, at all times,
and for what is in hand as long as the operation has it; `CollectionIsExact` for
the converse, that an operation loses something only if no root or exempt object
leads to it.  So what the code protects by rooting or exempting is safe, and what
it does not protect is exactly what can go wrong.

### JmlOps and JmlCode

The compiler makes one pass and works on bytes: a jump is patched when its
construct closes; `break` is a placeholder byte that `jml_loop_end` finds by
walking the instructions of the body; `try` and the implicit return find the
instruction they rewrite by the value of the last bytes.  The same 86 opcodes
are listed by hand four times (enumeration, dispatch table, lengths for the
walk, operands the handlers read); `JmlOps` has the four lists, as they are.

In `JmlCode` a program is any sequence of statements up to `MaxStatements`.
Each statement function of the parser that does not nest is an action; one that
nests is an action that opens it, which emits its header and pushes a record of
the offsets the C function keeps in its variables, and one that closes it.
`locals` and `depth` are the compiler's; an identifier is resolved already, so a
local is an index, a constant or a name is `Name`.  Expressions are one of each
way to emit: a call, a `try` of either kind, a short circuit, a closure, a call
of a superclass.  `Finish` is `jml_compiler_end`; then the run decodes the bytes
through the dispatch table, taking both ways at a branch, and at every call the
way of an exception too.  The values of its stack do not matter here, only
`sp`, how many there are above `frame->slots`.  Ghosts record where the compiler
began an instruction (`starts`), how many values it counts at a statement or a
return (`heights`) and where a `break` should go (`exits`).  The closing of a
loop that has a closure in it reads a constant that need not be a function
(`Upvalues`): any number of upvalues is then a possible outcome.

`Admitted` names the forms of programs the code mishandles.  "slots" admits what
leaves another number of values than the compiler counts: a `let`, a local
import or a match directly in the body of a loop or a branch, a `try` as the
initializer of a local, `break` or `skip` below locals declared since the loop
began, a second import of a name, a function that ends in neither an expression
nor a return.  "try_in_loop", "closure_in_loop" and "super" admit what breaks
the decoding itself.  `MCJmlCode` runs programs with "slots", for what does not depend on the height
(part "free"), and programs with nothing admitted ("tries", "closures").  Two of
the remaining forms have a run that shows what they break.

### JmlScope

The tables of the compilers that are active (`fns`: locals with name, depth and
the captured flag, upvalues with index and origin), driven by any program of
functions, blocks, declarations, uses and renamings.  Beside them stands the
program's own structure: every declaration is a variable of its own and `blocks`
says what each open block binds, which is what a name means.  `NamesAreLexical`
compares the two for every name at every point.  `Forms` admits a parameter `_`
("uscore") and `x -> y` on a variable of a function around ("outer"), which the
code mishandles; the second breaks `NamesAreLexical`, the first `SlotsArePlaces`.

### JmlGrammar and JmlParser

The C stack of the recursive descent is `stack`, the list of what the active
functions have yet to do; each action is what one function does between two
looks at a token.  The parser has no value to return, so this is all its state
but `prev`, `cur`, `panicked` and `w_error`.  The tokens are drawn when the
parser asks for them, from a symbol of the grammar (`kind.start`): "Any" makes any sequence of
the pieces of an alphabet, "Program" the programs of the reference grammar,
"Lines" good code with lines of junk in it.  `JmlGrammar` is not derived from
the parser: it is the style of the programs in `src/std/*.jml`, construct by
construct, and says where a newline may be.  Emitting is left to `JmlCode`; only
whether the last instruction is a call is kept, because `try` asks.  History
variables record the brackets that are open (`open`), the reports, and events
(`marks`): two statements on a line, a closing bracket that closes nothing, a
declaration begun at the end of its block.

### JmlLexer

One step of `JmlLexer` moves over one character, or one operator.  `source` is a
C string: behind its last character is "nul", behind that "beyond", which
`ReadsInside` forbids to look at.  Characters are classes of one: a digit that is
octal and one that is not, the letters of a few keywords.

### JmlClass

Memory is the coroutine's stack, slot by slot, and the compiler's count of it,
because `super` is a local of the text whose slot the two disagree about.
`ClassOpen`, the members and `ClassClose` are the code of a declaration as it
runs; `CallValue`, `InvokeInstance`, `InvokeClass`, `Member` are the four places
of `jml_vm.c` that find and call a member.  `cells` are the upvalues by which
methods reach `super`, closed when the text ends.  `own` is a history: what the
body of each class wrote.  `Forms` names what the code mishandles, see the
module's head.

### JmlImport

Objects are in the order of their allocation, `modules` is `vm->modules`, `runs`
the nested runs with what each C function saved.  `Enter` takes an import that
is not known to the search; `ImportNative` and `ImportText` load it, `Unwind`
takes an error out through one run, `EndOfModule` registers a module whose text
has ended.  `VmFree` is `jml_vm_free` object by object, in the order of
`vm->objects`, with destructors that are code of libraries.

### JmlSerial

The writes of the serializer, in order, each with the depth of the C function it
belongs to: the buffer is passed by value, and `REALLOC` changes the copy of the
function that uses it.  `stale` says that a caller went on with an old copy;
nothing is claimed of such runs (they need files beyond the first buffer).
`file` grows byte by byte and the process may stop at each; `Read` is the reader
as a function of the bytes.

### JmlSignal

`signal()` is three steps (the checks, the slot, the disposition), the handler
three (reinstall, read the slot, run), and a signal may be delivered between any
two of them, to the handlers too.  Both behaviours of signal(2) that POSIX and C
allow are modelled: the signal is blocked while its handler runs, or its
disposition is reset and nothing is blocked.

### JmlJson and JmlJsonText

The text is made up as the first pass reads it, in each of the three modes.  The
first pass records where it saw what (`plan`), the second what it builds where
(`built`); bytes are counted by the first and written by the second.
`JmlJsonText` is the inside of strings and numbers, by recursive operators and
therefore without proofs; its reference is JSON's own definition of both, and the
UTF-8 of a code point.  "end" is the end of the input, which every look at the
next character treats in its own way.

Three things are wrong in the code, are in the model, and are exceptions that
the properties name.  `jml_json_number_size` reads digits, a point and an exponent
behind Infinity and NaN, `jml_json_number_parse` only before them: of the json5
text `[Infinity1]` the second pass makes two elements and writes one byte more
than was counted, and of `{a:{b:[{c:Infinity1}]}}` an array without end
(`Glued`, `GluedNumber`: nothing else is claimed of these texts).  A sign needs a
digit only if something follows it: strict mode takes `-` for 0 (`LoneSign`).
Strings take control characters other than NUL, tab and the two of a newline as
they are, in strict mode too ("ctl" in the reference of `StringIsJson`).

## What is checked

Modules that share no state in the code are checked in one run as a sum: a
variable `part` says which of them runs, the others
stay at their start, so the states are those of each of them added up and every
property is one of its own part.  The properties of such a run are conjunctions of
what the modules define, stated in its MC module, or in `JmlCoroutine` and
`JmlSystem` where theorems state them too:

| property | is |
|---|---|
| `StacksAreSound`, `UpvaluesAreExact` | `JmlCoroutine`: `TypeOK`, `FramesTileTheStack`, `CallersAreChained`; `OpenListIsExact`, `OneCellPerVariable` |
| `VariablesAreKept` | `JmlCoroutine!KeepsValues` of every step |
| `CollectionsEnd` | `JmlGC!CollectionEnds` |
| `InStep`, `PlainStackIsLocals`, `PlainOperandsAreKept` | `JmlCode`: `TypeOK`, `OnInstructions`; `StackIsLocals`, `OperandsAreKept` |
| `AcceptedIsWellFormed` | `JmlParser`: `TypeOK`, `AcceptedIsBalanced`, `StatementsAreSeparated` |
| `TokensAreExact` | `JmlLexer`: `TypeOK`, `ReadsInside`, `TokensCover`, `LinesAreExact`, `LiteralsFit` |
| `PassesAgree`, `StrictTextsAreJson` | `JmlJson`: `TypeOK`, `PassesReadTheSame`, `BufferSuffices`; `StrictIsJson`; with `SameText`, `StringIsJson`, `NumberIsJson` of `JmlJsonText` |
| `ClassesInPlace` | `JmlClass`: `TypeOK`, `SuperIsTheSuperclass`, `StaticsAreOwnOrInherited` |
| `NamesAreResolved` | `JmlScope`: `TypeOK`, `NamesAreLexical`, `UnreadyIsRefused`, `TakenAreClosed` |
| `ModulesLoadOnce`, `ErrorsRestore` | `JmlImport`: `ModulesAreWhole`, `OneObjectPerModule`, `RunsOnce`; `TypeOK`, `CurrentIsInnermost` |
| `SavedIsReadBack` | `JmlSerial`: `TypeOK`, `ReadIsWritten`, `TruncatedIsRefused` |
| `FrontEndEnds`, `StructureEnds` | `CompileEnds` and `LexerEnds`; `ParseEnds` |

Each conjunct has a mutant of its own that breaks it.

| run | bounds | shows |
|---|---|---|
| `hashmap` | 3 keys with colliding homes, first capacity 2 | growth from no array to 2, 4 and 8 slots, with tombstones in each and a collection in the middle of each growth; the table is a dictionary |
| `coroutines`, part "calls" | 3 frames, 1 upvalue, a stack of 3 that grows to 12 | frames tile the stack, exceptions land where they were tried or go astray |
| part "sharing" | one coroutine, 2 frames, 2 upvalues | a variable stays one cell through scopes, calls, returns, exceptions and growth |
| part "nesting" | 2 coroutines of 2 frames, 1 upvalue, 2 variables at a time | an import in the middle of a function, closures shared across coroutines |
| `gc`, part "exact" | 3 addresses (symmetric), 1 string content, 1 reference per object, exempt stack of 2, 2 objects in hand | safety and exactness of collections, with every interleaving of allocation and collection |
| part "ends" | 3 addresses, 1 reference, exempt stack of 1, 1 object in hand, destructors may fail | every collection ends |
| `code`, part "free" | an initializer of 3 statements nested up to 3, with "slots"; heights up to 6 | the run decodes what was emitted, `break` leaves its own loop |
| parts "tries" and "closures" | functions and main programs of 4 statements nested up to 2, nothing admitted; calls that are tried, or closures | the stack holds the locals the compiler counts, on every path; rewriting spares operands |
| `front_end`, part "parser" | ten alphabets of 6 to 8 pieces, 4 of them; 5 rules of the grammar, with and without junk | what compiles is balanced and its statements are apart; right programs compile; one report per line of junk; the compiler returns |
| part "lexer" | 4 alphabets of 5 to 7 characters, 5 of them; 7 of quote, backslash and newline for strings in three quotes | tokens, lines, literals and lookahead; the lexer reaches the end |
| `json`, part "structure" | texts of 5 lexemes of 14, or 6 without numbers, three modes | both passes agree and bytes suffice unless a digit is glued to Infinity; strict is JSON and a lone sign; parsing ends |
| part "literal" | strings of 8 characters, numbers of 5 with what follows them | the same inside strings and numbers |
| `program`, part "classes" | 3 classes (one native) of 2 members, 2 frames, 2 texts of 3 statements in all | the right `self`, `super`, inherited members; invoking is reading and calling |
| part "scope" | 3 nested functions, 3 variables of 2 names, 4 blocks | names are compiled to the variable their blocks bind; what closures take up is closed |
| `system`, part "signals" | 4 signals, 2 of them caught, 2 functions, 3 calls, 3 arrivals | a caught signal finds its handler, what was asked for is in force, and the process survives it |
| part "modules" | 4 modules: two texts, a library, one that fails; 6 statements | modules are whole, run once, one object each; errors restore what was saved; destructors before libraries |
| part "bytecode" | 2 bytes of code, 3 constants of 7 kinds, a first buffer of 16 bytes | what is read is what was written; a truncated file is refused |
| `code_super` (violation) | 1 statement, "super", a name with constant 90 | an operand is executed after a call of a superclass's method |
| `code_closure` (violation) | 4 statements, "closure_in_loop" | the scan for breaks loses step behind a closure; byte 127 is executed |
| `parser_binary` (violation) | 4 pieces with operators | a newline is taken for the operator |
| `class_super` (violation) | "leak" | `super` of the second class of a text is another value |

Why the bounds are enough to be interesting.  *Hash table*: three keys that share
a home among two and four slots, and only two of them among eight, already give
every kind of probe (wrapping, over tombstones,
ending on the key, on an empty slot, on a reused tombstone) and tables at the
load limit; values matter only in that none and true may be stored, which the
tombstones use too.  *Coroutine*: `StackMin` 3 to 5 makes the stack grow within
a call or a capture (the first call grows it too, as the array of frames is
full then); two frames are a function and its caller, three have one between a
handler and what it catches; two upvalues allow two variables of a
function, or one captured twice.  *Collector*: three addresses are an operand, a
result and garbage, reused after being freed; cycles and self-references occur;
`MaxExempt` 2 leaves a place for the program and one for an operation, the
pattern the code relies on with its 16 and no check of the bound.

*Names*: three functions give a capture through one in the middle; two names of
three variables shadow each other.  *Parser*: its control is the token and the
function, so a construct of each kind with right and wrong pieces around it
meets every branch; the pieces are several tokens long, so that four are a class
with a method and what follows in it.
*Lexer*: an opening and a closing of three quotes are six characters; it looks
two ahead.  *Classes*: three classes are a superclass, a subclass and one more
before, between or below them.  *Modules*: two texts and a library are a module
that imports a module that imports, in every order, with one that fails at any
depth.  *Serialization*: a buffer of 16 grows once or twice for each program
larger than it; every kind of constant comes first, in the middle and last.
*Signals*: two that are caught interrupt each other, three arrivals interrupt an
interrupted handler and its return.  *JSON*: six lexemes are a container in a
container with a mistake; two hex escapes are six of a string's eight
characters.  *Code*: three
statements nest a `break` two loops deep, or put two in one loop; four put a
declaration in a block in a loop before a `break`; jumps are relative, so what
stands around a construct matters only to its neighbours; `MaxHeight` cuts off
the badly scoped loops that push a value in every turn (well-scoped programs
stay below it).  Offsets stay below 256, constants below 30: the wide forms of
the operands are not reached.

Deadlock is not checked in the runs of `JmlCoroutine`, `JmlCode`, `JmlClass` and
`JmlImport` (a program ends), of the compiler's parts, the lexer, the serializer
and the JSON parser (they return), of `JmlSignal` (nothing more is called or
arrives) and of `JmlGC` (`jml_vm_free` ends it, and a heap that is full has no further
allocation).

Fairness.  There is one thread.  `JmlHashmap!FairSpec` assumes that a call that
has started goes on (its loops are not preempted), and asks nothing of callers.
`MCJmlGC!MCSpec` assumes the same of a collection that has started (part "ends"); a
program is never required to allocate.  `MCJmlParser!MCSpec` and `MCJmlJson!MCSpec`
assume that a call that has started goes on, and are given texts that end;
`FrontEndEnds` and `StructureEnds` are then statements about the loops of the
parser, the lexer and the JSON parser.

Each property comes with one or more mutants in the modules, operators marked
`mutant` beside the definitions they vary as a plausible slip would: with one in
place of the definition, the run finds the property violated.

## What is proved

`JmlGCProofs`, for every number of addresses, contents, references, places on
the exempt stack and objects in hand:

| theorem | assuming | says |
|---|---|---|
| `TypesHold` | | `Spec => []TypeOK`, the exempt stack within its bound |
| `LiveObjectsSurvive` | | `Spec => []NothingLiveIsFreed` |
| `StringsAreInternedOnce` | | `Spec => []InternedOnce` |
| `MarkingIsTriColor` | | `Spec => []TriColor` |
| `ListHoldsTheHeap` | `~Failing` | `Spec => []ListIsHeap` |
| `CollectionsAreExact` | `~Failing` | `Spec => CollectionIsExact` |

The inductive invariant `IInv` adds to the properties what they rest on:

- `Distinct` and `list` within `heap`: an object is on `vm->objects` once, so it
  is swept once.
- `Needed`, what the program can get at together with the interned strings, is
  all on the list.  Two lemmas, that `Closure` of a set is closed under `refs` and
  that it is the least such set, stand for its definition everywhere else, so that
  reachability is never unfolded; `NearIsClosed` applies them to `Near`.
- `StringsAreLeaves`: a string points at nothing, so that it is black at once.
- `OperationInv`: that the exempt stack has room for what an operation pushes; at
  each place of an operation, that no string of that content is interned yet
  (`string`), that the new string is exempt (`table`), or that the operation
  holds nothing any more (`lost`).
- `TraceInv` and `SweepInv`: the tri-colour invariant while tracing, and that only
  what is reachable is marked; while sweeping, that all that is needed is either
  marked and still ahead, or already passed.

Without `OperationInv` the invariant is not inductive: `Table` would add a freed
string.  Without `SweepInv` nothing would say why the second half of a sweep is
safe after the first half has cleared the marks.  `ExactInv`, for the last two
theorems, adds that `heap` is the list and that what a sweep has passed or will
keep is reachable.
It needs `~Failing`: an exception made by a destructor is garbage that the sweep
which made it does not free.

`JmlHashmapProofs`, for every set of keys and of values, every hash function and
every first capacity from 2 up (`HashmapAssumption`):

| theorem | says |
|---|---|
| `ProbesTerminate` | `Spec => []ProbeTerminates`: the loop of `jml_hashmap_find_entry` ends |
| `KeysStayFound` | `Spec => []KeysAreFound` |
| `CountsStayExact` | `Spec => []CountIsExact` |
| `TypesHold` | `Spec => []TypeOK` |
| `TableImplementsDict` | `Spec => ImplementsDict`: the table is a dictionary |

The argument has three layers.  The first is about probes alone: a probe visits
every slot once (`ProbeInjective`, `ProbeOnto`), so a table with an empty slot
stops it (`RoomStopsProbes`), and where it gets to is the key's slot or a free
one (`FindEntrySpec`).  The second is about one store: a slot that is filled
where the probe for its key got to, or turned into a tombstone, leaves every
other key where its own probe leads (`StoreKeepsPlaces`); an *empty* slot in its
place would not.  The third is the inductive invariant `HInv`.  Besides the
properties it says that there is no array or one of at least `MapMin` slots
(three quarters of a single slot would be all of it), that a growth has
exactly the keys it has passed in the new array and no tombstone (`CopyInv`:
why the copy never meets its own key, so that adding one to `count` per key is
right, and why the new array stands for the same dictionary), that a growth in
progress leaves room for the key it was made for (`SetInv`), and that a removal
has left no unmarked key behind it (`WhiteInv`).  The refinement then goes action
by action: `Place` is the dictionary's `Set`, `RemoveWhite` its `Evict` or
nothing, the steps of a growth are invisible.

`JmlSignalProofs`, for a table of any size, any functions and any number of calls
and arrivals (`SignalAssumption`):

| theorem | says |
|---|---|
| `SignalTypes` | `Spec => []TypeOK` (only proved, in no run) |
| `CaughtSignalsHaveHandlers` | `Spec => []CaughtHasHandler`: no signal finds an empty slot |
| `AskedIsInForce` | `Spec => []InForce`: outside the first step of a handler the disposition is what was asked for |
| `CaughtSignalsDoNotEnd` | `Spec => []Survives`: where signals are blocked, only one left at its default ends the process |

Three facts make it inductive.  A call between its two writes has written the slot
(`CallHasSlot`): a delivery there finds a function, the old or the new one.  A
caught disposition was asked for (`CaughtAsked`), and so was that of every
handler on the stack (`FramesAsked`): without it a handler that reinstalls itself
could put back what the program has meanwhile replaced; it holds because the
handler calls a C function, which cannot call signal().

`JmlImportProofs`, for any modules, files, graph of imports and number of statements:

| theorem | assuming | says |
|---|---|---|
| `ImportsRestore` | | `Spec => []CurrentIsInnermost`: `vm->current` and the exempt stack after any failure |
| `DestructorsFirst` | | `Spec => []DestructorsBeforeLibraries`: no destructor runs when its library is closed |
| `TableIsWhole` | `ImportAssumption` | `Spec => []ModulesAreWhole`: what is in the table has run to its end, or is filled, and knows its name |
| `LoaderKeepsTypes` | `ImportAssumption` | `Spec => []TypeOK` |
| `ModulesRunOnce` | `ImportAssumption`, `Ranked` | `Spec => [](RunsOnce /\ OneObjectPerModule)` |

`ImportAssumption` says that the names are what they are taken for.  `Ranked(rank)`
says that imports form no cycle; only the last theorem needs it, and it is false
without: a text that imports itself is not in the table yet when it is looked up
there, and runs again, without end.

`IInv`, for the first two, has three parts.  `HeapInv`: whatever a global, the table or a run names as
a module is an object that is one, and an instance is newer than its module.  All
the ways an import can bind come down to one lemma (`Putting`) and a case for the
wildcard (`Binding`); that objects keep their kind (`Extends`) carries the rest
over an allocation.  `RunInv`: each run saved the module of the run below it, and
main's, the first, has none; so an error that leaves runs one by one restores the
right one each time (`RunLeft`).  `FreedInv`: what is freed is the newest part of
the heap; with an instance newer than its module this is the second theorem.

`WholeInv`, for the third theorem, follows a module from where it is made to where
it is entered in the table: nothing is entered whose run has not ended
(`Entered`), two runs never fill one object (`Separate`), and each is a text's
own (`Texts`).  `OnceInv(rank)` holds the argument of the last theorem: the ranks
of the texts being run fall from the main program inwards (`Descending`), so none
of them is run within itself; a text that is running is not in the table
(`Absent`); a text has run once if it is there and not at all if it is not
(`RunOnce`); and whatever a live global names as a module is the object the table
has for that name (`LiveHome`), by each of the ways an import binds, the wildcard
included.

`JmlSystemProofs` brings this to the system of the run `system`, where the
loader runs beside signals and serialization:

| theorem | says |
|---|---|
| `ModulesAreLoadedOnce` | `SystemSpec => []ModulesLoadOnce` |
| `ErrorsAlwaysRestore` | `SystemSpec => []ErrorsRestore` |
| `DestructorsRunFirst` | `SystemSpec => []DestructorsBeforeLibraries` |

A step of the system is one of the loader or leaves the loader's state alone, so
`LoaderInv` is kept by both.  The assumption `ImportsAreRanked` of `JmlSystem` is
`Ranked` for its constant `Rank`; TLC evaluates it in the run.

`JmlCoroutineFacts` and `JmlCoroutineProofs`, for any number of coroutines, frames,
locals, temporaries, captures, upvalues and variables, and any first size of the
stack and of the array of frames that the code could have (`CoroutineAssumption`: the
stack and the array have room for the first call; the exception is not none):

| theorem | says |
|---|---|
| `StacksAlwaysSound` | `Spec => []StacksAreSound`: types, frames that tile their stacks, a chain of callers |
| `UpvaluesAlwaysExact` | `Spec => []UpvaluesAreExact`: the list of open upvalues; one cell per variable |
| `CaughtAlwaysWhereTried` | `Spec => CaughtWhereTried`: an exception lands where it was tried, goes astray, or is an error when nobody tries |
| `VariablesAlwaysKept` | `Spec => VariablesAreKept`: only an assignment to a variable changes its value |

`IInv` is a statement about the machine until it stops; when it has, by an error
outside any `try`, nothing of it is read again.  It has three parts, and none is
inductive alone:

- `Chained`: the running coroutine is the last of those that wait for each other,
  and each of these is stopped at a call, with one place for its result.  Without
  it nothing is known of the stack that a return, or an exception that leaves a
  coroutine, comes back to.  `Shaped` says it of one coroutine, for a given number
  of temporaries above its last local: each frame begins where the one below it
  ends, waits for one value, and expects an exception inside itself (`Waits`).
- `Typed`: what a slot or a cell holds is in the right set.
- `Exact`: the list of open upvalues is sorted, without repetition, and has those
  that point into this stack at a captured slot, in the block that the stack is in
  now; a name is that of one slot or of one cell.  It is a statement about names
  in slots and cells, without frames: a lemma about each way a stack changes
  (grown and moved, cut, a slot named or renamed) keeps it, and these lemmas are
  all that the instructions use.  A stack may be cut only below what was closed;
  that is where `Close`, and the height it is called with, matter.

Each instruction then has a lemma that it keeps `IInv`, `Spread` (an exception)
and `Return` with their cases: into the same coroutine, out of it, out of the last.

`VariablesAlwaysKept` is an action property, so `IInv` of both states is not
enough: a lemma per instruction says that the World it ends with `Remembers`.
Whatever a slot or a closed cell of that World holds is `Known`: the variable is
new, or the step assigns to it, or some slot or closed cell held it before.
`Push`, `Grow`, `Close`, `Capture`, `Drop` and the cutting of a stack each keep
this.  `Close` is the delicate one: the value it copies into a cell is the one in
the slot the cell pointed to, by `Exact`.  Then `Exact` of the state before gives
the property: what the variable may hold after the step is a value it held before
it, and it held only one (`BindsOnce`).

`JmlClassProofs`, for any names, natives and bounds (`ClassAssumption`), and for
programs that use none of the forms the code mishandles (`Forms = {}`; with one of
them the theorems are false, as the defects below show):

| theorem | says |
|---|---|
| `SelfAlwaysFits` | `Spec => []SelfFits`: self is an instance of the method's class, however it was reached |
| `ClassesStayInPlace` | `Spec => []ClassesInPlace`: own and inherited members; `super` is the superclass |
| `InvokingIsGettingThenCalling` | `Spec => []InvokeIsGetThenCall`: the two lookups of a member agree |
| `ClosedClassesStay` | `Spec => ClosedClassesAreImmutable` (only proved, in no run) |

`IInv` says four things, each of which the others need:

- of values (`ValueOK`, `StaticOK`): a bound method suits the instance it is bound to,
  an upvalue that a method names holds the superclass of the method's home, and a
  static function was written in the class that has it or in one it descends from
  (`Desc`).  Inheritance is a copy, so this is what connects a copied static with
  the instances that reach it; `DescOver` carries it over `super`.
- of frames (`FrameOK`): each has two places above the one below it and, but for
  `__inherit`, an instance that suits its function in the first.  A call writes
  only above the top, so the frames below keep theirs (`Keeps`, `Near`).
- of classes (`OwnOrInherited`): a class that is open is nobody's superclass
  (`BodiesOK`), so that writing a member to it changes no copy's original.
- of the stack below the frames while a text runs: `Plain`, `Deriving` (the body of
  a class with a superclass) or `Hooked` (one whose superclass has `__inherit`).
  This is where OP_INHERIT, which pops nothing, meets the compiler's count: the
  slot of `super` is 1 and holds the superclass in `Deriving`, holds something else
  in `Hooked` (no method captures it there), and an upvalue can only be open to it
  when one class was left there (`Open`).  Without the three shapes nothing would
  say that OP_CLASS_FIELD finds the class of the body on top of the stack.

Only model-checked:

- `JmlCode`, `JmlScope`, `JmlParser`, `JmlLexer`;
- `JmlSerial` and the JSON parser: that what was written is read back, and that two
  passes agree, are inductions over the data, which the provers do not do;
  `JmlJsonText` is recursive besides;
- liveness (`CallsReturn`, `CollectionsEnd`, `FrontEndEnds`, `StructureEnds`), which
  the prover does not do either.

## Known defects on the way

Four have a run that shows them (findings of `PROJECT.json`): `code_super`, two
entries of the dispatch table are swapped; `code_closure`, the scan for breaks
loses step behind a closure; `parser_binary`, a newline behind a binary operator
loses the operator; `class_super`, `super` of the second class of a text is wrong.

The models show these too, each as a violation of a property defined for it, with
the constants named here in a configuration of the module:

| where | what | property, constants |
|---|---|---|
| `jml_vm.c:163`, 427, 843, 2460, 2496; `jml_type.c:402`; `json.c:995` | what only C locals hold is freed by a collection in the next allocation | `JmlGC!NothingInHandIsFreed` |
| `jml_vm.c:380` | a call that is not tried passes for one that is, by the bytes before it | `JmlCoroutine!OnlyTriesCatch` |
| `json.c:596` against 1078 | digits behind Infinity are counted and not read: `[Infinity1]` | `JmlJson!EveryTextFits`, `JmlJsonText!EveryNumberIsRead` |
| `json.c:627` | strict mode takes `-` for a number | `JmlJson!StrictSignsHaveDigits` |
| `json.c:267` | strict strings may have raw control characters | `JmlJsonText!ControlsAreEscaped` |
| `json.c:681` | a number may end behind the input (`1e`), which is then refused | `JmlJsonText!NumberStaysInside` |
| `fs.c:738` | the exception of a destructor that fails in `jml_vm_free` is never freed, against the assertion at `jml_vm.c:152` | `JmlGC!NothingIsLeft`, `Failing = TRUE` |
| `jml_bytecode.c:661` | the scan for breaks loses step behind a `try` of a method | `JmlCode!OpInRange`, `Exprs = {"try_invoke", "or"}`, `Admitted = {"try_in_loop"}` |
| `jml_compiler.c:1784` | a parameter `_` shifts the ones behind it | `JmlScope!SlotsArePlaces`, `Forms = {"uscore"}` |
| `jml_compiler.c:1384` | renaming an outer variable renames another | `JmlScope!NamesAreLexical`, `Forms = {"outer"}` |
| `jml_compiler.c:2001` | a block `{` newline `}` is refused | `JmlParser!BlocksEndAtBrace`, alphabet `Branches`, `Pieces = 5` |
| `jml_compiler.c:1466` | a line that ends in `self` is refused | `JmlParser!NewlineIsMissed`, alphabet `Methods`, `Pieces = 5` |
| `jml_lexer.c:296` | `'\\'` is not a string | `JmlLexer!StringsEndAtQuote` |
| `jml_lexer.c:379` | `1e1` is two tokens, against the grammar of the reference | `JmlLexer!ExponentsAreNumbers` |
| `jml_compiler.c:1943` | a member of a nested class goes to its superclass | `JmlClass!ClosedClassesAreImmutable`, `Forms = {"nested"}`, `MaxClasses = 4` |
| `jml_vm.c:2165` | a method read from its class runs without `self` | `JmlClass!SelfFits`, `Forms = {"classget"}` |
| `signal.c:226` | the bound of the table is off by one | `JmlSignal!WritesInTable` |
| `signal.c:218` | the types of two arguments are checked together | `JmlSignal!TypesAreChecked` |

The hazards name further places where the code is wrong, or as good as, and no
sentence of the repository says otherwise: an exempt object left behind when
OP_MAP meets a key that is not a string (`jml_vm.c:2504`); a `try` whose call has temporaries below it loses them, and
one in the initializer of a local restores one slot too few; a stack overflow
dereferences NULL; a cyclic import recurses without end; the size of a map
counts tombstones; the implicit return may take an operand for a pop; `return;`
is refused; a map's key may be any token; saved programs lose their functions.

## What is not modelled, and the plan

In this order:

1. Proofs of `JmlParser` (its types and `AcceptedIsBalanced`) and of `JmlScope`.
2. `JmlMemory`: the accounting of `vm->allocated` against the allocators that
   by-pass it.
3. Containers (arrays, maps, iteration) and core functions on the tables above;
   operators that call methods; `__str` and `__free`.
4. `jml_json_value_unparse`; the wide operands of `JmlCode`.

Left out for good: UTF-8 helpers (pure data), `jml_repr.c` and the disassembler
(output), the rest of `src/std` (wrappers of C libraries, tables of constants)
and `src/ext` (front ends), arithmetic on doubles, the number and string literals
of the compiler.  A collection inside a destructor inside a collection is left
out of `JmlGC`: the code does not guard against it, and a model of it would only
repeat that.
