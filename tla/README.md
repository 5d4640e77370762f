# A TLA+ model of cough

cough is a small language with a compiler and a virtual machine, written in C as a
library (`src/lib`); its application (`src/app/main.c`) is empty and its tests
(`src/tests`) drive the library directly.  Everything is sequential and in memory: there
are no threads, no files written, nothing to recover after a crash.  What is hard in it is
of another kind: memory laid out by hand and addressed by offsets, tables that must stay
consistent under long sequences of legal calls, loops without a bound, passes that rely on
what an earlier pass left behind, and arithmetic at the edges of a word.

This directory holds TLA+ modules translated from that source, TLC configurations that
check them on small instances, and proofs checked by TLAPS that hold for every instance.

## Inventory

A program goes through the library from top to bottom:

    text -> tokenizer -> parser -> analyzer -> generator -> emitter -> vm
                                                  assembler -^     \-> disassembler

| component | state it keeps | operations | what makes it correct | model |
|---|---|---|---|---|
| source text (`source/`) | the text, the index of each line's start | build the table, position of an index | the table lists every line, the search ends inside it with the right line and column | `SourceText` |
| tokens, tokenizer (`tokens/`, `tokenizer/`) | tokens with their positions and lengths | recognise one token, a loop over the text | the tokens are the text, spelling decides keyword or identifier, the loop ends | `Tokenizer`, `Tokens`, `FrontEnd` |
| parser (`parser/`) | the position in the tokens, the tree under construction, the functions that are complete | one function per production, error recovery | precedence and grouping, numbers have their value, stays inside the tokens, recovery ends and loses nothing | `Parser`, `Literals`, against `Grammar` |
| typed tree (`ast/`) | expressions, patterns, definitions | nodes, numbered functions | | `Syntax` |
| type registry (`ast/type`) | types by id, a hash map from function types to ids | register, look up or create a function type | one id for each function type | `TypeRegistry` |
| bindings (`ast/binding`) | scopes, variables and functions with their types and ids | push, look up, leave a scope | the innermost binding wins, a scope's bindings end with it | `Bindings` |
| analyzer (`analyzer/`) | bindings, types, the function under analysis | one function per node of the tree | names resolve to what they denote, types are consistent, errors do not stop it | `Analyzer`, against `Semantics` |
| generator (`generator/`) | the emitter, the current function | code for each expression | the code computes the value of the expression and leaves one word | `Generator`, against `Semantics` |
| emitter (`emitter/`) | bytecode so far, symbols, references to patch | emit, new symbol, set its location, finish | every reference holds its symbol's location | `Emitter` |
| bytecode (`bytecode/`) | bytewords | read and write instructions, padding | readers and writers agree on where words are | operations in `Operations`; layout in `Emitter` |
| assembler (`assembler/`) | the emitter, a hash map from names to symbols | one line after another | names resolve, well-formed texts mean what they say, others are refused | `Assembler` |
| disassembler (`disassembler/`) | a position in the code, the places of symbols, the text so far | find symbols, one instruction after another | the text has the instructions and the labels of the code | `Disassembler` |
| virtual machine (`vm/vm`) | instruction pointer, value stack and frames (two growing blocks) | 47 operations and system calls | calls return, variables are the call's own, results are words, memory stays in its blocks | `Vm`, `StackMachine`, `VmRefinement`, `Operations` |
| vm system (`vm/system`) | none: a table of functions | exit, hi, bye, dbg | asked for in program order | `output` of `Vm` |
| hash map (`util/collections/hash_map.h`) | occupancies, keys, values, len, capacity; handles outside it | get, insert, remove, by key or by handle; growth | it is a dictionary, every probe ends, handles stay good through growth | `HashMap`, `Dictionary` |
| arrays, strings (`util/collections/array.h`, `string.c`) | a block, len, capacity | reserve, push, extend, pop; format, read a file | what was put in stays, strings end with a NUL inside their block, a file is read whole or an error is returned | `Strings` |
| buffer allocator (`util/alloc/buf.c`) | a block, its size and capacity | reserve, align, allocate, extend, cut, each refusing or growing | regions are aligned, apart and inside, nothing is lost when the block moves | `Buf`, `Strings` |
| diagnostics (`diagnostics/`) | none | print | | not modelled |
| application (`src/app`) | none | empty | | not modelled |

How they interact: by calls only.  The vm calls the vm system through a table of
functions; the assembler and the type registry hold handles into their hash map across
calls to other components; every pass after the tokenizer holds indices into arrays an
earlier pass may reallocate.

`PROJECT.json` lists every place we know of that tests would hardly reach ("hazards"),
with the properties that cover it and, where none does yet, why.

## Modules

    Operations <--- StackMachine               Dictionary
        ^                ^                          ^
        |                | (implements)             | (implements)
        +----- Vm <--- VmRefinement <- MCVm    HashMap <- MCHashMap     SourceText

    Emitter <- Assembler <- Disassembler <- MCAssembler          Buf <- Strings

    Tokenizer, Literals <---------- Tokens <--+
    Tokenizer, Literals, Syntax <-- Parser <--+- FrontEnd <- MCFrontEnd
    Tokenizer, Syntax <------------ Grammar <-+

    Syntax <- TypeRegistry <- Bindings <- Analyzer <--+
       ^                         ^--- Generator <-----+-- Compiler <- MCCompiler
       +----- Semantics <-----------------------------+      |
                                                             +--> Vm

Proofs are in modules that extend what they are about: `Vm_proofs` (with the lemmas on
`Operations`), `StackMachine_proofs` (on `VmRefinement`), `HashMap_proofs` (with the refinement
of `Dictionary`), `SourceText_proofs`, `Strings_proofs`, `Tokens_proofs` and
`Assembler_proofs` (which begins with those on `Emitter`).  `Induction` has what they share:
induction over the naturals, and division.

### Operations

The words of the machine and what each arithmetic, logical and comparison operation can
yield.  A word has `WordBits` bits and is a natural number below `WordCount`; signed reads
are two's complement.  An operation has a *set* of outcomes: a division that does not
return (by zero, or of the lowest number by -1: the FIXME at vm.c:307) is the outcome
`Trap`; a signed overflow may wrap or trap, since the debug build is compiled with
`-fsanitize=address,undefined` (`src/CMakeLists.txt:4`); floating-point results are any
word.  `Dispatched` is exactly the list `FOR_OPERATIONS` of bytecode.h, so `leu`, `ltu`
and their siblings, for which vm.c has handlers nobody dispatches, are invalid here as
they are there.

### Vm

`vm.c`, one action per operation `run_one` dispatches (operations with the same handler
shape share one).  The two blocks of memory are modelled as they are: `value_stack` with
its data, top and capacity, doubled by `push` exactly when full; `frames` with its words,
top, `local_variables` and capacity.  `frames.block` is how many words the block really
has, which `frames_alloc` of the code confuses with the capacity (see Findings).

Abstractions: memory is counted in words instead of bytes, since every size the code
computes is a multiple of one; pointers into a block are offsets; bytecode is a sequence of
decoded instructions and a location is the index of one.  `live` is a history variable,
read by no guard: the base and return address of each call in progress, as they were when
it was made.  The properties compare memory with it.

Undefined behaviour (an access outside a block, popping an empty stack, returning from no
call, leaving the instructions, `Trap`) sends the machine to status "undefined", where it
stays: nothing is claimed about it.  Each way to get there is an action.

`StackMachine` is what the machine promises, without memory: an expression stack and a
stack of calls, each with its own variables.  `VmRefinement` reads the two blocks as that
state and states the refinement.

### SourceText

`source.c`: `ScanOne` and `ScanEnd` are the loop of `source_text_new`; `SearchBelow`,
`SearchAbove` and `Found` are the three ways an iteration of the binary search of
`source_text_position` ends, and `ReadOutside` is an iteration that reads past the table.
A text is its length and the set of its newline positions: nothing else of it matters.

### HashMap

`hash_map.h`: `Get`, `GetMut`, `Entry`, `EntryGet`, `Insert`, `EntryInsert`, `RemoveKey`,
`EntryRemove` and `Free` are the functions of the map; growth passes over the old buffer
(`CopySkip`, `CopyPlace`) and places the new entry last (`CopyEnd`), one action per slot
probed in the new one (`CopyProbe`: a loop without an end in the code).  The arrays `occupancies`, `keys` and `values` are
one function to slots.  The hash is any function in `Hashes`.  A handle is used only while
no other operation has changed the map, which is how its callers use it; the map itself
does not check that.  `Dictionary` is the finite map it promises to be.

### Emitter

`emitter.c` and the layout of `bytecode.c`.  A byteword is a number below `Base`, a word
`WordLen` of them; words follow padding.  The code pads a *length* when it writes and
aligns an *address* when it reads; the block comes from `malloc`, so the two agree.  One
operation stands for all those with the same shape: `nop` (no argument), `res` (an
immediate byteword), `sca` (an immediate word), `loc` (a symbol), `var` (an index), and
the system calls `hi` and `dbg` with and without an argument.  An index that does not fit
is cut to a byteword, as the code does (FIXME at bytecode.c:78), and read back cut.

`Emit...`, `NewSymbols` and `PlaceSymbol` are the calls of a user of the emitter, in any
order; `Finish` enters the loop of `emitter_finish`, one `PatchReference` for each
reference.  `RefuseReference` is the early return for a symbol without a place in the code,
after which the caller gives up (assembler.c:440).  `source` and `placed` are history
variables: the instructions that were asked for, and how many there were when a symbol was
placed.  The properties decode the block from its start, as the machine and the
disassembler would, and compare what they read with them.

### Assembler, Disassembler

`Assembler` adds to `Emitter` one action for each line of a text (`assembler.c`), which goes
through the emitter's own operations, and the steps before the first and after the last.  A
text is a sequence of lexemes (a run of letters, a run of digits, one other character), and
blanks are among them, since what the code accepts depends on where they are.  The map from
names to symbols is a function: the dictionary `HashMap` implements.  `WellFormed` and
`Instructions` are the reference: what the text says, without the code's order of steps.
`Reading` cuts the text in lines, with one blank for many; `InstructionsIn` is the set of
instructions a line spells, one or none, by comparing the line with the spellings of all of
them; `Instructions(lines)[k]` is what the first k lines spell.

`Disassembler` is a function of the code that was linked: `Ip[k]` is where its reader is
after k instructions, and `Turn` one turn of the loop of `disassemble`, which looks for one
label and then disassembles one instruction.  The reader it uses is that of `Emitter`'s
properties.

### Tokenizer, Tokens, Literals, Parser, Grammar, FrontEnd

`Tokenizer` is `tokenize_one` on the characters the code tells apart, one action per token;
`Parser` one operator for each function of `parser.c`, which yields the parser it leaves, how
it ended and what it wrote; a read past the last token ends it as "outside", where nothing is
claimed.  `ParseConstant`, the body of the loop of `parse_module2`, is an action.  `Literals` are
the integers and the floating-point numbers: a float is the decimal number that is going to be
rounded, with its digits and its power of ten, since the rounding is left out.

`Tokens` says what the tokens of a text should be, of the text alone: `Separate` is the rule of
the longest match, `IsSpelled` what each kind looks like.  It also has the tokenizer on its own
(`TokenizerSpec`), with a caller that takes the tokens over (`HandOver`) and changes none: every
step of `FrontEnd` is one of its steps or leaves its variables alone, since `Parse` writes only
`phase` of them and only when it is done.

`Grammar` is the reference: how a tree is written, with the fewest parentheses, and not
derived from the parser.  `FrontEnd` puts the two in a row, as
`tests/tests/common.c` does; `written` is a history variable, the trees the text was made from,
if it was made from any.

### Buf, Strings

`Buf` has the functions of `buf.c` on a block; `Strings` calls them, as the allocator's users, as
`array.h` does on its own three fields, and as `string.c` does on those of an array with one
more character.  A behaviour is about one block, used in one of the three ways.  `expected`
and `regions` are history variables: what each cell in use should hold, and the regions that
were handed out.  `ReadMore` is a turn of the loop of `read_file`, with what `fread` may do when
asked for a number of characters: read them all, come to the end, or fail after some.

`malloc_or_exit` and `realloc_or_exit` do not exit (see Findings): a block larger than `Memory`
is not allocated and its new capacity is recorded all the same.  The model stops there.

### Syntax, TypeRegistry, Bindings, Analyzer

The analyzer takes the tree the parser leaves (`Syntax`: types and bindings invalid,
functions numbered as `parser.c:840` does).  `RegisterConstant`, `TypeConstant` and
`AnalyzeConstant` are the bodies of the three loops of `analyze_module2`; the functions
they call are operators of the same names, which thread the tables and what was reported
through the tree in the order the code does.  A type id is an index, `TYPE_INVALID` is
-1; a binding id is the kind and the index the code packs in a word.

`TypeRegistry` has the code's own hash, modulo the eight slots of the map's first buffer
(we compared it with the compiled function), and the code's own equality, since what goes
wrong there depends on both.  It holds at most six function types, after which the map
would grow.  Probing is that of `HashMap`, where it is checked in detail.

Reading a table at an invalid id is undefined: `data.undefined` is set, the analyzer takes
no further step and nothing is claimed about what the program would do.

Left out, because the parser makes no such tree: arithmetic and negation, constants with an
explicit type, functions without an output type.  The two errors of a variable name that is
taken in its own scope cannot arise there either: a pattern has one variable and its scope
is new.

### Generator, Semantics, Compiler

`Generator` has one operator for each function of `generator.c`.  Its emitter is code and
the places of symbols, with locations that count instructions; `Emitter` is about bytewords.

`Semantics` is what both are measured by, written without looking at either: a typing
relation and an evaluator on the tree as it was written, where a name means what is
innermost and a function has no access to the variables of the functions around it.  Types
are names, there are no ids, scopes, symbols or stacks.

`Compiler` puts the analyzer, the generator and the machine of `Vm` in a row.  Nothing in the
library does that; the instructions in front of the module's code, which push the argument,
call the last constant and exit with its result, are those of `tests/tests/vm`.
`expected` is a history variable: what the evaluator yields for the call.

## Runs

Every passing run but `vm_programs` and `strings` also checks the `TypeOK` of its module.

| run | question | properties | result |
|---|---|---|---|
| `vm_small` | do calls, returns, reservations and variable accesses in any order keep the frames apart, and does the memory implement the stack machine? | `FramesChained`, `CallersUntouched`, `ReturnsToCaller`, `ImplementsStackMachine` | holds |
| `vm_programs` | do the programs of `tests/tests/vm` and a recursive sum ask the system for what they should, and end? | `ProgramsAnswer` | holds |
| `vm_frame_growth` | are the words `frames_alloc` returns in its block, when the block has to grow? | `ReservedIsBacked` | violated |
| `source_text` | is the table right, does the search keep its bounds, end, and answer right? | `SearchInvariant`, `LinesInOrder`, `PositionCorrect`, `FindsPosition` | holds |
| `source_text_end` | does the search stay in the table for *every* position up to the end of the text? | `ReadsInside` | violated |
| `hash_map` | is the map a dictionary, with every key findable, through growth and tombstones, by key and by handle? | `KeysAreFindable`, `AlwaysRoom`, `HandleIsGood`, `GrowthEnds`, `ImplementsDictionary` | holds |
| `assembler` | do readers find the instructions that were emitted, does linking go to the right places and fail exactly for dangling symbols; is a text accepted exactly if it is well formed, and is what is assembled, and disassembled, what it says? | `ReadsBack`, `LinksToTargets`, `FailsOnDangling`, `AcceptsWellFormed`, `AssemblesWhatIsWritten`, `DisassemblesInstructions` | holds |
| `front_end` | are the tokens the text, the trees what was written, the numbers exact; does an error end at its semicolon, inside the tokens, and lose nothing, or nothing that is not reported; do the loops end? | `TokensAreTheText`, `ReadsWhatIsWritten`, `RecoversAtSemicolon`, `StaysInside`, `NothingIsLost`, `NothingIsLostSilently`, `LiteralsAreExact`, `EndsUnlessStrange` | holds |
| `strings` | does a block hold what was put in it, as allocator, array and string; are regions apart; does `read_file` end with the right answer? | `HoldsWhatWasPut`, `RegionsApart`, `ReadsFile` | holds |
| `compiler` | does the analyzer accept exactly the well-typed modules, and does the generated code exit with the value the program has, with nothing left on either stack? | `AcceptsWellTyped`, `LeavesNothing`, `ComputesValue` | holds |
| `analyzer_errors` | does the analyzer stay inside its tables after an error? | `ErrorsAreContained` | violated |
| `function_types` | does each function type have one id? | `OneIdForEachFunctionType` | violated |

Bounds, and why they are enough:

- `vm_small`: words of 2 bits, so that every operation meets every pair of operands,
  overflows, wraps and the lowest signed number included; all programs of up to four
  instructions drawn from ten, so that `ret`, `set` and `res` come in every order, with
  variable indices inside, just past and far past the reserved ones; a value stack that
  starts with one word (it grows at 1 and at 2) and six words of frames, so that two calls
  with variables fit and a third does not.  `MaxStack` bounds the height of the value
  stack: no step is taken there.  The relations between frames are between neighbours, and
  three nested calls have every kind of neighbour.
- `vm_programs`: words of 6 bits hold the constants of the test programs and 14 words of
  frames let the sum recurse to a depth of four; a sum of more overflows the block and is
  undefined.
- `vm_frame_growth` keeps the real size of the block: eight words.
- `source_text`: all texts of up to six characters, hence up to seven lines, every
  placement of newlines (empty lines, first, last) and every position; the search halves
  tables of up to eight entries.
- `hash_map`: three keys, under hash functions that put them on one slot, that wrap around
  the end of the buffer, or that collide before the growth and not after; a first buffer
  of two slots instead of eight, so that three keys go through two growths; `MaxCapacity`
  eight slots and `MaxLen` five insertions counted.
- `assembler`: words of four bytewords as in the code, bytewords below six so that locations,
  arguments and the unset location need several; four instructions of every shape in every
  order, so that words follow every padding from none to three; two symbols, so that one
  can be placed before, after, at and without the references to the other.  Besides, some
  20000 texts: two and three lines of eleven forms in every order; every head of a line
  followed by up to four lexemes of an argument; numbers about the limits of a byteword and of
  half a word; and up to five lexemes of anything.  An error of the assembler is in one line,
  between two, or in a name that two share.
- `front_end`: some 15000 texts: characters in every order up to five, of numbers, of
  punctuation and of words; tokens in every order up to five, alone or before a constant that
  is well formed; trees two operators deep written out; numbers about the limits.  Words of six
  bits (`LiteralBits`), three digits of a mantissa (`MaxDigits`, nineteen in the code) and powers
  of ten from -4 to 4, so that every limit of the literals is passed by texts of a few
  characters.
- `strings`: four calls, enough for a region after a refused one after another, and for two
  growths; lengths that fit, fill and overflow the first block; elements of four bytes, whose
  capacity is rounded; files shorter and longer than the pieces they are read in, `ReadChunk` of
  three characters where the code has 64; `Memory` of 39 bytes, which the longest behaviours
  exceed.
- `compiler`: 3661 modules, 1081 of them well typed.  Two functions of three types where the
  body of one is any expression with one operator over five atoms (one unbound, one a
  function); 930 bodies of Booleans two operators deep, with conditionals in conditions,
  in alternatives and in arguments; and chosen modules for what these do not contain:
  functions in functions, hidden names, uses before definitions, recursion with and without
  an end, mutual recursion, functions of and to Unit, names that are taken or are no types.
  A fault of a scope, a symbol or the stack shows between two constructs that are next to
  each other or directly inside one another.  Words of two bits tell true from one; the
  first block of frames takes four calls inside one another, and a program that needs more
  is not judged (`TooDeep`).  The values a program may be called with are both Booleans and
  the words in `ArgumentWords`.

`AcceptsWellTyped` relies on the ids of function types, which `function_types` shows to be
wrong: it claims soundness where no function was given the id of another type, and
completeness where, besides, no type has two ids.

Fairness.  The program is one thread, so once one of its loops is entered its iterations
follow one another: weak fairness of the loop's own steps is what the code guarantees.
`Compiler` has it for linking and for running the machine: its liveness property starts
when the code is complete.  `SourceText` has it for both loops, `HashMap` for the copying of slots only (whether a
caller makes another call is its own choice), `Vm` for `Next` in `FairSpec`, as `vm_run`
is a loop around `run_one`, `FrontEnd` for the loop of the tokenizer (that of the parser is shown
to end by what each turn consumes), and `Strings` for the loop of `read_file`, where it is
written out because its steps are enabled exactly while a file is being read.  The safety
properties use none.

Deadlock is not checked: the machine stops when a program exits, a text's search ends, a map is
freed, a text is parsed or assembled, and the calls on a block are bounded.

## Proofs

TLAPS checks the following for all values of the constants; each theorem names in
`PROJECT.json` the property it proves, and the runs check the same property on a small
instance.

- **`Induction`**: the induction theorems of the library take an operator, which the provers
  installed cannot instantiate.  These take a *set*: to show that every number has a property, one
  takes the set of those that do.  They are proved from the fact that < is well-founded on the
  naturals.  With them, and with uniqueness of recursive definitions (`SameRecursion`), what is
  defined by recursion on a number (the digits of a word, the places of instructions) can be
  proved about.
- **`Vm_proofs`**: every operation, on words of any width, yields a word or traps
  (`BinaryYieldsWord`, `UnaryYieldsWord`).  The one assumption besides a width of at least one bit
  is what exponentiation is (`PowersOfTwo`), of which the provers know nothing; that every set of
  bit positions is that of some word (`BinaryRepresentation`) is proved by induction on the width.
  Then: type correctness; the chain of frames; no step writes below the current
  variables; every call returns to where it was made and gives its words back.  For all
  sets of programs, widths and block sizes (`VmAssumption`).  `TypeOK` and `FramesChained`
  are not inductive: `FramesChained` relates successive calls, while a write above one
  frame must be known to miss *all* frames below it.  The invariant therefore adds `Nested`, the
  order of the bases of any two calls, which saves an induction over the chain, and
  `VariablesAreWords`.  It comes in two halves, `ControlInv` (ip, value stack, output) and
  `FramesInv` (frames, live): the operations on the value stack keep the second because
  they leave it alone, and the others are a lemma each.  The key lemma is
  `BackedNeedsNoGrowth`: while the machine is defined its block has as many words as its
  capacity says, so a reservation that stays in it never reallocates.
- **`StackMachine_proofs`**: the machine implements `StackMachine`: every step on the two blocks is a
  step of the stack machine or leaves it as it is, and the machine is undefined only where the
  stack machine is.  It rests on the invariant above, which says that what the refinement reads
  as a call's variables is apart from every other call's, and on `BlockInv`: until something
  undefined happens the block of frames is the first one, so a call fits in the one exactly if
  it fits in the other.  There is one lemma for each shape of operation.
- **`SourceText_proofs`**: for texts of any length, the table lists exactly the lines
  scanned so far, the search keeps the invariant the code's comment claims, its answer is
  right, and for every position before the end of the text it reads inside the table: what
  `source_text_end` refutes for the end itself.  The inductive invariant adds to the
  properties that no newline lies between successive entries (`Table`).
- **`HashMap_proofs`**: for any keys, values, hash functions and number of growths, every key is
  found by its probe, in the map and in the buffer it is copied to; there always is a slot to
  end a probe; handles are good.  `KeysAreFindable` is inductive only together with the load: a
  slot without a key must be left for the next probe to end at, while `len` may exceed the number of
  keys but never fall below it (`Sound`).  While the map grows, the keys still to be copied are
  absent from the new buffer and there are enough slots for them and for the new key.
  The map implements `Dictionary`: to the invariant this adds `Copied`: the entries of the new
  buffer are those of the slots passed.  A value is that of the slot nearest to the key's home,
  which the invariant shows to be the only one with the key; so a step of the copy leaves the
  dictionary as it is, and its last one is the insertion.
- **`Strings_proofs`**: `RegionsStayApart`: the regions of a block are aligned, inside it and
  apart, for calls and sizes of any number, refused allocations and cuts included, while there is
  memory.  The invariant (`GoodBuf`) bounds size by capacity, and capacity by what was really
  allocated as long as it is no more than there is memory for; one lemma for each function of
  `buf.c`.  `NothingPutIsLost`: a block, used in any of its three ways, holds what was put in it,
  and a string its NUL.  The invariant says of an object that it either *holds* what is expected
  in a block as large as its fields say, or is *lost*: it has a capacity no memory was there for.
  Capacities of arrays are rounded to whole elements, so that the two can only be told apart where
  `Memory + 1` is a number of whole elements (`StringsAssumption`).
- **`Assembler_proofs`**: first the emitter, for bytewords, words, programs and symbols of any
  number and size that fit: `ReadsBack`, `LinksToTargets`, `FailsOnDangling` and
  `TypeOK`.  The properties decode the code from its start; the invariant (`Good`) says
  where things are instead.  It has two witnesses that are not in the state: the place of each
  instruction, and the instruction of each reference.  That the bytewords of a word give the word
  back (`ReadsWord`) is an induction over its width, and that a reader is where the instructions
  start (`ReaderIsAtStarts`) one over the instructions; between the two is the fact that a padded
  length and an aligned address are the same number.  `Fits` bounds the code by what a word can
  number, the last word excepted, which is `UNSET_LOCATION`: without that a location could be
  taken for none.
  Then the same promises for the assembler, which emits and makes symbols in
  one step and for texts of any length.  The emitter's bounds have to be earned here: every
  instruction emitted and every symbol made is paid for by a lexeme that was read (`Paid`), so a
  text that `Fits` has code that does.  `SymbolsKnown` says that the map from names has symbols of the
  emitter only.

  `DisassemblyIsRight`: the disassembly of finished code is what was emitted, with the labels that
  are not lost.  The reader is at the place of the k-th instruction after k turns; then the list
  of symbols is that of the references, and after k turns the labels that have been written are
  exactly those of the references, up to where they no longer ascend, that lie behind the reader
  (`Behind`).  What the disassembler computes by recursion is compared with what the property
  computes by recursion, turn by turn.

  `AssemblerAcceptsWellFormed` and `AssemblerAssemblesWhatIsWritten`: a text of any length is
  accepted, reported or refused as its lines say, and what is assembled without a report is what
  they say.  The code reads forward and never looks back at a line, while the reference
  takes whole lines, so the first half of the proof relates the two: `Seen(p)` is what the
  reference has of the line of place p, a line goes on from there (`LineGoesOn`) or ends there
  (`LineEnds`, `Ends`), and each function of `assembler.c` that reads an argument at p succeeds
  exactly if what is left of the line begins with such an argument (`NumbersRead`, `LocationsRead`,
  `ArgumentsRead`).  With one lemma for the mnemonics (`AssembleReads`) a turn on a line has four
  outcomes: refused silently, refused with a report, assembled as the line says,
  assembled although it says nothing.  The second half is the invariant `TextInv`: while nothing
  was reported, the instructions emitted are those of the lines that are done (`LinesAgree`) and
  the symbols placed are those of their labels (`LabelsAgree`, which also says that no two names
  have the same symbol).  That is not inductive as it stands: after `nop` in the line `nop nop`
  an instruction was emitted that the line does not say.  Such a place is not `Settled`, a bad line
  is known to be there although nothing has been reported, and since every later step either
  skips a blank or refuses, the assembler cannot get away from it.  That an undefined label is
  reported exactly if it should be rests on `FailsOnDangling` of the emitter (`WellFormedIs`).
- **`Tokens_proofs`**: for texts of any length over the characters of `Tokenizer`, the tokens of a text
  that is not refused are the text (`TokensAreTheText`); a text with a character of no class is
  never done, which is the negative half of `EndsUnlessStrange`; and in any other text every
  turn of the loop but the last reads at least one character.  That bounds the number of turns by
  the number of characters; that they are taken is fairness, and stays with TLC.  The
  invariant says that the text is cut up to where it has been read (`CutIn`), which fails at one
  place: after `1.` the number was pushed as a float without a fraction, and the point, which no
  digit follows, is still to be read.  No token begins with a point, so the next step reports an
  error: the text is `Doomed`.  A minus that becomes part of a number shows the other difficulty:
  what was said of a token must survive that a later step takes its neighbour away (`TakeBack`).
  `IntegerLiteralsAreExact` is about the functions of `Literals` alone: `parse_integer` yields the
  number that is written or sets its flag, exactly as `LiteralsAreExact` asks, for digits of
  any number and words of any size.  A magnitude that overflowed goes on as garbage, which may
  look as if it fitted; the flag is what the lemma `MagnitudeIsValue` is about.
  `FloatLiteralsAreExact` is its counterpart for `parse_float`, for mantissas of any size: floats
  with no more digits than are read and no extreme exponent.  What `FloatsAreExact` says beyond
  these limits stays with TLC.  The loop over the digits also stops at the last
  digit there is room for, and an exponent after that would be missed if anything stood between;
  a mantissa ends in a digit (`IsReal`), so that it stops exactly where the mantissa does
  (`MantissaIsRead`).

The proofs rest on the ASSUMEs of the modules, which TLC evaluates in every run: what the
constants are (`EmitterAssumption`, `AssemblerAssumption`, `HashMapAssumption` and so on), what
exponentiation is (`PowersOfTwo`, `PowersOfBase`, `LimitAssumption`, and with `WordAssumption`
that half the words are negative), and what lexemes are: a run of digits is no other lexeme and
one number only (`NumeralAssumption`), no lexeme is empty and two runs of letters never touch
(`TextAssumption`).

The theorems to read, by module:

| module | theorems |
|---|---|
| `SourceText_proofs` | `Invariant`, `TypeCorrect`, `SearchKeepsBounds`, `TableIsRight`, `AnswersAreRight`, `NeverOutside` |
| `Vm_proofs` | `BinaryYieldsWord`, `UnaryYieldsWord`, `Invariant`, `TypeCorrect`, `FramesStayChained`, `CallersStayUntouched`, `CallsReturn` |
| `StackMachine_proofs` | `MachineImplementsStackMachine` |
| `HashMap_proofs` | `Invariant`, `TypeCorrect`, `KeysStayFindable`, `ThereIsRoom`, `HandlesAreGood`, `CopyIsFaithful`, `HashMapImplementsDictionary` |
| `Strings_proofs` | `RegionsStayApart`, `NothingPutIsLost` |
| `Assembler_proofs` | `TypeCorrect`, `WhatIsWrittenIsRead`, `LinkingIsRight`, `LinkingFailsRightly`, `AssemblerKeepsPromises`, `DisassemblyIsRight`, `AssemblerAcceptsWellFormed`, `AssemblerAssemblesWhatIsWritten` |
| `Tokens_proofs` | `TokenizerTypeCorrect`, `TokensAreCut`, `StrangeTextsNeverEnd`, `TurnsAdvance`, `IntegerLiteralsAreExact`, `FloatLiteralsAreExact` |

Only model-checked:

- the liveness properties, which are out of the prover's reach;
- the answers of whole programs (`ProgramsAnswer`, `ComputesValue`) and what the compiler accepts;
- the parser and the compiler, whose modules have RECURSIVE operators over trees, which the
  prover does not take.  Of the properties of `FrontEnd`, `TokenizerTypeCorrect` proves the
  tokenizer's part of `TypeOK`, and `IntegerLiteralsAreExact` and `FloatLiteralsAreExact` what
  `LiteralsAreExact` says of `parse_integer` and, inside its limits, of `parse_float`; that the parser hands them the
  text of the token and keeps their answer is what the run adds;
- in `Strings`, the answers of `read_file`, which are a liveness property.

## Findings

1. `frames_alloc` (vm.c:68) reallocates the frames with the *old* capacity and then records
   the new one.  A program whose calls need more than 64 bytes writes outside its block
   (run `vm_frame_growth`; three nested calls with a variable suffice).
2. The search of `source_text_position` reads past the table for the end of the text
   (source.c:37), although a comment says its invariant holds for any index;
   `src/tests/tests/common.c:58` asks for such positions (run `source_text_end`).
3. After a name does not resolve, `analyze_expression2` reads the type of an invalid binding
   (analyzer.c:438), outside the table; so do a mismatch with an expression whose type is
   invalid (analyzer.c:64), an unknown type name (type.c:55) and, writing, a constant defined
   twice (analyzer.c:253).  result.h:9 says that errors are contained.  The debug build stops
   at each of them (run `analyzer_errors`).
4. The equality of function types compares each type with itself (type.c:9).  Types with
   different input and output are never found again and get a new id each time, so two
   functions of type Bool -> UInt cannot be the alternatives of a conditional; types with
   equal input and output are all equal to each other, so one can be given the id of
   another that hashes near it (run `function_types`).

Others are part of what a passing run says of the code, or were met on the way:

- `equ` and its siblings push all ones for true (vm.c:267), the documentation says 1
  (bytecode.h:82).  The generator and `not` rely on all ones: the documentation is wrong.
- `hash_map_entry_insert` counts an overwritten entry again (hash_map.h:329), so `len` drifts
  from the number of entries.  It is harmless to lookups: the map grows early (`AlwaysRoom`).
- A character of no class makes the tokenizer loop without an end (tokenizer.c:185;
  `EndsUnlessStrange`).  Keywords are recognised by a prefix, so a name that is one, as `e` or
  `f` in the examples of the repository's README, is `elif` or `fn` (tokenizer.c:70;
  `TokensAreTheText`).
- The parser reads past its tokens where they end without a semicolon or inside a parenthesis:
  in recovery (parser.c:182), at an unclosed parenthesis (parser.c:44), and at the arrow or the
  `else` of a conditional (parser.c:510-520), even of a whole expression that ends in a
  conditional without `else` (`StaysInside`).
- The result of the inner expression of a parenthesis is ignored (parser.c:773), and an expression
  that cannot begin is an error nobody reports (parser.c:834, a FIXME), no more than an arrow that
  a conditional lacks (parser.c:510, 520).  `NothingIsLostSilently` says that nothing else is lost
  without a report.
- The exponent of a float takes part in its limits unevenly (parser.c:418-455): a number with more
  digits than are read is cut after them, and is not what is written if the point or an exponent
  comes after them; one with an extreme exponent is zero, also where it should be infinite
  (`FloatsAreExact` says where a float is right).
- `ConstantDef.range` mixes a position in the text with one in the tokens (parser.c:211),
  `signature_end` may be read uninitialised (parser.c:483) and `parse_conditional` does not set
  its range: ranges are left out of the model.
- An unknown mnemonic is reported, and then something is emitted for it (assembler.c:380); a line
  that starts with neither a letter nor a colon is an error without a report, at a case marked
  unreachable (assembler.c:402).  `AcceptsWellFormed` says of both lines exactly that.
- The disassembler exits at every system call, whose case falls through (disassembler.c:121), and
  loses all labels after the first reference that does not go further than the one before it
  (disassembler.c:143).  `DisassemblesInstructions` says which labels are left.
- `malloc_or_exit` and `realloc_or_exit` log and return (alloc.c:16-35, errno.c:10): with no memory
  left, a block is used under a capacity it does not have (buf.c:27).
- `read_file` does not clear errno, and returns that of an earlier call for an empty file if its
  string needs no memory (string.c:108; `ReadsFile`).

## Not modelled

- Printing, the wording and the places of diagnostics, and ranges of text in the tree: no
  decision of the code depends on them.
- `vm_free`, `source_text_free`, `string_buf_free` and the other destructors: nothing is used after
  them.
- The values of floating-point operations, and the rounding of a decimal number to a float
  (`build_positive_f64`): the model would be a copy of the arithmetic.
- Arithmetic, negation, explicit types of constants and missing output types in the analyzer and the
  generator: the parser makes no such tree, so their code is not reached from a text.
- Handles used after another operation changed their map, which no caller does.
- Sizes that overflow a machine word: no text or program in memory gets there.
- `main` of the application, which is empty, and `lib/parser/*.py`, which makes a table for floats.

## What could come next

The rounding of floats against exact arithmetic; operators over trees as functions on their size, so that the parser and
the analyzer can be proved about.
