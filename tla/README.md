# Verification of cpq

`cpq` compiles CPL (`.ou`) to Quad code (`.qud`): `src/src` holds the compiler
in C, `src/quad_runner.py` an interpreter for its output.  This directory holds
TLA+ models of the compiler, the runs that check them with TLC, and theorems
about them that TLAPS checks.

## The system

    cpq.c main ── compile_file ─┬─ parser_parse (parser.y, lexer.l)   → AST
                                ├─ semantic_check_program             → symbol table
                                └─ quad_generate ─┬─ quad_first_stage → temporary file
                                                  └─ quad_finalize    → final file

The program is sequential: one call ends before the next begins.  What makes it
hard is recursion with shared mutable context, files and allocations that may
fail at any point, fixed buffers, and agreement between parts that compute the
same thing separately.

| Component | State | Operations | Hard behaviour | Correct when |
|---|---|---|---|---|
| First stage (`quad.c`, `quad_utils.c`) | `QuadContext`: counters of labels and temporaries, `break_labels`, error flag, the temporary file; the C stack | `quad_emit_statement`, `_stmt_list`, `_expr`, helpers | labels are used long before they are defined; pointers into activations; unwinding after an error | every jump is resolved, labels are unique, a break leaves the innermost loop or switch, operands have their types |
| Second stage (`quad_finalize`, `labels_grow`) | the table of labels, line counter, position in the file | two passes over the file | growth at the limit, off-by-one, long lines, calls that fail | the final file is the temporary one with labels replaced, success means complete |
| Symbol table (`symbols.c`) | buckets of chained entries | new, find, insert, free | collisions, failing allocations | it is a map, it owns its memory |
| Semantic check (`semantics.c`) | error count, the table until it is handed on | `check_*`, `semantic_check_program` | hand-over or free | what is handed on is complete |
| AST (`ast.c`) | nodes, lists with tail pointers | constructors, append, free | ownership when an allocation fails or an error is recovered from | no node is lost, used after it was freed or freed twice |
| Parser (`parser.y`) | the stack, the token, the tree, error counts | productions, recovery, destructors, `parser_parse` | what is on the stack when an error or a failure comes; default reductions before it | the tree is the file, or there is none; it returns |
| Lexer (`lexer.l`) | start condition, line, column, preview, error count | one rule per match | comments, positions that are updated separately, one token ahead | positions and preview match the input |
| Driver (`cpq.c`, `compiler.c`, `quad_generate`) | open files, files on disk | open, compile, close, remove | each step may fail | a failed run leaves no output, no run leaves a temporary file |
| Interpreter (`quad_runner.py`) | program counter, variables, input | one per instruction | types are only checked at run time | compiled code does what the source says |
| Debug printer (`debug.c`) | none | `debug_print_ast` | - | different trees print differently |
| Logging (`log.h`) | none | - | - | - |

## Modules

| Module | Models | Extends |
|---|---|---|
| `Ast` | nodes of `ast.h`, constructors of `ast.c`, shapes of the grammar | |
| `Semantics` | `semantics.c` as operators on a tree | `Ast` |
| `QuadEmit` | the first stage | `Ast` |
| `Typing` | what the semantic check establishes of types, stated node by node | `QuadEmit` |
| `QuadEmitProofs` | theorems: types, labels, jumps, BREAK | `QuadEmit` |
| `QuadEmitOperandProofs` | theorems: temporaries, operands | `QuadEmitProofs`, `Typing` |
| `Numbers` | the numbers of Quad code | |
| `QuadRunner` | `quad_runner.py` | `Numbers` |
| `Meaning` | what a program means: an evaluator of trees | `Ast`, `Numbers` |
| `SymbolMap` | what a symbol table promises | |
| `Symbols` | `symbols.c` and its use by `semantic_check_program` | refines `SymbolMap` |
| `SymbolsProofs` | its theorems | `Symbols` |
| `Assembly` | what resolving labels promises | |
| `QuadFinalize` | the second stage | refines `Assembly` |
| `QuadFinalizeProofs` | its theorems | `QuadFinalize` |
| `Generate` | `quad_generate`: both stages, in sequence | `QuadEmit`; instance of `QuadFinalize` |
| `Execution` | that, and the interpreter on the file it leaves | `Generate`; instance of `QuadRunner` |
| `GenerateProofs` | theorems about both stages, and about the run | `Execution`, `QuadEmitOperandProofs`; instance of `QuadFinalizeProofs` |
| `Pipeline` | what runs, compared with what it means | `Execution`; instance of `Meaning` |
| `Compilation` | what a run of `cpq` promises | |
| `Cpq` | `cpq.c`, `compiler.c`, `quad_generate` and the disk | refines `Compilation` |
| `CpqProofs` | its theorems | `Cpq` |
| `Grammar` | the productions of `parser.y` and the automaton of Bison | |
| `Lexer` | `lexer.l`, `lexer.h` | |
| `AstHeap` | the nodes of `ast.c` in memory | |
| `Parser` | `parser.y` with Bison's parser, `parser_parse` | `Lexer`, `AstHeap` |
| `ParserProofs` | theorems: the scanner, errors | `Parser` |
| `ParserMemoryProofs` | theorems: the memory of the parser | `ParserProofs` |
| `Source` | how a tree is written, and read from memory | `Ast`, `AstHeap` |
| `Debug` | `debug.c` | `Ast` |
| `Reading` | what was parsed, compared with what was written | `Parser`, `Source`, `Debug` |
| `MC...` | instances for TLC | the module of that name |

A definition below a comment that begins with "Faulty" is a variant of the next
one with a plausible bug.  No module uses it.  It is there to try whether a
property notices: put in the place of the definition after it, it must make the
run report the property that `PROJECT.json` names with it.

### QuadEmit

`stack` is the C call stack.  A frame is an activation of
`quad_emit_statement`, `quad_emit_stmt_list` or `quad_emit_expr`; `pc` says
which of its calls it waits for, the other fields are its local variables.  One
action runs from a call or return to the next one, so that `IfCondition`,
`IfThen`, `IfElse` and `IfEnd` together are `case AST_STMT_IF`.  `ctx` is the
`QuadContext`; helpers (`quad_to_float`, `quad_emit_binary`, ...) are operators
from context to context with the name they have in C.  `quad_emitf` fails when
the file has taken `capacity` lines, and does nothing once `error` is set, as in
C: expressions and the tails of statements go on running.

- A label is the number after `L`, a temporary the number after `_t`.
- `break_labels` holds `char *` into the `l_end` of an activation: here, the
  index of its frame.  A dangling pointer is thus an index that is not the frame
  of a running WHILE or SWITCH.
- `QuadValue.place` has 64 characters.  `Prefix63` is what `snprintf` leaves of
  a text; in `pipeline` it is the identity, in `emit_long_text` it is not.
- Programs come from the grammar (`StatementOver` and the constructors) and are
  those for which `check_statement` counts no error, as in `compile_file`.

### Generate, Execution, QuadRunner, Pipeline, Meaning

`Generate` composes the two stages.  `First` and `Finalize` are a step of each;
`Second` is the call in `quad_generate` between them: it turns what the first has
written into what `fgets` reads of it (`AsRead`).  A line of 100 characters or more,
the newline included, comes in pieces, of which only the first is an instruction
(`Pieces`); how long a line is follows from the format strings of `quad.c` and from
the `Width` of the texts in it (`Length`).  `LinesFit` says that no line is longer.
Only then does the second stage work on the lines of the first, so that what is said
of both together (`JumpsStayInCode`, `CodeNeverAtFault`) has it as a condition;
`RunsAsWritten` is claimed whenever no long line is above a label
(`LabelsCountedRight`), because long lines elsewhere do no harm unless they are glued.

`Execution` adds the interpreter: `Compile` is a step of `Generate`, `Execute` one of
the interpreter, which is run on a file only if that was reported as a success, and
`Start` is what it will be given to read, which matters once the file is loaded.
`Source` is that file line by line: the pieces of a line are one line
again, and where the second stage skipped a newline, two instructions are one line
that the interpreter refuses (`Joined`).  What the two agree on is
`SpellingAssumption`: the literals of `lexer.l` are numbers of their type to
`quad_runner.py`, and its identifiers are none.  That they are variables to it is
not assumed, because it is not so.

`QuadRunner` executes one instruction per step, of the `code` that was loaded;
`Raises` collects the conditions under which Python raises an exception, whichever
it is.  Variables get their type from their first value, and a number that is read
as an int in the input may be read as a float.  Integers have no bounds in Python.
Floats are fractions, so that rounding is not modelled (the numbers of the runs are
exact in both), with the infinities and nan, which an input may be: `int()` raises
for them (`quad_runner.py:344`).  `MAX_FLOAT` is the largest float: the result of an
operation beyond it is an infinity, and `float()` of an int beyond it raises
(`quad_runner.py:336`).  `MAX_TEXT` is the largest int that Python converts from or
to a text: a longer one is invalid input, and `print` raises for it.

`Meaning` is what the result is compared with.  It knows nothing of labels,
temporaries and jumps.  It gives two readings of a switch: the one of the comment
at `quad_utils.c:314` (`fall_through`), and that of the code, in which every case
is compared with the subject; a subject that is an int variable is looked up
again for each of them, because `quad_to_int` does not copy it.  `RunsAsWritten`
uses the second.  A number that is out of range ends the run in it, too.  Programs
that repeat a loop more than `FUEL` times under one of the inputs are left out.

### Lexer

A step is one match of a rule.  The input is a sequence of pieces, each the text
that one rule matches, with the name of the rule and its width; how regular
expressions match characters is left to flex.  A line of the preview is a sequence
of piece numbers, one per character, so that it can be compared with the file.
`Match` is `YY_USER_ACTION` and what flex does with `yylineno`; the rest of an
action is the rule.  `lexer_dup_text` may return NULL: the scanner then returns
the end of the file in the middle of it.

### Grammar, AstHeap, Parser

`Production` is `parser.y` rule by rule; a semantic action is one of nine kinds
(make a node of some `$k`, append, pass on, recover ...).  `Automaton` computes
from it what Bison puts into its tables: a state is the kernel of a set of items;
it shifts what it can and reduces its only complete production otherwise.  That
no state has two complete productions, and that all states were found, is an
assumption that TLC evaluates.  Both conflicts (`else`, and the token `error`
after `{`, which `%expect 1` announces) are between a shift and a reduction, and
Bison shifts.  One consequence: the production `{ error }` of a block is never
reduced, since after `{ error` the parser always shifts into `error ;` of a
statement; this is the behaviour of the tables, and the model has it.

`Parser` runs that automaton.  Its actions are the labels of Bison's `yyparse`:
shift, reduce (one action for each kind of semantic action), `yyerrlab`
(`SyntaxError`, `Discard`), `yyerrlab1` (`Pop`, `ShiftError`), `yyreturn`
(`Clean`); then `Return` is the end of `parser_parse`.  `heap` is all memory that
was ever allocated, `freed` the addresses that were freed, each as often as it was;
`FreeBlock` frees one block and goes on with what it points to, as `free_ast_...` do
(which free a node after its parts: nothing else happens in between).  Values on the
stack are addresses, and have a destructor if their symbol has one in `parser.y`.
With `MayFail` any allocation may return NULL: the constructor frees what it was
given and `YYABORT` destroys the rest of the stack.

`Parser` itself knows the tables as a constant.  `TablesAssumption` is what the
tables of every grammar have in common: a state is a set of items, each of which
is continued below it on the stack or begun there, and the end follows only the
start symbol (`Goal`), which only the action of `program` produces.
`TokenAssumption` says that the scanner returns no such symbol, and that it copies
the text of exactly the tokens that have a destructor.  `ActionAssumption` is about
this grammar: every pointer that a production matches goes into the node, the list or
the destructor that its action is about, or is passed on, and none goes there twice
(`UsesEachOnce`); what is appended to is a list; the whole program is behind the start
only, where no error is caught.  TLC evaluates all three for `Automaton` in `parse`.

`Source` says how a tree is written, by its levels and parentheses and by
`TakesElse`, without the automaton; `Read` follows the pointers in memory.  The
properties in `Reading` compare the two with what the parser did.

`Debug` prints a tree as lines with a depth, a label and a text.

### Symbols

The program is reduced to its declarations and the names its body uses.
`buckets` maps an index to its chain, the entry inserted last in front.
`symtable_hash` is a constant, any function: FNV-1a is one of them.  `heap`
counts blocks: two for the table, two for each entry (entry and name).  An
allocation may fail if `Failures` says so; a failed insertion frees what it
took and counts an error.

### QuadFinalize

A file is a sequence of what `fgets` returns: lines, or pieces of 99 characters
of longer lines (`ends` is FALSE).  `pos` is the position of the stream, `pass`
the loop that runs.  `Fault` names what may go wrong: `calloc`, `realloc`, a
write (`print`), a read.  Both ways to the label `fail` return 0, as in C.

Pass 1 counts pieces, and the labels below a longer line are wrong.  So
`FinalIsPrefix`, which is claimed of every file, says of the final one only that it
has the pieces of the temporary one in their order, and of a jump that it is right
if no line above its label is longer.  `JumpsLandOnTheirLabel` says it of every jump,
as the comments of `quad.c` do, and fails with longer lines.

### Cpq

Runs of `cpq` on one input follow each other; between two of them the input may
be edited, and a run may be killed between any two of its calls.  `pc` is the
next call of `main`, `compile_file` or `quad_generate`; what those call that has
no effect on files is summed up in the `Verdict` of a source (the stage that
refuses it) and its `Length` (lines of code it becomes).

- `disk` holds the input, the output and the `.qud.tmp`.  A file is a number of
  lines of a source, so that leftovers of another version can be told apart.
- `buf` counts printed lines that are still in the buffer of a stream.  A print
  may write the buffer out; `fclose` and `rewind` do.
- `ptr` are the pointers that are not NULL, `held` counts how often what they
  point to was acquired and not released.  The two differ where the code closes
  or frees without setting a pointer to NULL.
- `Fault` names the calls that may fail.  The code looks at the result of
  `fopen`, of allocations, of prints to the temporary file and of the last
  `fclose`, and makes an error of it; nothing helps against `kill`.  It does not
  notice a `rewind` that cannot write the buffer out, turns a failed print to the
  output into success, ignores the result of `remove`, and does not return when
  the generated scanner gives up.
- `last` is what the disk held before the run, for the properties.

`Compilation` has no files in between: a run is one step, from an input to a
whole output and exit code 0, or to exit code 1 without an output of its own, or
it is killed and leaves a part.  A run that fails may remove the output of an
earlier run, also when it could not open it for writing (`cpq.c:69` and `:93`).

## Runs

| Run | Question | Bounds | Result |
|---|---|---|---|
| `parse` | is what is handed on what was written, with every error at its place, every block freed once and none forgotten? | 141 programs with every production, both with the fewest and with all parentheses; one program of 53 tokens with each token dropped, replaced by one of 8 others or followed by a comment, on one line and on many; the file of `tests/test_parser_errors.ou`; a preview of 15 characters; any allocation fails | holds |
| `pipeline` | does compiled code do what the source says, and if not, was it reported, or is an exception that is only due to the values? | statements nested to depth 3; every operator over leaves and casts of both types; names of 46 to 60 characters, with lines that do not fit above and below labels; temporary file of 0 to 14 lines or without limit, `MAX_BREAK_DEPTH` 2, failing `realloc`, prints and reads; four inputs, with a line that is no number, infinity, nan and ints that are too large | holds |
| `switch_fall_through` | do cases fall through? | as `pipeline`, without faults | violated |
| `emit_long_text` | are identifiers and literals written as they are? | an identifier and a number longer than the buffer, and their prefixes | violated |
| `symbols` | is the table a map, and does it own its memory? | three names in two buckets, three declarations, two uses, any allocation fails | holds |
| `finalize` | is the second stage an assembler? | all files of up to 5 lines and HALT over up to 3 labels, table of 1 entry that doubles twice | holds |
| `finalize_faults` | is what was written the beginning of what was read, with right jumps where no long line is above the label, whatever fails? | files of up to 4 lines, or 4 long ones, all faults | holds |
| `finalize_print` | does success mean that all was written? | as above, with writes that fail | violated |
| `finalize_long_lines` | do jumps land below their label with long lines? | up to 4 lines, of 100 characters or more at any place | violated |
| `cpq` | does a run keep its promise? | two good inputs of 1 and 2 lines, one refused by each stage, detected faults, kills, any number of runs | holds |
| `cpq_faults` | is everything released once, and every output its own? | two good inputs, all faults | holds |
| `cpq_lost_flush` | does success mean that the output is complete? | as `cpq`, `rewind` fails | violated |

Why the bounds are enough.  A statement interacts with its parent (which labels
it took), its sibling (the counter) and the innermost breakable ancestor, and
depth 3 has all of these, with every kind inside every kind.  Faults strike at
the beginning, in the middle of each kind of statement and in its tail, because the
capacities are spread over the lengths of the programs.  Depth 2 of `break_labels`
overflows with three loops: overflowing 128 with 129 differs in nothing but the
number.  Two buckets for three names give an empty bucket, a single entry and a collision.  A table that starts with one entry
grows by doubling at its second and its third label, both at its limit; 10
entries would need files of eleven labels.  Two inputs of different length are
what it takes to see lines of an old output behind a new one, and two lines to
have one on the disk and one in the buffer.  An assignment between names of 60 and 47
characters is longer than the buffer, between 47 and 46 its newline alone does not
fit; `MAX_FLOAT` 50 and `MAX_TEXT` 200 are between the numbers of the inputs, so that
these are too large for nothing, for a float, or for an int.  The theorems below
remove the bounds for the properties they state.

A syntax error is a token in a place where the automaton has no move; dropping and
replacing each token of a program that has every construct with an error
production, and its neighbours, gets the recovery into each of them, with all that
can be on the stack then, and lets some errors be followed by a second.  Expressions
of two operators, each pair of them with each on either side, are enough to see how
tightly they bind.  A preview of 15 characters ends within tokens of most lines.

Deadlock is checked in every run: what has ended stutters, and nothing else stops.

Fairness is weak fairness of `Step`: the program is one thread and nothing in it
waits, so that it takes its next step if it has one.  `EverythingEnds` is checked in
`pipeline`, `Ends` in `parse`, `Termination` in `finalize` and
`cpq_faults`.  Edits, new runs and kills are not fair: the user need not run anything.

### Disagreements between code and comments

1. `emit_long_text`: `quad.c:142` cuts identifiers and literals at 63
   characters, the comments say that they are written as they are.  An
   assignment then reads another variable than the one that was assigned.
2. `finalize_print`: `quad.c:366` returns 0 from the failure exit, so that a
   truncated program is reported as success (`compiler.h:10`).
3. `finalize_long_lines`: `quad.c:273` reads pieces of 99 characters, pass 1
   counts each as an instruction.  An `IASN` of two names of 50 characters is
   enough to shift the labels behind it.
4. `cpq_lost_flush`: `quad.c:272` rewinds the temporary file without a check
   that its buffer could be written out (`rewind` returns nothing and clears the
   error).  On a full disk the second stage reads a part, or nothing, of the
   code, and `cpq.c:84` reports success.
5. `switch_fall_through`: `quad_utils.c:345` tests every case, also behind one that
   matched, and jumps over those that do not match.  The comment at
   `quad_utils.c:314` wants all cases until a break.

Four more that no run is made for.  The line that is shown for a comment which never
ends is the last one of the file, with the mark at the column of the comment
(`lexer.l:174`; `README.md:15` promises the line of the error): `LocatedRight`
claims the line and the column of such a message, not what is shown.  When memory
runs out in `idlist` (`parser.y:108`) the list in `$1` is lost, which the
destructors are there to prevent (`parser.y:53`): `OwnedOnce` holds because it
counts that list, `lost`, as one that has an owner, and `NothingForgotten` makes an
exception for it.  An identifier with a capital
passes the scanner, and the interpreter refuses the file.  Of a line of 99 characters
the newline is a piece of its own, in which `sscanf` finds no word, and `continue`
(`quad.c:306`) skips it: the next instruction follows on the same line, against "keep
other code as is" (`quad.c:356`), and again the interpreter refuses the file.  The
runs of `pipeline` reach both; `RefusedForAReason` says that these are the only reasons.

Not in the list, because the code is that of flex: a generated scanner calls
`exit` when it cannot read, for instance when the input is a directory, and the
output that was created before (`cpq.c:68`) stays, empty.

## Proofs

The constants are arbitrary: any set of programs, trees, hash function, number
of buckets, capacity of the file, depth of `break_labels`, any files.

**First stage.**  `JumpsResolved` is not inductive: in the middle of the walk
jumps name labels that are not defined yet.  `LabelInv` says who will define
them: an activation *owes* the labels it took and has not defined (`Owed`, by
kind and `pc`), no label is owed twice or after it was defined (`OwedOnce`), and
every jump is resolved or owed (`JumpsOwed`).  A BREAK jumps to the `l_end` of
the frame that `break_labels` names, and that frame owes it; this needs
`NoDanglingBreakLabel`, which is therefore part of the invariant.  When the
stack is empty nothing is owed, and all jumps are resolved.  `QuadEmitProofs`
has one lemma for each helper (a helper that writes computations defines and
uses no label), one for a call, a return and a step within a frame, and one per
action.

`BreakStackMirrorsNesting` says that `break_labels` lists the breakable
activations in their order, and is inductive by itself: an action either leaves
both alone, or pushes or pops at the same place (`MirrorKept`, `MirrorPush`,
`MirrorPop`).  `BreakLeavesInnermost` is an action property: it follows from the
invariant in the state in which the BREAK is emitted.

`TempsComputedOnce` and `OperandsTyped` share an invariant, `InFlight`, in two
strengths.  Of every program: each temporary in the file has a number that was
handed out, is written by one line and read only below it (`Sound`); a value that
an activation keeps while it waits (`KeepsValue`), or that the one on top has just
been given (`Yields`), is computed already.  One that is handed out and not yet
written is `Fresh`.  Every helper `Grows` the file: it keeps what is known and
writes only temporaries taken since, so that these facts are proved once per
helper and composed.  Of a program that passed the check, with `typed`: every
value also has the type of its tree, every line the types of its opcode, and the
statements in flight are checked ones (`FrameChecked`).  What "passed the check"
means is a hypothesis of that theorem, `WellTyped`: there is a type for every
node that obeys the rules of `semantics.c` one level at a time.  The operators of
`Semantics` compute that type recursively; that `WellTyped` holds wherever they
count no error is the assumption `CheckedIsTyped` that TLC evaluates on all
programs of `pipeline` (`MCPipeline`), with `TextsFit`, which says that no text
is cut.

**Symbol table.**  `LinkedFinds` says what linking an entry does to a search
for its own name and for every other; `WellHashed`, the refinement of
`SymbolMap` and `SeenRegistered` (while there is no error, the declarations so
far are in the table) follow from it.  `NothingLeaks` counts entries, with the
cardinality theorems of the library.

**Second stage.**  `IInv` says that each entry of the table holds the number of
instructions above its definition plus one, that pass 1 has noted all
definitions above its position unless a read failed, and that the final file
holds the pieces above a position, but for label lines and lone newlines
(`CopiedInOrder`).  It gives `FinalIsPrefix` under every fault, where a jump is right
because pieces and instructions are counted alike as long as lines end, and the
refinement of `Assembly` when only memory may run out and every label is defined.  `Room` says that the capacity of the table is not 0 once there
is one, so that doubling it makes room, and that the entries fit in it;
`LabelsWithinCap` and `TypeOK` need it.  `JumpsLandOnTheirLabel` is false for long
lines (`finalize_long_lines`), and proved for files in which every line ends.

**Both stages.**  What is proved of `QuadFinalize` assumes of its files that no
label is defined twice (`FileAssumption`) and, for the refinement, that every jump
has its label.  `GenerateProofs` shows both of the files of the first stage and
then uses the proofs of each: its invariant `GInv` is `LabelInv`, and, if `LinesFit`,
the `IInv` of the second stage on the file that the first has left (`Handed`), and
that this file ends with HALT and SIGNATURE (`Closed`).  From it follows
`JumpsStayInCode`: the target of a jump is one more than the number of instructions
above its label, and HALT is below every label.  When nothing but memory runs out, a
success means a whole file (`GeneratedWhole`): the step of the refinement of
`Assembly` (`StepsImplement`) is proved of any file in which every jump has its label.

`LinesFit` is a condition of all theorems about both stages.  `ShortTextsFit` says
which programs surely meet it: those whose names and literals have at most 30
characters, since a line has three operands and no number has more than ten digits.
Nothing is claimed of programs with longer lines, because the code does jump to
wrong places in them (item 3 above), and may glue two of them together.

**The run.**  Two properties join the interpreter to what is proved of the code it is
given.  `RefusedForAReason`: it refuses a file that holds a HALT only when it cannot
spell a variable of the program (the run also shows it with glued lines; the theorem
has `LinesFit`).  `CodeNeverAtFault`: what it raises, while it runs, is never for an
opcode, a type, a place that cannot be written to or a jump out of the code; it is for
values, those that are missing (a variable without one, the end of the input) or that
Python cannot compute with (a division by zero, numbers out of range).  This is the
soundness of the types of the semantic check, through both files, to the values of the
interpreter; like `OperandsTyped` it is claimed of programs that are `WellTyped` with
`TextsFit`, whose lines fit, and it assumes of the two languages only
`SpellingAssumption`.

Their invariant is `EInv`.  With lines that fit, the interpreter reads the final file
as it is (`SourceIsFinal`).  `Emitted` is what is known of the code: `GInv` of both
stages, `TypedInFlight` of the first (every temporary is written once and above
where it is read, every operand has the type of its opcode), and that HALT is written
once (`HaltsOnce`).  A file that the second stage reports as a success may lack its
end, when a read failed; one that holds a HALT is the whole code with the signature
behind it (`EndIsLast`), so that `pc` stays within `1 .. LastLine` (`Runs`): HALT does
not go on, and a jump lands on one of these lines.  Each line of the code is a line
of the first stage with the same operands (`CodeLine`).  Both stages and the
interpreter list the opcodes on their own; that the lists agree, in the type of each
operand and of the result, is `StoringOps`, `OtherOps` and `JumpOps`.  `NamesTyped`
says that a variable with a value has the one type that all lines give it, a
temporary by the line that writes it and a name of the source by the symbol table
(`KnownOnce`).  With that, what an instruction reads has its type (`OperandRead`),
what it stores has the type of its target (`StoresItsType`, `TargetWritten`), so that
nothing in the instruction is to blame (`Blameless`) at any step (`NeverAtFault`).

**Driver.**  `OwnInv` gives the set of pointers at each label: with it every
stream and block is released once, whatever fails.  `Files` says which files are
this run's at each label and how much of them is written, `Buffers` that what is
in a buffer belongs to its file; they give `TypeOK` and `OutputIsOfInput` for
all faults.  `Complete` (the program was accepted, the whole temporary file was
read back, all was written) and `Temporary` (whose the temporary file is) need
that every fault is noticed (`Noticed`); from them follow `SuccessMeansComplete`,
`TmpAsAsked` and that `Cpq` implements `Compilation`.  The refinement mapping
shows the output and the exit code of before until the run is over.

**Scanner and parser.**  Of the scanner, `Scanned` says that the counters are
those that one gets from the file alone (`Place`: `LineOf`, `ColumnOf`), that
each character of the preview belongs to the piece of the file that covers its
column (`Preview`), and that a token which waits is where `token_col` says and on
the line that is shown (`Token`); an open comment keeps its own place
(`CommentStart`).  Every rule but the ones for the end is an `Advance` over one
piece, so that the arithmetic is done once: `ColumnOfNext` and `LineOfNext` for
the file, `AdvancePlace` and `AdvancePreview` for the scanner.  The message of
`yyerror` is right because no newline comes between a token and its report
(`ReportScanned`).

Of the parser, `Working` says that the stack is a path through the automaton
(`Path`) and that above its bottom `Goal` only occurs when `parsed_program` is
set.  That a path is kept needs `HandleOnStack`: what is reduced is on the stack,
with an element below it from which the left side can be shifted.  Its proof
follows an item down the stack (`ItemBelow`), as `TablesAssumption` says of one
step.  `GoalOnTop` then gives that whoever shifts the end has a program, and
`Counted` that there are no more messages than errors counted; from both
`NothingAfterErrors` follows, although the recovery may have dropped any part of
the input.  `LocatedRight`, and `PreviewFits`, which says that the buffer of the
preview is not overrun, need `Scanned` only.

**Memory of the parser.**  `OwnedOnce` only counts pointers, and is not inductive: it
does not say whose tail a list has, nor that no node is its own ancestor.  `MemoryInv`
says that the blocks which are not freed are trees (`Trees`), one for each pointer that
the parser has: what is on its stack and has a destructor, the text of the token,
`parsed_program`, `out_program` and `lost` (`Pointed`).  A tree is given by the block
and the slot that own each block, by the root above it, and by a rank that grows
downwards; a list has its tail within its own tree, and nothing behind the tail, so
that an append neither loses nor shares anything.  With it come what is NULL or empty
in which phase (`Phases`), and that there is a program only when its symbol is on the
stack or was accepted, so that it is set once (`ProgramOnce`).

There is one lemma about blocks for each operation, without the parser: a new node
over trees, an append, both, a failing constructor, a pointer moved.  Freeing is
followed one block at a time (`Freeing`, `FreeStep`): what is still to be freed are
roots beside those that stay, so that in the end exactly the blocks of the given trees
are freed, each once.  That a reduction uses what it matched, all of it and once, is
`UsesEachOnce`; that what it matched is what is on the stack is `HandleSymbols`, which
follows an item down the stack like `HandleOnStack`.

`OwnedOnce` follows because the pointers that are not NULL and the blocks are in
bijection (`ReferencesOfTrees`).  `NothingForgotten` does not follow from `OwnedOnce`
(blocks that own each other in a circle have one owner each) but from the rank: if
there are blocks, one of least rank has a root for owner (`NoTrees`), and after
`Return` all roots but the two that it names are NULL.

`TypeCorrect` of the first stage is proved but not checked by a run: a run that
enumerates its sets of trees takes too long, and every other theorem rests on it.

Only model-checked: liveness (`Termination`, `Ends`, `EverythingEnds`), which the
prover cannot treat; what the compiled program prints (`RunsAsWritten`), whether what was parsed is what
was written (`HandedOnIsTheFile`, `AcceptsWhatIsWritten`) and the printed tree
(`DumpTellsApart`), which rest on recursive operators (`Meaning`, `Source`,
`Debug`); and `ReportsAsDocumented`, which is about one file.

## Not modelled

- The spelling of tokens, and how flex matches them; messages; the layout of the
  output.
- Bison's growing of the stack (`YYMAXDEPTH`): programs are not nested that deep.
- Two runs at the same time on the same input, which share both files: nothing
  in the repository says that this works.
- Logging, the Makefile and the test script, which have no state.
- Rounding of floats, the sign of zero, and the texts that Python prints for numbers.
- Int literals with more digits than Python's `int()` takes (`SpellingAssumption`).
- That the rest of a long line begins with the word LABEL, JUMP or JMPZ, because a
  name in it was split just there: such a piece is text like any other here.
- Counters do not overflow: a program with 2^31 labels does not fit in memory.
- Null pointers handed in by a caller (`program == NULL`, ...): no caller does.

## Plan

Modelled: every component that has state, from the text of a program to what its
code prints, and the driver around it.  Proved: every safety property whose statement
needs no recursive operator, but for `ReportsAsDocumented`.  What would take other
tools: liveness, and that the code means what the source does (`RunsAsWritten`), by
induction over the tree.
