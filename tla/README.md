# Verification of the not interpreter

`not` is a small scripting language. Its interpreter is one C program: it parses
the files of a script into a tree and walks that tree. One thread does everything
(a thread tree exists in `thread.c`, but nothing starts a second thread), nothing
is persisted and nothing waits for input, so there are no interleavings of
processes, no crashes to recover from and no messages. What is hard in this
program is *protocol*:

- control returns through nested C functions by numeric codes, and every way out
  of a block, loop, call or `try` has to clean up after itself;
- two pieces of state outlive a return, the return register `rax` and the queue of
  exceptions, and have to be empty when nobody expects them;
- records and activation records are freed by hand, by reference counts and by
  recursive destruction of chains that are copied and attached to each other;
- loops walk linked lists that their own bodies change;
- the parser tries a reading, gives it up, and has to undo the scanner's position,
  the tree and its own counters;
- an assignment has a branch of its own for each of 169 pairs of kinds, and each
  branch frees, moves or copies what the two records own.

Every module here is written from the C source. Paths below are relative to
`src/src/`.

## Components

| Component | State | Operations | What makes it correct |
|---|---|---|---|
| queue container (`container/queue.c`) | ring of entries, `begin`, sentinel | push, pop, insert, unlink, sort, clear, count | links agree both ways, loops survive their own unlinking, order is that of a sequence |
| activation records (`interpreter/strip.c`) | chain of strips: variables and inputs | create, push, find, remove by scope, attach, copy, destroy | no strip in two chains, every record counted exactly, innermost declaration found |
| records (`interpreter/record.c`) | kind, value, link count, flags | create, copy, count, destroy | destroyed when the last reference goes |
| statement execution (`interpreter/execute.c`) | C stack of return codes, `rax`, exceptions | one function per statement | scopes closed on every way out, failures keep their cause, jumps find their loop |
| calls (`interpreter/call.c`) | new activation record | bind arguments, enter functions, classes, operators, native code | every parameter bound once, codes translated |
| name lookup (`interpreter/primary.c`) | none | find a name from a node outwards | the innermost visible declaration, access rules |
| symbol table (`interpreter/symbol_table.c`) | list of static and module variables | push, find | one value per scope and name |
| repository (`repository.c`) | list of loaded modules | load, destroy | each file is run once, after what it uses |
| thread and interpreter state (`thread.c`, `interpreter.c`, `mutex.c`) | thread tree, `rax`, exceptions | get current, get and set `rax`; create, join, exit unused | state belongs to the running thread |
| scanner, tokens (`scanner/`, `token/`) | offset, line, column, token | advance, cut `>>`, `>=`, `>>=` down to `>` | no character lost or read twice, longest match, lines counted |
| syntax parser (`parser/syntax/syntax.c`) | scanner, stack of saved states, depths of loops and functions, tree | one function per rule, save, restore, release | each saved state is given back once, depths and leaves as if nothing had been tried |
| semantic analysis (`parser/semantic/semantic.c`) | none (walks the tree, loads modules) | check one node | duplicates are refused before the program runs |
| assignment (`interpreter/assign.c`) | records it changes | `=`, `+=`, ... | read-only and typed records are respected, each payload has one owner |
| operators (`interpreter/addative.c`, ...) | none | evaluate two operands by their kinds | results are of their kind, comparisons are those of one order |
| attributes, arrays, pseudonyms (`attribute.c`, `array.c`, `pseudonym.c`) | tuples, objects | built-in methods, slices | bounds, sharing against copying |
| errors and configuration (`error.c`, `config.c`) | one flag, options | report: queue an exception | a failure always has a cause |
| paths (`utils/path.c`) | none | normalize, join, relative | one spelling per file |
| syntax tree (`ast/node.c`) | nodes with parents | make, destroy | a node belongs to one parent |
| memory (`memory.c`) | none in use | wrappers of `malloc` and `free`; an arena without a caller | - |
| program entry (`main.c`) | - | configure, load the first module, print exceptions | - |

How they interact: `main` asks the repository for the script's file. The
repository parses it, appends it to its list, has it analysed (which loads the
modules it uses, recursively) and executes it. Statement execution calls
expression evaluation, which calls back into calls and statement execution; all of
them look names up through activation records and the symbol table, report
failures by pushing an exception and returning -1 or `NOT_PTR_ERROR`, and pass a
return value or a label through `rax`. Every list mentioned is a queue.

## Modules

### Queue, QueueSpec, QueueProofs

`QueueSpec` is what a queue promises: a sequence of entries, the entries its callers
took out and own, and what each call returned. `Queue` is `container/queue.c`: the
ring of pointers. `queue` is the C struct with the two pointers of each cell,
`detached` the entries a caller unlinked and must free (`not_memory_free(a)` after
`not_queue_unlink`, as in `strip.c`), `pc` and `b` the loop of `sort` or `clear` that
is under way and its cursor, `call` the last call and its result. An operation is
one action; an iteration of a loop is one action, since the hazard is what the
iteration does to the cell under the cursor. `Walk` and `Met` are the loop of the callers
(`for (a = begin; a != end; a = a->next)`), `Contents` the entries it meets in their order.

`sort` hands two neighbours to a callback and, when asked, unlinks the first and
links it again *in front of the second*, where it was: it never changes the order.
The refinement states it; nothing in the repository calls `sort`.

### Strip, StripSpec, StripProofs

`StripSpec`: each holder has a chain of levels that is a value of its own, and a
record lives as long as something refers to it. `Strip` is `interpreter/strip.c` with the
counting half of `record.c`: strips linked by `previous`, entries as elements of a
strip's two tables (an entry list never has two entries that a search could
confuse, see `NamesUnique`), `link` the count of each record. The chain of a strip, `InChain`,
is the least set that holds the strip and is closed under `previous`; the uses of a record
are the number of (strip, entry) pairs that refer to it. `Levels` reads the chains of the
holders as the sequences of `StripSpec`. `temps` are the references
C locals own; they make the callers' contract explicit (one pushes or releases
only a reference one owns). A chain is destroyed, copied or cleaned by recursion
in C; here the whole operation is one step, since the recursion calls nothing else.
Records inside records are not part of it.

### Execute, ExecuteProofs, ExecuteScopeProofs, MCExecute

`Execute` interprets a program given as the constant `Ast`. `stack` is the C stack, a
frame per active `not_execute_` function, `ret` the code the last function returned
(0, -1 error, -2 break, -3 continue, -4 throw, -5 return), `val` the outcome of an
expression, `rax`, `expections` the two fields of the thread's interpreter, `strips`
the activation records, `symbols` the symbol table, `fault` an access to freed memory
(a cell of the queue, or a record released by `not_execute_var`) or through NULL. Each statement has the actions its function has between two calls:
`ForInit`, `ForCondition`, `LoopBodyEnd`, `ForIncrement` for `not_execute_for`, and so on.

Data is abstract: an expression yields a value (named by its node), or fails, or
calls the function its node mentions; conditions and iterators choose. The check of a variable's
declared type (`CheckType`) chooses as well, between what the code makes of its outcomes: the
value is taken, the declaration refused, or, where the type is of a class with generics (flag
`generic`), the check itself fails, which queues an error and does not end the function. Labels are
not abstract: `LabelTarget` is the search of `not_primary_selection` with its quirks.
Allocation of list cells is nondeterministic, since a freed cell may be handed out
again. `MCExecute` holds the programs.

### Repository, RepositoryProofs

`Repository` is the loader, `repository.c`, with the three places that call it: `main` for
the script's file, `not_semantic_using` for each `using` of a module under analysis
(`parser/semantic/semantic.c`), and `not_primary_selection` when running code mentions
a name that a `using` imports (`interpreter/primary.c`). The files and what each uses
are constants. `loaded` is the list the loader searches, `stack` the C stack of loads
that are under way (a path, whether the module is being analysed or runs, and how many
`using` items it has gone through), `ret` what the last load returned. `runs` and `done`
are history: how often a file was executed and how its load ended.

A load that fails ends its callers' analyses too, up to a module that runs: there a `try`
may catch the error and the module runs on. Running code can only reach a file that
is not loaded through a circle (what it uses directly was loaded by its analysis), and so
the instance has circles.

### Tokens, Scanner, ScannerProofs

`Tokens` has the operators by their first character, as the branches of the scanner do, and
how each is spelled; `Scanner` and `Syntax` share it. `Scanner` is
`not_scanner_advance` and `not_scanner_gt` of `scanner/scanner.c`. `pos` and `line` are the
scanner's offset and line, `tokens` what it has returned, the last one being
`scanner->token`. `mode` is the place in the function: `look` before a token, `operator`,
`line_comment`, `block_comment`, `string`, `rune`, `escape`, `digits`, `number` and `word` in one of its
loops, `idle` between two calls. `form`, `rune` and `depth` are the locals of those loops. A step
reads one character and decides on it, or looks at the next one without taking it.
Characters are drawn when the scanner first looks at them (`Read`), so that a run covers
every file over an alphabet without listing the files. A letter or digit stands
for itself; `nl`, `cr`, `vt`, `sp`, `tab`, `dq`, `bq` and `sq` are the white space and the quotes,
`bell` any character that starts no token.
`CutGt` is `not_scanner_gt`, which the parser calls when a `>` closes generic arguments.
`Spells` says that the characters from one place to another, white space left out,
are those of an operator: the n-th place that holds no white space (`Rank`) has the n-th
character.

### Syntax, SyntaxProofs

`Syntax` is `parser/syntax/syntax.c`. A rule (`postfix`, `for_stmt`, ...) is the sequence of steps
that the function of that name takes; `todo` is the C stack, the steps still to take
with those of the running function in front. A step matches a token, looks at
the next token and picks what follows, enters or leaves a body, saves or gives back
a scanner state. `saved` is `syntax->states`, `fun_depth` and `loop_depth` the counters that
decide whether `return`, `break` and `continue` are allowed, `leaves` the tokens in the tree. An
error (`Mismatch`, `Refuse`) drops the steps up to the nearest function that goes on after
the error. There are two: `not_syntax_postfix`, which takes a failed attempt to read
`a <` as generic arguments for a comparison, and `not_syntax_package`, which does not look
at the result (`holes` then says that an error pointer is in the tree, and the counters and
saved states of the functions that were left stay as they were). What was parsed
is kept as its leaves and not as a tree; every name, literal and basic type is a leaf.
The scanner appears as the token that starts at `at`; `Scanner` checks that these are
the tokens the scanner makes (`LongestOperator`).

### Values, Assign, AssignProofs

`Values` is the operators (`addative.c`, `multipicative.c`, `pow.c`, `shifting.c`, `relational.c`,
`equality.c`, `bitwise_or.c`, `bitwise_xor.c`, `bitwize_and.c`, `logical_and.c`, `logical_or.c`, `prefix.c`)
and the elements and slices of `array.c` as functions of the kinds and data of their operands. A value is a kind, its data as a sequence of numbers, and the marks
null, undefined and nan. An operator gives a set of outcomes: a value, or `Raises` (an exception
is reported), `Aborts` (GMP ends the program) or `Hangs` (a loop without end).

`Assign` is `not_assign_set_value` and the twelve operators that call it. `recs` is the record
of each variable: kind, marks, whether it is typed, readonly or a reference, and the
cell its value pointer points to. `heap` is what is in each cell; a string's cell holds its
bytes, and the char record that `s[i]` makes points *into* it (`off`). `PlanFor` says for each of
13 by 13 kinds what the branch does with a typed record and with the payload it replaces; the
actions then free, allocate, `realloc` (which moves the payload or leaves it) and copy in the
order of the C code. A record with `reference` set frees nothing that it drops; what it had owned is
then `Lost`, allocated and no record's. `t[i] = x` and `o[key] = x` write the record of the element itself
(`ElementAssign`), `s[i] = c` a byte of the string (`CharAssign`). A read of freed memory gives any of `Garbage`; a write to it ends
the program (`fate`), as do the outcomes that abort or hang. Each operator assigns what
`Values` says its result is: an operation and the assignment are one step, since nothing
runs between them (operator methods of classes, which could, are in `Execute`).

## Runs

| Run | Instance | Shows |
|---|---|---|
| `queue` | 3 entries | the ring is a ring, the loops end, the sequence is implemented |
| `strip` | 2 records, 3 strips, 2 scopes, 1 name, at most 4 entries | chains are freed once, counts equal owners, strips behave as values |
| `execute_loops` | nested `for` and `for in`, labels, a function with loops and `try` | scopes, `rax` and exceptions are left clean on every way out |
| `execute_tries` | nested `try`, rethrow, typed and reference clauses, an operator that throws, a variable of a generic class | failures keep a cause, handling ends |
| `repository` | six files: circles of one to four, a shared library, one file reached at run time first | a file runs once, never loads inside its own load, and runs after what it uses |
| `syntax` | fourteen families of texts, up to 19 tokens | parses end, undo what they tried, and accept jumps and leaves as the text has them |
| `scanner` | ten families of files, up to 6 characters | tokens tile the file, operators are the longest, lines count, calls return |
| `assign` | eleven programs of two variables, three cells | payloads have one owner of their kind or are lost by a reference, typed and readonly variables keep kind and shape, comparisons order |
| `retry` | one `try` in a loop | **violated**: the second exception is shown as the first |
| `same_name` | two `try` with a parameter of the same name | **violated**: null dereference |
| `restart` | an inner loop left by an error and started again | **violated**: "already defined" |
| `sample` | the `try`/`catch` sample of `README.md` | **violated**: the label names another loop |

Bounds. Three entries give a ring with a first, a middle and a last entry, the cases
`link` and `unlink` distinguish. Three strips give a chain with a strip to copy or
attach; a record can have an entry in each of them. One reference per record among C
locals is enough to have two owners, since entries own too. `MaxEntries` only cuts
larger copies of the same situations; it is a state constraint of the run. The
programs of `Execute` are the bound there: every expression may fail at any
point and loops run any number of times.

A text of `syntax` or `scanner` fixes the first units of a source and an alphabet for the rest,
so each run covers every source of that form up to its length. The texts of `syntax` are
chosen by the code that could go wrong: generic arguments against comparisons and
shifts, a lambda (with errors, loops and returns) inside generic arguments that are
given up, headers of `for`, jumps beside loops, annotated members, packages. Their lengths
are the least at which the shape closes, accepts, and is followed by a token, so that what
a failed attempt leaves behind meets something. The alphabets of `scanner` are one per kind of
token, with line breaks where the code skips them; three to six characters hold
the longest operator, white space inside it, and a character behind it.

`assign` has two variables because an assignment has two sides, and three cells because
it allocates at most one payload while both sides have theirs. A program declares a
string with a reference into it, a typed variable of each kind beside an untyped one
that goes through the kinds, or a readonly string, tuple or object. A float, a type and a builtin
are no literals: only some programs start with one. Numbers up to 2, the bytes
-128, 0 and '1', strings of at most two bytes and exponents up to 3
keep every branch: zero, sign, the wrap of a char (twice -128 is 0), an empty string, a byte that reads as a
number, a result beyond a string's length. Larger results are not followed (`Explored`).
Cells are only compared, so that permuting them is a symmetry. The run has
`CHECK_DEADLOCK FALSE` because a program that aborted, hangs or wrote to freed memory has no
next step. Elements of containers are integers, and an assignment to one sets it to 2 (`Stored`), which is no
literal, so that a changed container is told from a new one. Only a reference into a string is
declared, and `s[i] op= x` is not followed.

Fairness. `Syntax` assumes weak fairness of its next step and `Scanner` of a call that is under
way (not of the parser calling it), for the same reason as the modules that follow.
`Queue` assumes weak fairness of a loop that was started and `Execute` of its
next step: one thread executes, and neither blocks. No other action is assumed to
happen; `Terminates` is asked of a program without loops only, in which no catch body leaves an exception
behind without failing (see the observations).

Each property has a wrong form of some definition that violates it. The wrong forms
that are written down stand right before the right ones (`CloseUnlessError` before
`CloseBody`) and are used by nothing else.

## Findings

- `retry`: an input pushed for a catch parameter stays for the whole activation, and
  the next push of that name is refused silently.
- `same_name`: if the other clause has the same parameter name, its search by scope
  finds nothing and the null result is used.
- `restart`: `region_error` of both loops skips the removal of the loop's variables.
- `sample`: a label is searched before the statement and at module level, never at the
  loop that encloses it.

## Observations

What the code does and no test, comment or document contradicts, met while modelling. The
models have these behaviours; they are no findings of a run. Paths are in `interpreter/` unless
they say otherwise.

- Operators: `/=` adds (`assign.c:4363`). An int minus a float adds (`addative.c:319`). A char that
  equals an int or float on its right is both below and above it (`relational.c:104`, 327, 557,
  780; `OrderConsistent` states it). A char plus or minus an int stays a char up to 128 and wraps
  (`addative.c:189`). `"" * n` never ends (`multipicative.c:260`). `%` and `\` by zero abort inside
  GMP (`multipicative.c:536`). A negative shift amount shifts by its absolute value (`shifting.c:68`).
  `&&` and `||` evaluate both sides.
- Declared types: when the check of a variable's type fails with -1 (a generic parameter of its class is not
  initialized), `not_execute_var` releases type and value and goes on with both, the exception queued
  (`execute.c:1585`-1596); after a failed cast its message reads the released value (1647).
- Exceptions left behind: a throw in an operator method, and such a failed check, leave an exception
  queued while the program goes on. A later `try` that fails handles it as its own. Left by a catch body while
  two are queued, it is found by the same walk, whose catch body leaves the next: the `try` goes on for ever.
  TLC shows this as soon as such a call or variable is put into the outer catch body of `TryProgram`.
- Elements: an index below 0 of an empty string or tuple, and a step of 0 in `t[a, b, c]`,
  hang (`array.c:906`, 542, 383, 720). A readonly string, tuple or object can be changed by `s[i] = c`,
  `t[i] = x` and `o[key] = x`, since the record of the byte or the element does not carry the flag
  (`array.c:929`, 563, 218); its length and keys stay. `s[0] = 65` changes nothing: the char record takes a
  new payload, which is lost.
- Memory: `s = s` and `s = s[0]` read the right side after the left one was reallocated
  (`assign.c:962`, 986). A reference to `s[i]` dangles after an assignment to `s`. A record with
  `reference` set never frees what it drops, also when that is a payload of its own (`assign.c:588` and the
  parallel branches, `record.c:1752`; nothing resets the flag): after `reference var c = s[0]; c = "ab"; c = 'x'; c = 1;`
  the payload of the `'x'` is lost. A compound
  assignment that is refused does not release its result (`assign.c:4233`).
- Scanner: an operator that could go on is dropped when the file ends right behind it
  (`scanner/scanner.c:861`; `LostAtEnd` of `TokensTile`). White space inside an operator is skipped,
  `> >` being `>>`. Any lone `*` in a block comment lowers its depth (1097). A comment or string that is
  not closed never ends. Line breaks inside them are not counted. After a
  simple escape the number of digits to read is uninitialised (273).
- Parser: an error inside generic arguments that are only tried, as in `a < -1`, stays
  reported although the module is accepted (`parser/syntax/syntax.c:1267`; `QuietlyAccepted`).
  An error behind the `:` of a package is swallowed (4323). `return` is refused in a lambda with a
  return type (939). The error swallowed behind a package's `:` leaves the counters raised: `using a : fun {
  from "s"; return;` is accepted, its `return` outside of every function, because `fun_depth` is
  still 1 (what `SpeculationsClosed`, `DepthsCountBodies`, `JumpsEnclosed` and the second half of
  `LeavesInOrder` say is therefore about texts without `holes`).
- Parser, lost text: a failed attempt at `a <` restores the state that was saved last, not its own.
  `not_syntax_for_stmt` saves one before it reads the names of its header (2756) and does
  not give it back when it fails there. So a `for` with a bad name in a lambda that is tried as a
  generic argument is resumed at the `var` of the header. After a declaration without `;`
  (4489, 3234, 3238) that `var` begins the next statement, and

      export var x = a < fun f { for (var {b} = c;

  is accepted as `export var x = a` and `var {b} = c;`: what stands between is in no tree, a saved
  state stays behind and `fun_depth` stays 1. `HeaderTried` describes these texts;
  `SpeculationsClosed` and the second half of `LeavesInOrder` leave them out when an error was
  reported, and the run shows that both hold of all other texts it reads. The attempt to
  prove `SpeculationsClosed` for all texts turned this up.
- Parser, accepted texts: `break` inside a lambda inside a
  loop is accepted. `x < y >> 1` is read as generic arguments.

## Proofs

Eight modules hold theorems. Each follows the same way: an invariant `IInv` (`Good` in
`AssignProofs`) that implies the property, that the initial states have, and that each
action keeps; one lemma per action, or per group of actions that do the same to the part
the property is about. The runs check the properties on instances; the theorems
hold for every value of the constants that the assumptions below allow.

**`QueueProofs`**: `TypeOK`, `Ring`, `CursorInRing`, `WalkMeetsAll` and the refinement
`ImplementsSequence`, for every finite set of entries. The inductive invariant adds
`ClearAtBegin`: while `clear` runs, its cursor is `begin`. Without it an
iteration of `clear` from elsewhere would still keep the ring, but the cursor's next
would not be known to be the new first entry. `LinkRing` and `UnlinkRing` carry the
argument: both operations turn a ring into a ring with one entry more or less.
`sort` unlinks and relinks `b` in front of its successor `n`; when `b` is its own
successor (which a ring of its own would be; the local form of `Ring` admits it)
the step is argued separately. That the ring is one ring needs more: `Lists(q, s)` says that the
ring of `q` is the sentinel and the entries of the sequence `s` in this order. Linking an
entry inserts it in `s` (`LinkLists`), unlinking removes it (`UnlinkLists`), and the walk from `begin`
returns `s` (`ContentsListed`), by the least place at which it would not. `Simulation` then
takes each action of `Queue` to the action of `QueueSpec` it implements, or to a stutter.

**`StripProofs`**: `TypeOK`, `ChainsDisjoint`, `LinksCountOwners`, `NamesUnique` and the refinement
`ImplementsEnvironments`, for all finite
memories and programs. The four are inductive only together. Chains: a strip is in the
chain of another if it is in every closed set that holds it (`ChainIsLeast`), and a
chain has an end (`ChainEnds`), since going back is injective and memory finite. `Attach` and
`Destroy` rest on it. Counts: the uses of a record are the size of a set of pairs, and each
operation adds or removes pairs one can name; those of `Copy` are the image of the old ones
under an injection. The refinement reads a chain as the sequence of its strips (`Lists`): each strip has exactly
one (`EachIsListed`, `IsListedOnce`), which holds the strips of the chain once each, and the recursive `Levels`
are the levels along it (`LevelsAreListed`). An operation keeps, extends, joins or renames
sequences; a record with a count is one that an entry or a local refers to
(`AliveIsReferred`). `Simulation` takes each operation of `Strip` to the one of `StripSpec`.

**`ExecuteProofs`**: `FailureHasCause` and `ReturnValueInFlight` of `Execute`, for every
program, and `ExceptionsInFlight` for some. Neither is inductive: a function that changes the
queue or `rax` must know that no code is pending when it does, and the code says so
nowhere. `Control` does: it lists the nine points at which a function waits for the
code of one it has called (`Waits`) and says that below the top of the stack a frame is at
such a point, or is evaluating an expression with a called function on top of it, and
that only a top frame that waits or evaluates has a code or a value pending. `CallStep`,
`ReturnStep` and `GotoStep` keep `Control`; `Calls`, `Returns` and `GoesOnAt` state what each
statement then has to show (a failure leaves an exception, a return value is not left
behind), and one lemma per action shows it.

`ExceptionsInFlight`, and that no walk over the queue reads a freed cell (`WalkIsSafe`), hold of the
programs with `ClausesTakeAll` and `ChecksConclude`: every clause takes every exception, no operator calls a
function of the program, and no variable is declared of a generic class. `OneInFlight` is the invariant: at most one exception is queued, only while
a failure is pending or the innermost `try` goes through the queue; a `try` whose catch body runs
took the only one, so that the cell it goes to next is none. Each part of the hypothesis is needed: TLC finds
an exception that lingers as soon as one clause has a type, one has a reference parameter, one throw
passes through an operator, or one variable is of a generic class (`execute.c:1585`).

**`ExecuteScopeProofs`**: `TypeOK`, `BlockScopesClosed` and `LoopScopesClosed`, for every program. The
records of the activations and the stack of functions are two structures that different
functions push and pop. `Shape` ties them together (a record per function on the
stack, and one for the module; a declaration stands on the block it is part of), and `Scopes`
says that variables of a block or function are in a record only while the block is open in
that activation. Loops are outside of `Scopes`, since an error leaves their variables behind:
`LoopScopesClosed` is an action property and proved as one.

`JumpHasTarget` holds of every program whose labels name loops around them
(`LabelsNameLoopsAround`), which `not_primary_selection` does not guarantee (run `sample`). The argument
joins the tree to the stack: `Covered` says that whatever runs inside a loop of its function has the
frame of that loop below it in its own activation, which holds because a frame is only ever put on
that of its parent or is a function's (`Moves`), and `JumpRuns` that `rax` holds a loop only while a -2 or -3 is
on its way, and that this loop runs. A loop passes on only what is not for it (`IsFor`), and a
function never sees such a code, as none of the loops of its activation is below its own frame
(`NoJumpOut`): the error "there is no loop" of `execute.c:2896` is for jumps without a label only.

**`RepositoryProofs`**: `RunsOnce`, `NoLoadInItself`, `UsesBeforeRun` and the types, for
every set of files. The argument is the order in which a load does things: the path
is appended before anything that could load again, and is never removed. So the
invariant says that each load on the stack is of a listed path that has not ended
(`StackListed`), that nothing happened to an unlisted path (`UnlistedUntouched`), that a
listed path has ended or is on the stack (`ListedSettled`), and that what a load has gone
through is listed unless it has just failed (`UsesListed`). `RunsOnce` alone is not
inductive: only `StackListed` says that the module whose run starts has not run before.
`AnswerStep`, `BeginStep`, `ReturnStep` and `SemanticEndStep` are the four things that
happen to the stack.

**`AssignProofs`**: `TypeOK`, `PayloadsSound`, `OrderConsistent` and the action property `TypedStays`, for
all programs and literals. `Good`, the first two together, is inductive. `PlanFacts` reads off the table of 13 by 13
branches the few facts the argument needs (which plans keep, free or replace a payload,
and what they do with a typed record); from them `SetValue` is shown to return sound records
and payloads whatever the two sides are, once what a reference dropped counts as lost (`After`), and each operator's result to be a value of its
kind. The order follows for every two values of their kinds: for strings, `FirstDifference`
says that both find the same first byte to differ in, so that `strcmp` has the
other sign the other way about (`StrCmpFacts`).

**`ScannerProofs`**: `TypeOK`, `TokensTile`, `LongestOperator` and `LinesCounted`, for every source. The
invariant says where the scanner stands in a token (`Locals`), that tokens follow each
other (`Order`), that each operator is whole or cut (`Wholes`), that what was read lies in a token
(`Covered`) and that lines are counted (`Counted`). `WholeIsLongest` is the
reason for the longest match: no operator is skipped on the way, because every operator
without its last character is one the scanner goes on from, and an extension that does not
fit now does not fit later, the rank of a place being the same for every word. The line
count needs that the scanner never stands inside a carriage return and line feed, not even after
`not_scanner_gt` has gone back.

**`SyntaxProofs`**: `TypeOK`, `DepthsCountBodies`, `QuietlyAccepted`, `Balanced` (an accepted module
without a reported error leaves nothing saved and no depth open) and `LeavesAscend` (the first half
of `LeavesInOrder`, here in every state), for every text. Which functions
may be on the C stack follows from the grammar, a table of 87 rules. So the
grammar is typed once: `Sound` says of a step how many saved states it *owes* (will release or
restore) on every token it may meet, `Flow` of a list of steps that what it owes is what its
steps owe, that it leaves each body it enters and that it gives states back only where none
of its own bodies is open. `RulesTurn` derives this of every rule, constructor by constructor, as a
type checker would; since rules call each other, the typing is a set of steps closed
under what steps turn into (`Closed`), as in a coinductive definition. The invariant says that `todo` is
such a course and that it accounts for the state (`Standing`, `Account`): the number of saved states
is what `todo` owes, the depths are the bodies open in it, and the depths in the `i`-th saved state
those open where it will be restored. Every action either replaces the first step by a course that owes as much
(`TurnedTo`), or drops steps (`Restored` after an error behind `<`, `Swallowed` in a package). An
error in a `for` header tried behind `<` restores the header's saved state and leaves that of the
`<` behind, so from the first error on the account is an inequality: `todo` owes at most
what is saved, and no state that a step may restore counts fewer bodies than are open there. `DepthsCountBodies` follows by
counting the steps that enter, leave and close (`Tally`).

`LeavesAscend` needs a second invariant on top (`LInv`), because a restore takes the scanner back: the
leaves read since the save have to go with it, or to be none. `LInv` says that every leaf lies before
the scanner (`Rising`), that saved states were saved in the order of their places (`Later`), and where
the parser is (`OnTheWay`): outside of the steps that follow a save, about to save, or in one of the
few lists of steps between a save and the step that gives it back (`Window`), with the number of leaves
made since. In a window the last saved state is its own; the leaves that it counts lie behind
that place and the others before it, so that `GiveUp` or a failed `<` cuts exactly those that will be read
again. An error goes on at a step that waits for one (`Waits`): what that step keeps was made before the
state it gives back was saved (`Backs`). A `for` header whose own state is left behind (see above) does not
break this: the place that is restored instead is a later one, and all leaves that are kept lie before it too.

Induction. Facts about walks, ranks and chains of any length are proved through a
least counterexample (`Least`, from the well-foundedness of `<`), or through closed sets:
the library's induction theorems take an operator as their argument, which the provers cannot
instantiate.

Assumed of the constants, each checked by TLC for the instances:

- `EntryAssumption`: a finite set of entries; sentinel, NULL and the error pointer differ from
  them and from each other.
- `MemoryAssumption`: memory and programs are finite, NULL is no strip.
- `PathAssumption`: the main file is a file, each file has a finite sequence of `using` items, a
  library description has none.
- `AstAssumption` and `TreeAssumption`: the tree is one that the parser builds: functions are
  mentioned by variables and calls only, a catch clause by its `try` only, blocks are bodies, and no
  node is a child of two.
- `ValuesAssumption`, `AssignAssumption`, `ProgramsAssumption`: the bounds on numbers and bytes are
  bounds; literals are values of their kind; a program starts with sound records and payloads.
- `TextAssumption`: a text has units that are characters of operators or whole words, and a bound.
- `LabelsNameLoopsAround`, `ClausesTakeAll` and `ChecksConclude` of `Execute` are hypotheses of three theorems and no
  assumptions: they say which programs these are about. TLC checks that the program of `execute_loops`
  is one of them (`LoopProgramAssumption`).
- `SourceAssumption`: a source is a sequence of characters, none of which is the end of the file.

Checked by TLC only:

- Liveness: `LoopEnds`, `Terminates`, `FailureIsResolved`, `AdvanceReturns`. The provers do not reason about
  fairness and enabledness.
- `SpeculationsClosed`, `JumpsEnclosed` and the second half of `LeavesInOrder` (that no name or
  literal is missing from the tree) of `Syntax`. The first says of texts with errors
  which of them lose a state, the others relate the tree and the depths to the tokens of the text: an
  invariant would have to say which tokens can stand between two steps of the grammar.
  `Balanced` and `LeavesAscend` are the parts of the first and the last that need no more than the steps.

## Plan

1. Theorems to come, by importance: that no leaf is lost and the exceptions of
   `SpeculationsClosed` in `Syntax`; the comments and literals that `TokensTile` and
   `LinesCounted` leave out.
2. Models that would add most after that: the count of a thrown record through `try`, where
   two decrements meet shared references (`execute.c:2489`); the binding of arguments to
   parameters (`call.c`); name lookup over tree, strips and symbol table (`primary.c`), which
   would replace `Execute`'s open choice of values; records with parts, which
   `forin` walks while its body changes them.

## Not modelled

- `call.c` beyond entry and exit (binding of positional, keyword and default arguments,
  inheritance, native calls through libffi) and `primary.c` beyond labels: they need the tree of
  classes and parameters, of which `Execute` keeps names only.
- How declared types are checked and cast in `execute.c` (`Execute` takes the outcome as a choice;
  `Assign` has the shape check of an assignment).
- `attribute.c` and `pseudonym.c`: one lookup repeated for each kind, whose effects are on scopes that
  no model keeps.
- Slices of strings, which repeat the code for tuples; `typeof` and `instanceof`; deep copies of
  containers in containers.
- `parser/semantic/semantic.c` except for the modules it loads, which `Repository` has: it reads the
  tree and keeps no state.
- The scanner's columns, bytes beyond ASCII and token values; scanner errors inside a
  parse, which end it.
- `utils/path.c`: string functions over file names and the working directory; `Repository` takes a
  path as a value, one per file.
- Allocation failure (every `calloc` is tested in C, the paths only return); Windows variants;
  formatting and printing; `memory.c`'s arena and thread creation (no caller); jansson, GMP,
  MPFR and libffi.

`PROJECT.json` lists every component with its status.
