# A verification model of peglib

peglib is a header-only C++20 library of PEG parser combinators: a packrat
parser with left recursion, committed choice (cut), automatic whitespace
skipping, error recovery, typed actions folded over the tree, and a paged file
reader. This directory holds TLA+ models of it, the TLC runs that check them,
and TLAPS proofs about them. The code is under `src/include/peglib/`.

## 1. Inventory

peglib is single-threaded. What is hard in it is not concurrency but large
mutable objects and bare pointers. The `Context` is read and edited by every
recursive `parse()` call, and must be right again after every one of the ways
out of a call: match, failure, memo hit, left-recursive seed, recovery,
exception. Tree nodes are shared between the memo and several parents and
re-stamped. Rules, handles and the skipper are pointers into a `Grammar` that
may move. A `FileSource` is shared by a parser and a `SourceMap`.

| component | state | operations | interacts with |
|---|---|---|---|
| `Context` (Context.h) | cursor, memo, cut stack, LR stack, growing heads, furthest failure and expected set, diagnostics, skipper and skip flag, node arena | about 25 small methods | called by every expression; calls the skipper rule and `InputSource::release_before` |
| terminals (Terminals.h) | none | `parse` of a terminal, literal, token, matcher, empty | cursor, error tracker, arena |
| combinators (Combinators.h) | locals of the call | `parse` of sequence, choice, repetition, predicates, cut, lexeme | cut stack, skip flag, arena; throw and unwind `ParseError` |
| `NonTerminal` (NonTerminal.h, Recover.h) | locals of the call, an `LRFrame` on the C++ stack | `parse`, the seed-grow loop `parseImpl`, recovery | memo, LR stack, error tracker, diagnostics, arena |
| DSL (Rule.h, factories in Grammar.h) | none | `>>`, `\|`, `*`, `+`, `-`, `!`, `&`, factories | builds expression trees |
| `Grammar` (Grammar.h, `Rule` in NonTerminal.h) | rules by name (it owns them), start rule, skipper pointer | rule access, assignment, skipper, moves; `parse`, `parse_tree`, `parse_ast`; analyses | drives a `Context`, catches `ParseError`; handles point into it |
| typed fold (ResultType.h) | none but a cursor | `fold_start`, `fold_expr`, `fire_on_match` | reads `producer`, `alt_winner`, children of the nodes the engine left |
| error tracker (Context.h, ParseError.h) | furthest position, sorted vector of items | `record_failure`, `take_error`, escapes | fed by terminals and rules |
| `FileSource`, `InputSource` | two page buffers, stream, size, owner | open, `get`, `release_before`, move, close | read by `Context`, released on a cut; read by `SourceMap` |
| `SourceMap` (SourceMap.h) | line starts, pointer to a source | `locate`, `offset_of`, `line_view`, `line_content` | reads a `FileSource` that others use |

What makes each part correct:

- memo, left recursion and eviction are an optimisation: they change no answer;
- a failed call restores the cursor; cut scopes, LR frames and skip flags are
  paired on every way out, the exception's included;
- a committed failure is an error, nothing else is tried in its scope, and the
  caller gets a diagnostic;
- blanks are skipped where documented and nowhere else;
- a recovery resumes at the right place and is reported once;
- trees cover what was matched, and folding them calls every action of the match
  with the values of its own children, once per match;
- the items reported as expected are absent, are all of the furthest ones, and
  no two different ones look alike;
- every parse ends, and so do the analyses;
- a rule has one owner, a handle denotes its rule while its Grammar lives, the
  skipper lives, names agree with pointers, analyses with what parsing can enter;
- the file reader is indistinguishable from an array, also when it is shared,
  and lines read from it are those of the text.

The hazards are listed line by line in `PROJECT.json`.

## 2. Modules

| module | models |
|---|---|
| `PegContext` | the `Context` as one record whose fields are the class's members; one operator per method |
| `PegExpr` | expression trees and the DSL that builds them |
| `PegMachine` | the engine: the call stack made explicit, one action per stretch of code between two calls or returns |
| `PegTypes` | result types of expressions and the values actions see |
| `PegSemantics` | reference: what the expressions mean, as recursive functions with no memo and no `Context`: position, typed value, rules matched |
| `PegDerivations` | reference without recursive functions, for proofs: the meaning as inference rules, one for each way a `parse()` ends, and the grammars they are for |
| `PegConformance` | the engine's answers against the reference, the rules against the reference, and what comments promise of errors |
| `TreeFold` | `parse_ast`: a parse of the engine, then hooks and the typed fold on the node arena it left |
| `GrammarStore` | Grammars, the NonTerminals they own, handles |
| `GrammarAnalysis` | `unreachable_rules` and `to_dot` as worklist machines on `GrammarStore` |
| `InputSource` | abstract specification of an input source |
| `FileSource` | the paged reader with its lifetime; implements `InputSource` |
| `SourceMap` | line map over a `FileSource`, composed with everything else done to that source |
| `ExpectedItems` | escapes and texts of expected items, and the sorted vector |
| `FailureLog` | abstract specification of the error tracker |
| `ErrorTracker` | the tracker over the sorted vector; implements `FailureLog` |
| `MCPeg`, `MCFold`, `MCGrammar`, `MCSourceMap`, `MCErrors` | instances |
| `PegProofs`, `PegScopeProofs`, `PegCutProofs`, `PegTreeProofs`, `PegSoundProofs` | lemmas and theorems about `PegContext` and `PegMachine`; `PegScopeProofs` extends `PegProofs`, `PegCutProofs` and `PegTreeProofs` extend `PegScopeProofs`, and `PegSoundProofs` both of them and `PegDerivations` |
| `GrammarProofs`, `SourceProofs`, `ErrorTrackerProofs` | theorems about the Grammar and its analyses, the reader and the map, the tracker |

**How the engine corresponds to the code.** `stack` holds a frame for every
active `parse()` or `run_skipper()` call, with the call's locals; `ctl` says
what happens next (call, return, skip, continue, finish a rule, throw). An
action does everything the code does up to its next call or return. For
example `NonTerminalGrow` is the branch of `parseImpl` where the body matched
further: it stores the seed, tests whether the entry was still there, clears
the siblings if the frame is a head, rewinds and calls the body again. `Unwind`
pops one frame of a propagating `ParseError` and runs the `ScopeGuard` that
frame has, if it has one.

**Abstractions.** A terminal is the set of elements it accepts; value, set,
range and predicate terminals differ only in the display text of the expected
item, so `Range` items are kept as `Literal` ones. A user matcher is a
recogniser of a fixed literal that only reads, as its comment demands. Arena
pointers are indices. The two-level memo is one function. A recovery spec is
its set of sync tokens. `Contexts` is over one fixed input.

**The fold.** `TreeFold` extends the engine: when a parse is over, `FoldTree`
runs the hooks and the fold of the start rule on the arena. The template
recursion over expression types is recursion over the grammar's expressions. It
can end otherwise than with a value, and these outcomes are values of their own:
`children.at()` out of range, a null node dereferenced, an action entered again
for its own node. A user's action is the record of its call (rule, span,
arguments), so the final value shows every call made for it.

**The Grammar.** `heap` holds the NonTerminals by address, `grammar` the map from
names to addresses. A body is the set of handles in it, each an address and a
name, because parsing follows the one and the analyses read the other. A destroyed
or overwritten Grammar frees its NonTerminals, whose addresses may be used
again, which is what makes a stale pointer visible. The caller keeps the documented
obligations and no others: no handle outlives its Grammar, bodies and
skippers use handles of their own Grammar, a moved-from Grammar is only assigned
to or destroyed (a move copies `m_skipper` and leaves it in the source too, so
more would not be safe).

**The map.** Every `get` of `SourceMap` is a `Hit` or `Miss` of `FileSource`, one
action each. Between the map's operations (`SourceStep`) the source is read,
released before any position, and, unless it is the one mapped, moved and destroyed.

**The tracker.** `PegContext` has the tracker too, with sets of abstract items; in
`ErrorTracker` the items are the texts shown, bytes and all, in a sorted vector.

**After an exception.** `lr_pop` is an ordinary statement after `parseImpl`
(NonTerminal.h:130), not a `ScopeGuard`, so when a `ParseError` has passed a
`NonTerminal` the Context's LR stack points at frames of calls that are gone,
although `LRFrame`'s comment says that its lifetime is the C++ call
(Context.h:157). A further parse on that Context reads freed memory, so the
model takes none (`StartParse` requires an empty LR stack). All other sequences
of parses, `take_error` and `take_diagnostics` on one Context are allowed, up
to `MaxParses`.

## 3. Runs

`tlc -workers 2 -config <run>.cfg <module>`; the longest, `source_map` and
`families`, take about two minutes.

| run | instance | what it shows |
|---|---|---|
| `families` | 1310 grammars in five families, 821 000 states | parses, memo and trees agree with the memo-free meaning (`ParseAgrees`, `MemoSound`, `TreesCoverTheirMatch`); no active rule is entered again at its position and the LR stack mirrors the calls (`NoRuleReentered`, `LrStackMirrorsCalls`); cut scopes and the skip flag are paired on every way out (`CutScopesBalanced`, `NoSkipInsideLexeme`, `SkipResumes`); items expected are absent, failures come with one, recoveries are reported once and no report is lost (`ExpectedLiteralsAbsent`, `FailuresReported`, `RecoveredOnce`); answers in the memo are not replaced, and forgotten only where the code says why (`AnswersKept`); the inference rules give the documented meanings (`RulesGiveMeanings`) |
| `engine` | 7 grammars with every expression type, labels, typed actions, recovery, a throwing skipper; two parses on one Context | `TypeOK`, `FailRestoresPosition`, `ParseAgrees`, `RecoveredOnce`, and every parse ends (`ParseTerminates`) |
| `fold` | every grammar of `Acted` that `set_action` accepts, 609 000 states | the typed value is what the grammar means (`FoldAgrees`), the fold ends with one (`FoldReturns`), hooks fire in order for matches of the result only (`HooksFireInOrder`) |
| `grammar` | 2 Grammars, 2 names, 3 NonTerminals, 150 000 states up to symmetry | ownership and handles through every sequence of accesses, assignments, moves and destructions (`SoleOwner`, `NamesMatchPointers`, `SkipperLives`, `ParseStaysInside`, `HandlesStayValid`, `StoreTypeOK`) |
| `analysis` | every grammar of up to three rules, the start set or not and made or not, 348 000 states | `unreachable_rules` lists exactly what no parse enters, nothing without a start rule, `to_dot` every rule once, both end (`UnreachableAreDead`, `EdgesOnce`, `AnalysisReturns`, `CallTypeOK`) |
| `source_map` | every file of up to 5 letters, newlines and returns, page 2, two objects, 1.24 million states | lookups and lines are those of the text (`LookupsAgree`, `LinesAgree`, `LineContentAgrees`); the source they share is right and implements `InputSource` (`BuffersMatchFile`, `OneOwner`, `ImplementsInputSource`) |
| `errors` | up to 3 failures at 2 positions, characters of 1 and 4 bytes, 31 000 states | the vector is sorted, merges nothing that differs and implements the log of furthest failures (`StrictlySorted`, `NothingMerged`, `ImplementsFailureLog`) |

**The families** (definitions of `MCPeg`), each on the inputs of its alphabet
(`OwnInput`): 288 grammars with direct left recursion, 576 with mutual and
nested left recursion, 384 with cuts in branches, called rules, repetitions and
predicates, all on inputs over {a, b} up to length 3; 30 with a skipper and
lexemes on {a, blank} up to length 4; 32 with a recovering rule reached again
by backtracking on {a, ;} up to length 3. Of all these, 257 have neither cut nor
left recursion and parse each rule in one mode, 25 of them with the skipper and
32 with recovery: in these `RulesGiveMeanings` says something. Four rules exist: the start, two
more, the skipper. The grammars of `fold` put typed and void children first, in
the middle and last in a sequence, under choices, repetitions, predicates and
lexemes, directly and through rules with and without actions; in those of
`Resumed` rules recover, where the fold has a value for a match without a
node: in optionals, in predicates and at the root.

**Why the bounds are enough.** Length 3 lets a seed grow twice and still leave
a failing rest; two rules besides the start are what a mutual cycle and its
entry need. Two Grammars are the two ends of a move; two names let an alias
differ from its target, and the third NonTerminal lets an address be freed and
used again while both names are taken. Three rules allow a start, a chain and
an unreachable cycle, and with fewer made, a start that no rule has. Five items on pages of two give a full first and second
page, a page that needs `read_to`, files that end on and inside a page, and a
`\r\n` across a page border. `SizeMod` is the width of `size_t`, just large
enough that no file's offset wraps and -1 is none of them. Three failures
let a nearer, an equal and a further one follow each other, and two positions
tell them apart.

**Fairness.** `Spec` has weak fairness on `Step` alone: a parse is one
sequential call that nothing interrupts, so as long as it can take a step it
does. `Terminated`, a stutter that stands for the caller being done, is outside
it. The analyses have weak fairness on `AnalysisStep` for the same reason: each
is one const loop, and nothing else runs between its iterations. The caller of
`GrammarStore`, `FileSource`, `SourceMap`, `ErrorTracker` and the fold is
obliged to nothing: there all properties are about safety.

### Departures

The families above describe how the library is meant to be used. They leave
out grammars of the shapes below, on which the code departs from what it says
of itself. Five departures have a run of their own, whose single property TLC
violates; the quotations and lines are in `PROJECT.json` under `findings`.

| run | what the counterexample shows |
|---|---|
| `shared_lexeme` | the memo ignores the skip mode: a rule parsed inside a lexeme answers the same outside |
| `cut_in_recursion` | a cut evicts the seed of an active rule, whose body is entered again |
| `skipper_throws` | a cut in the skipper makes `Grammar::parse` throw on a plain failure, from before its `try` |
| `void_child` | the fold does not count the node of a void repetition and gives the token's action the wrong element |
| `lone_return` | a `\r` at the end of the file is dropped from its line, though it is no line ending |

Other grammars that show a departure, with TLC too: put their family in place
of `Grammars` in one of these configurations (`families.cfg` for the
properties of `MCPeg`, `fold.cfg` for those of `MCFold`).

- `SharedPartner`, violates `ParseAgrees`: siblings are cleared when a growth
  iteration starts (NonTerminal.h:230), so a partner rule keeps the answer of
  the last one after the head has finished; `S <- A b | B`, `A <- B a | a`,
  `B <- A a` rejects an input B matches. Within one parse that answer is as good
  as the seed it was computed with, so `MemoSound` is about the rules without
  such a partner; for the others the families check the parse (`ParseAgrees`) and
  that no settled answer is replaced (`AnswersKept`).
- `SilentFailure`, violates `FailuresReported`: a predicate records no failure
  and the exception passes every `record_failure` (Combinators.h:108), so
  `S <- a cut !b | b` fails on "ab" with no error to take, although
  Grammar.h:232 says to retrieve it with `take_error`.
- `TypedLeftRecursion`, violates `FoldAgrees`: `parseImpl` stores the body's
  bare tree as the seed and only `parse` wraps it for the action
  (NonTerminal.h:239), so in `A <- -A >> token(b)` the action is not called
  for the inner match.
- `RecoveredChild`, violates `FoldReturns`: a recovered rule matches without a
  node, and the fold of the sequence around it asks `children.at()` for one
  (ResultType.h:464); `parse_ast` throws `out_of_range`.
- `RecoveredAlias`, violates `FoldReturns`: a rule with an action whose body is a
  recovered rule has a node without children, so that the body is folded from
  the rule's own node (ResultType.h:638), whose producer is the rule: what the
  comment there warns of, that folding from `node` itself would "recurse forever".
- `ThrowingSkipper`, the family of `skipper_throws`, also violates `SkipResumes`:
  `run_skipper` restores the flag in a plain statement (Context.h:391), which a
  `ParseError` out of the skipper passes.

And departures read while modelling, each with the input that shows it:

- `S <- +(a cut b) | a` on "a": `repeat_parse_impl` tests `loopCount < min_rep`
  before the cut (Combinators.h:162), so `+e` does not rethrow a cut made in its
  first iteration, although its comment says unbounded repetitions rethrow.
- `S <- 2*(-a)` on "": the loop ends at an iteration that makes no progress
  (Combinators.h:157), and then there were too few (:162), although the comment
  says between min_rep and max_rep times (:179) and two empty matches are two
  times. With `EmptyTwice` of `MCPeg` TLC violates `ParseAgrees`, and
  `RulesGiveMeanings`, whose rule for repetitions follows the code.
- `0*e` matches any number of times: the constructor accepts `max_rep` 0 as a
  bound (Combinators.h:189), the loop takes it for none (:154). With `ZeroTimes` of
  `MCPeg` TLC violates `ParseAgrees`. No family has the bound 0.
- `S <- &A B`, `A <- any`, `B <- A`: B adopts A's memoised node and renames it
  (NonTerminal.h:188), although a node is called an immutable
  record (Context.h:95). In the same way `parseAlt` stamps its branch on a node another alternation owns
  (Combinators.h:104).
- `S <- -(B a) (B a | B b)`, `B <- cut b` on "bb": a memo hit does not repeat the
  rule's cut (NonTerminal.h:119), so the second choice is not committed.
- `S <- -(A b) (cut A | b)` with a recovering `A <- b ";"`: an answer recovered in
  an uncommitted scope is replayed by the memo in a committed one, where no
  recovery is allowed (NonTerminal.h:144).
- `S <- a` on "b", parsed, then `take_error`, then parsed again from the same place: the
  memo repeats the failure without recording it again (NonTerminal.h:119), so the
  second parse returns false with no error to take, against Grammar.h:232. With
  `MaxParses` 2 TLC violates `FailuresReported`; `FailuresTold` excludes this caller.
- `S <- A b | A A`, `A <- (a cut b | b) ";"` with recovery, on "ab": the cut of the
  inner alternation evicts the entry of the rule around it, A recovers twice at
  one position, and the one error is reported twice; TLC violates `RecoveredOnce`.
- An alias adopts its target's node, so of the two only one hook fires: the
  start rule's own, else the one of the rule that built the node. A test knows
  this as a limitation (test/alias_action_test.cpp:180). `HooksFireInOrder`
  therefore demands no hook for each match of the result, only that there are
  no others, in order.
- `unreachable_rules` lists the skipper and the rules only it uses, which
  every parse runs. `UnreachableAreDead` is about parsing from the start rule.
- `g["a"] = g["a"]` makes the rule its own body: the test for it compares the
  addresses of two temporary handles (NonTerminal.h:451, :464).
- `offset_of` takes column 0 for the end of the previous line, and its failure
  value is also the answer for no offset.
- Characters wider than 32 bits are truncated in `escape_char`; token types and
  predicates without a display hook all show as one placeholder, so that two such
  predicates count as one failure in `NothingMerged`.

## 4. Proofs

`tlapm PegProofs.tla` and so on check them. The parameters are arbitrary;
the assumptions on them are named and TLC evaluates them on every run.

**FileSource** (`SourceProofs`; `FileSourceAssumption`: a positive page
size, the code's `static_assert`, and integer items), for every file and every
set of objects: `BuffersAlwaysMatch`, `StreamHasOneOwner` and the refinement
`FileSourceImplements`. The inductive invariant is the type invariant with
`BuffersMatchFile` and `OneOwner`, which covers the constructor that is still
running as well. The heart is `ReadCaches`, that a page read from an aligned
position holds the file's items for the range it records, and `PageStart`, that
the aligned page contains the item asked for.

**SourceMap** (`SourceProofs`; `SourceMapAssumption`: newline and return are
different items, and files are shorter than `size_t` can count), for every file and page size: `MapIsFileSource`, a step of
the map is a step of the source it reads, hence `SharedReadsAgree`; and
`LineContentAgreesOK`, that a line re-read after releases and evictions is that
of the text. Its invariant adds to FileSource's `MapInv`: the line starts found so far increase
and stay within what was scanned, and what `line_content` has collected is the
file between the line's start and the read position. `LookupsAgreeOK` and
`LinesAgreeOK` say that `locate`, `offset_of` and the lines are those of a
definition that counts the text's line breaks. They need `ExactInv`: the starts
found are exactly 0 and the positions after a newline scanned so far. With
them strictly increasing (`MapInv`), the index that `upper_bound` finds is
the number of line breaks before the offset.

**The Grammar** (`GrammarProofs`; `StoreAssumption`: `None` is no name and no address;
`NamesAssumption`: finitely many names), for any number of NonTerminals and
Grammars: `StoreTyped`, `SoleOwnerOK`, `NamesMatchPointersOK`, `SkipperLivesOK`,
`HandlesStayValidOK` and `ParseStaysInsideOK` from `StoreInv`, the conjunction of the
first four: none is inductive alone, as a move needs to know whose the
NonTerminals are to say what their bodies point at. For the analyses,
`CallTyped`, `UnreachableAreDeadOK` and `EdgesOnceOK` from `CallInv`, the invariant of a
graph search: the worklist is inside the marked set, the marked set inside
what the start reaches, and everything a marked rule outside the worklist names
is marked. That reachability is the least closed set is what makes the final
marked set all of it.

**The tracker** (`ErrorTrackerProofs`; `TrackerAssumption`: positions are natural
numbers; `FailingAssumption`: what a failure shows is made of characters that
`to_display` can tell apart, code points up to U+10FFFF or the values of a
narrower type), for any failures in any order: `TrackerImplements`,
`StrictlySortedOK` and `NothingMergedOK`. The refinement needs of `insert` only that it adds the item or
finds it there; the order needs that items are totally ordered by kind and text
(`TextTotal`, `TextTransitive`) and that inserting at the lower bound keeps it.
`NothingMergedOK` needs besides that the vector is the image of the furthest
failures (`FarInv`), and that two failures which differ are displayed differently
(`ShownAreApart`). That nothing is assumed of the escapes is its point: a
character's text is found again in any text that begins with it, whether it is
kept, escaped by name, written as `\x` or `\U` with its hexadecimal digits, or encoded in one to four
bytes (`Hex`, `Escaped` and the UTF-8 forms have a lemma each), so joined
characters can be taken apart from the front, and the quotes, the comma and the
dots of ranges and sets with them. A statement about every place of a sequence is proved from
the finite set of the places where it holds (lemma `UpTo`), since the
library's induction rules cannot be applied here.

**The engine**, for every set of rules, every grammar, every input and any
number of parses. The assumptions are `RuleAssumption` and `MachineAssumption`:
expressions are closed under children, unary operators have one child, grammars
define every rule they use, and `Absent` is no memo entry. Every inductive
invariant below was checked with TLC on the `engine` or `families` instance
before its proof.

*Positions* (`PegProofs`): `TypeCorrect`, `FailureRestores`
and `LexemesNeverSkip`. `TypeOK` contains the asserts of `reset`, `current` and
`at` (no position past the end). It is not inductive, and neither is
`FailRestoresPosition`: that a failed memo hit leaves the cursor in place depends
on what was stored, perhaps much earlier. The invariant `Inv` adds

- `MemoOK`: a failed entry ends where it begins;
- `StackOK`: for every frame, that its children are in range; that a rule's
  frame points at its own `LRFrame`, whose progress marker is at the frame's
  start as long as nothing has matched; that transparent callers (alternation,
  lexeme) were entered where their callee was; that a lexeme or skipper frame
  that saved the skip flag as on is inside no other;
- `ControlOK`: how the control point relates to the innermost frame;
- `FlagOK`: while the skip flag is on, no lexeme and no skipper is active.

`PegProofs` has one lemma per method of the Context, what it does to the cursor,
the memo and the scopes, then shape lemmas for a push, a pop and an edited top
frame, then one lemma per group of actions, each with one step per action. All
other proofs about the engine rest on `Inv`.

*Scopes and errors* (`PegScopeProofs`): `CutsBalance`, `LrMirrors` and
`LiteralsAbsent`. Each step is first reduced to what it can do to the stack
(`Shaped`: it stays, opens a call or closes one) and to the fields of the
Context it writes (`Writes`), so that an invariant on one field is proved for
the few actions that touch it. `MirrorInv` says in which order the rules'
frames lie on the LR stack, also between `lr_push` and `lr_pop`. That an
expected literal is absent needs the furthest position to be that of the items
on record in every state, memo hits and recoveries included (`Blames`).

*Trees* (`PegTreeProofs`): `TreesCover`. Nodes are shared between the memo and
several parents, and re-stamped by rules and alternations, so that a tree covers
its match cannot be said of the returned tree alone. `TreeInv` says it of every
answer in the memo, of the answer on its way up and of the children that every
active call has collected, in which a call's own unfinished node occurs nowhere
(`Built`). The proof is then that a step keeps span and children of the nodes
that no call is building (`Keeps`), whatever it stamps on them.

*Answers stay* (`PegCutProofs`): `AnswersStay`, for every grammar. A settled answer
(`Settled`: in the memo, its rule not in progress there) is never replaced. It
is forgotten only as a committed scope is left, if it lies before the cut, or
as a left-recursive head at its position grows. Outside rules the memo is
written only where a cut scope is left (`MemoUntouched`, `ScopeForgets`); a rule
writes its own entry, and by `MirrorInv` it is on the LR stack while it does.

*Under a condition* (`PegCutProofs`). The properties below are false for some
grammars, as the departures show, so each theorem names the grammars it holds
for. A set of expressions is closed when it contains its members' children and
the bodies of the rules they call; `SkipperCutFree` says that the skipper is in
a closed set without a cut, `GrammarCutFree` that skipper and start rule are.
Left recursion, recovery, lexemes and predicates stay without restriction.

- `SkippingResumes`: auto-skip is on again whenever the outermost lexeme or
  skipper is over, and `NothingEscapes`: no `ParseError` leaves `Grammar::parse`,
  both under `SkipperCutFree`. The invariant is `CalmInv`: the calls above one
  of an expression in a closed set without a cut (which the skipper is in, since
  any terminal may run it) stay in that set, commit no cut scope and throw
  nothing. Without the condition: `skipper_throws`.
- `NeverReentered`, under `RecursionCutFree`: no rule's body is entered again
  while the rule is active there. The condition, weaker than `GrammarCutFree`
  (`CutFreeRecursion`), is that every rule a parse can enter runs no cut
  (`Clean`) or is called by nothing that its body or the skipper may parse
  (`Unnested`): cuts stay out of recursion. All 1310 grammars of the run
  `families` meet it, 365 of them with cuts. A rule that cannot enter itself is
  not entered again because a body enters only what it may parse (`EnteredInv`).
  A rule without a cut keeps its memo entry as long as it is active
  (`CleanSeeded`): `clear_siblings_at` spares the rules on the LR stack, which
  by `MirrorInv` are the active ones, and `remove_cut` evicts only as a committed
  scope is left, while by `CalmInv` no scope inside the rule is committed.
  Without the condition: `cut_in_recursion`.
- `RecoveriesReported`, under `GrammarCutFree`: a step stores a recovered answer
  exactly when it appends a diagnostic, a key that has one keeps it
  (`Settled`), and only `take_diagnostics` empties the list.
- `FailuresTold`, under `GrammarCutFree` and as long as the caller does not parse
  again on a Context whose error it has taken (`KeepsItsError`): a failed parse
  leaves an error. The invariant is that whatever has failed, in the memo or on
  its way up, has left one (`Blamed`), except what a predicate is trying
  (`Trying`).

*Packrat parsing is sound* (`PegSoundProofs`). The theorems are about grammars in
which nothing is cut, each rule is parsed in one skip mode (`Parses`; else the
memo mixes the modes, `shared_lexeme`), and no rule calls itself before it has
consumed something (`NotLeftRecursive`: some set contains what may match
nothing, some relation the calls in place, and no rule is related to itself).
Skipper, lexemes, predicates, recovery and repeated parses are without
restriction. D is any set of judgements ("e matches from p to q", "e fails at
p") closed under the rules of `PegDerivations` (`InferenceClosed`), thus also the
least, what has a derivation. That some D is closed is `SomeClosed`.

- `AnswersSound`: whatever `parse()` returns, and every settled entry of the memo,
  is a judgement of D: with memo, shared cursor, in-place grow loop, recovery
  and what earlier parses left. `PackratInv` has three parts. `Sound`: every
  active call stands for a situation of the grammar, and its children so far, its
  best match and its cursor are partial derivations in D (`Waiting`, `Paused`,
  `Ready`). `Answered`: so are the settled memo entries. `Chained`: calls that
  have consumed nothing are related by the left-call relation. `Sound` needs that
  no seed is read as an answer, hence `Chained`; `Chained` needs that what consumes
  nothing may match nothing, so D is first cut down to its judgements that go
  forward (`Advancing`), which are closed again (`AdvancingClosed`).
- `SelfCallsAbsent`: no rule is called at a position where it is in progress.
- `NothingForgotten`: no entry ever leaves the memo, and no answer changes: there
  is no committed scope, and no frame becomes a head (`HeadsInv`).
- `SecondRunAgrees`: where D has one outcome for an expression at a position
  (`Deterministic`), the second run of a body in `parseImpl` matches what the first
  did, as its comment says of ordinary rules, and the loop ends. A body starts
  only where the memo has no entry (`NonTerminalEnter`), so by
  `NothingForgotten` a Context runs it at a position twice at most, in all its
  parses together: this is what makes packrat parsing linear.

By `RulesGiveMeanings` the judgements of the documented meanings, one for each
expression and position and so `Deterministic`, are a closed D in every such
grammar of the families; there the theorem says that the engine answers as
documented.

**Only model-checked.** Liveness: `ParseTerminates`, `AnalysisReturns`.
Agreement with a recursive reference, where what the definition computes for
every input needs induction over data: `ParseAgrees`, `MemoSound`,
`RulesGiveMeanings`, `FoldAgrees`, `FoldReturns`, `HooksFireInOrder`. All but the
last are also false for some grammars, as the departures show. What can be
proved of the first two is `AnswersSound`. Every other property of a passing run
is stated by a theorem.

## 5. Not modelled

- Move construction of a `Context` and `Context::from_file`, which only wires a
  `FileSource` (modelled on its own) to a Context.
- `Diagnostic::format`, the layout of messages and the text of `to_dot`; the
  `ParseError` class copies fields of a diagnostic and keeps no state.
- Display hooks of user token types: user code.
- A file that changes while it is read, and `fseek` or `fread` failing inside
  the file: the code asserts that they do not.
- Compile-time checks (`Concepts.h`, `action_matches`): only grammars they
  accept are in the runs. A body reassigned under an old typed fold escapes
  them (NonTerminal.h:442); what it then does depends on two C++ types.
- Tests and benchmarks.

## 6. Plan

Done: the Context, the engine and its two references, the typed fold, the
Grammar and its analyses, the file reader and the line map over it, the error
tracker; refinements for reader, map and tracker; theorems for every safety
property that does not compare with a recursive reference, and the soundness of
packrat parsing against the inference rules. Left:

1. A condition on left recursion only for `NeverReentered`: a rule that enters
   itself after consuming input, such as nested statements, may run cuts.
2. `AnswersSound` for left-recursive grammars, whose meaning is a least fixed
   point over seeds, and for cuts outside recursion.
