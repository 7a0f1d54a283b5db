# Formal models of sysgo

sysgo turns SysML v2 models into Go projects: an incremental SysML engine
(`engine/`), generators built on it (`gen/`), and a generator pipeline with its
adapters (`internal/`). This directory holds TLA+ models of its core logic, TLC
configurations that check them on small instances, and proofs checked by TLAPS.
Paths below are relative to the repository's root; line numbers are of the
modelled commit. `PROJECT.json` maps every definition to the lines it models.

## The parts of the system

| part | state | operations | what is hard about it | what makes it correct |
|---|---|---|---|---|
| string tables, `engine/text/{intern,file}.go` | map and slice behind an RWMutex | Intern / Add, Lookup / Path | check under the read lock, act under the write lock | handles identify strings, for good; calls look atomic |
| incremental engine, `engine/salsa` | revision, memo slots, dependency lists | Set, Read, Get | stale memos, backdating, cycles that come and go, unwinding half-computed queries | an answer is what computing from scratch gives; no needless recomputation; every Get ends |
| syntax trees, `engine/cst` | green arena, builder stack | StartNode, Token, FinishNode, checkpoints | deduplication of shared nodes, retroactive wrapping | lossless text, one node per shape |
| lexer and parser, `engine/parser` | position in the source, builder, errors | longest match; recursive descent with recovery | tokens that need two characters of lookahead; progress and nesting under error recovery | tokens tile the text; ends, loses nothing, builds balanced trees |
| typed syntax, `engine/ast` | – | views of nodes | optional parts and trivia between them | the views of a well-formed member say what was written |
| symbols and resolution, `engine/hir` | scopes, symbols, references | buildMember, AnalyzeUnits, Resolve, InheritedMember | malformed trees; parallel parsing; lookups through cyclic specializations and imports | same model for every schedule; ends |
| engine API, `engine`, `engine/project` | list of files, built model | AddFile, Build, views of symbols | – | – |
| loaders, `internal/adapter/sysml{api,file}` | page cursor, pages visited | Load | paging against a server, with links that lead anywhere and requests that fail | the whole model or an error |
| overlays, `internal/adapter/overlay` | JSON objects shared by reference | update, remove, copy | aliasing of what was merged | actions touch what they match |
| model graph, `internal/core/model` | elements by id, edges | Build, Resolve | map iteration order, containment cycles | one owner, deterministic |
| mapping to IR, `internal/core/mapping` | – | classification, names, types, methods | precedence of stereotypes, heuristics and type mappings; imports that are registered on the way | what stands in a package is generated in its context, once; the same output for every run |
| pipeline and writer, `internal/app`, `internal/adapter/osfs` | the project directory | Generate, Write, prune | partial failure, the user's files, paths that change policy | converges, idempotent, hand-written files survive |
| workflows, `gen/temporal` | the generated function's place, Temporal's history | GenerateWorkflows; activities, timers, signals | order of statements from three sources, forks, what ends in which order | the function does what the model asks for |
| templates, `internal/adapter/gotmpl` | – | Render | types that are qualified in one place and printed in another; file names that meet | files import what they use, and keep apart |
| contracts, `internal/adapter/openapi`, `gen/contracts` | – | the OpenAPI document, the transport adapter | inheritance in diamonds and circles; a document and an adapter that are made separately and have to fit | references resolve, the nearest attribute wins, the adapter implements the server |
| configuration and CLI, `internal/{config,cli}` | – | flags, defaults | – | – |

How they interact: the engine parses each file on its own into a green tree
(one goroutine per file in `hir.AnalyzeUnits`), builds symbols from the typed
views of all trees and resolves their names sequentially; the contracts are read
off the analyzed workspace, and refused if it has any diagnostic; `salsa` is the memo store for `hir.Database` under one mutex; the
string tables are shared by whoever wants ids across trees. The pipeline calls
its stages one after the other through the interfaces of `internal/app/port`;
only the writer touches the project directory, which it shares with the user.

## Modules

| letter | modules | models |
|---|---|---|
| A | `InternTable`, `InternAtomic` | `engine/text/intern.go`, `file.go`; `InternAtomic` is the table as its callers see it |
| B | `Salsa`, `SalsaSpec` | `engine/salsa`; `SalsaSpec` is the same service without a memo |
| C, H | `Names`, `Analyze` | `engine/hir`: lookups as operators, `AnalyzeUnits` as a state machine |
| L | `Contracts` | `internal/adapter/openapi`, `gen/contracts`, and the views of `engine` they use, over what `Analyze` leaves |
| D | `Generate` | `internal/app/pipeline.go` with `internal/adapter/osfs` |
| E, J, K | `Loader`, `Overlay`, `ModelGraph`, `Mapping`, `Renderer`, `LoadIR` | `internal/adapter/sysml{api,file}`, `overlay`, `internal/core/model`, `internal/core/mapping`, `internal/adapter/gotmpl`, composed as `Pipeline` does, up to the files |
| F, G, M | `Lexer`, `Green`, `Parser`, `Ast`, `Symbols` | the lexer as an operator on characters, `engine/cst` as operators on builders, `engine/parser` as a state machine over them, then `engine/ast` and the symbol builder of `engine/hir` as operators on the tree |
| I | `Workflow`, `WorkflowSpec` | `gen/temporal/workflows.go`: generated workflow functions and their execution; `WorkflowSpec` is what the model asks of an execution |

`MC*` modules and `.cfg` files give the constants their values for TLC;
`*Proofs` modules hold the theorems. `Lists` has what is said of a sequence of
anything (that it is one, and `Cons`, which is `Head` and `Tail` put together),
and `ListFacts` what is proved about sequences once: concatenation, prefixes,
`FlattenSeq`, and induction on a length in the form of a least counterexample.

**InternTable.** One `Intern` (or `FileSet.Add`) call is one pass of a
goroutine through `Call, RLock, Probe, RUnlock, Announce, Lock, Recheck,
AppendStr, Index, Unlock, Return`, one step per lock operation or access to
shared state. `ids` and `strs` are the fields of the Go structs; handles count
from 0 as in Go. `Announce` and `Lock` are the two halves of Go's
`RWMutex.Lock`: a writer that has announced itself holds new readers back.
`issued` is history. `InternAtomic` has no locks: a call takes effect in one
step between call and return, and `Atomic` is the refinement mapping.

**Salsa.** The fields of a Go slot are functions from keys. The mutual
recursion of `getDerived`, `ensureFresh` and `anyDepChanged` is a stack of
frames that verify or compute a query. A compute function is a parameter,
`Instr(query, seen)`: the next thing it does, given the values it has read.
So the theorems hold for every pure compute function. `Db.Read` holds the mutex
from `Begin` to `End` or to a panic that unwinds it (`Unwind`: cycle,
cancellation, a compute function's own panic); what an unwound read leaves in
the slots (`computing` flags above all) stays, as in the code. `observed` is
history: what a memo's dependencies were when it was computed. `SalsaSpec` has
only the inputs and the last outcome, and evaluates from scratch.

**Generate.** The stages of `Pipeline.Generate` are steps any of which can fail
(`Stop`, also the kill of the process); they touch nothing on disk before
`write`. `Writer.Write` goes file by file (`Skip`, `Truncate`, `Fill`), then
`StartPrune`, `Prune` for every path of the walk, `Finish`. Between runs the
user edits or deletes files and changes the model. A file's content is its text
and whether the DO-NOT-EDIT marker is in its first lines. What the templates
render for a model is a parameter, `Files(model)`: any list, with repeated
paths and paths that change policy.

**Names, Analyze.** A parsed file is the sequence of its members in the order
of `buildMember`, with the position of the member around each. `Names` has the
lookups (`Member`, `Absolute`, `Resolve` with its imports, `FindRecursive`).
`Analyze` has the goroutines of `parseUnits` with their semaphore and WaitGroup
(`Spawn`, `Parse`, `Release`, `Finish`, `Wait`), `Build`, member by member (a symbol has
its children and its imports in lists, as `newSymbol` and `buildMember` keep them), and then the passes of
`AnalyzeUnits` in their order, scope by scope and clause by clause;
`InheritedMember` is a walk with an explicit stack and a `seen` set. Ranges and
guard texts are carried along by the code and left out; so are kinds, keywords
and annotations but where `Contracts` reads them.

**Contracts.** `Emit` follows an analysis: it refuses a workspace with
diagnostics, and otherwise makes the document (`Paths`, `Schemas`) and the
adapter (`RestOps`, `DomainPort`) with the operators named after the functions
of `mapping.go`, `openapi.go`, `errors.go` and `adapter.go`. A schema is a
record of its form and its properties; a definition is known by its qualified
name, and a path is a sequence of segments. `Accepted` and `Compiles` stand for
oapi-codegen and the Go compiler, which are external: what they require of the
document and of the two generated files together. Names are spelt in
characters (`Letters`) where two tools make Go names of them: `Exported` and
`GoModelType` are those of the adapter, `CamelCase` and `TypeName` those of
oapi-codegen. Texts, descriptions and names in quotes are left out.

**Loader, Overlay, ModelGraph, Mapping, Renderer, LoadIR.** `LoadIR` composes
the others in the order of `Pipeline`: load, overlay, graph, IR, files. In
`Loader` a source is a decoded file, or a server: its commits, and a page and
links for each URL. `LatestCommit`, `FetchPage`, `PageRepeats` are turns of the
code's loop, `RequestFails` any failure of a request. An element of a model's
JSON is a function from its fields to values; a field that holds a nested
object has its address in `objects`, because Go's maps are references and two
elements can hold one object. `UpdateElement`, `RemoveElement` and
`CopyElement` are the bodies of the loops of `applyUpdate`, `applyRemove` and
`applyCopy`, one element per step; `NextAction` is what follows a loop (pruned
references, appended copies). A target is the disjunction of conjunctions that
`parseExpr` makes of it. `ModelGraph` has the operators of `resolve.go` and
of `helpers.go` on a graph; `Mapping` what `mapping.go` makes of one element:
its name, and Go types with their prefixes, packages and imports, for fields,
methods, DTOs and ports. `Apply`, `IndexElements` and `ResolveElement` (for the
elements in any order, Go's map order) build the graph; the calls of `mapping.go`
are `todo`. Last, a configuration is chosen and `Renderer` gives the list of
files: the path of each, whether it is scaffold-once, the packages that it
imports and those that its text uses. A Go name is the sequence of its words, so
that names that differ in case or underscores only are one name, as file names
have it. `requests` are the imports that `resolveMeta` and `resolveGoType` register while
elements are classified; a path that is known is not registered again (`NewPaths`), and of
two paths under one selector the last counts (`Extern`). `MaxWalk` bounds how far
`descendants` is followed, which a circle would have it do without end. Left out are user
templates, layouts other than the default, a `*` behind `map[`, and whether two imports of
one file have the same package name. Two entries of `additional-imports` with one path are assumed away
(`OptionsAssumption`).

**Lexer, Green, Parser, Ast, Symbols.** A source is a sequence of characters of
the classes that the lexer tells apart; a word is one letter, since where a
word ends is all the lexer decides, and keywords are told by their text. A
builder is its arenas and the stack of open nodes; `Intern` is the
deduplication. In `Parser` each function of `parser.go` is a sequence of
instructions (bump, open, close, test, loop, checkpoint, wrap), and `todo` is
what the functions on Go's stack have still to do; the sequences are read off
the Go functions top to bottom. `lookaheadMemberKeyword` is an operator on the
tokens, as the code's is a scan that changes nothing. `Ast` has one operator for
each view; what Go returns with an `ok` is a sequence, empty or of one element.
`Symbols` is `buildMember`: it makes of a file's tree the sequence of members
that `Analyze` takes as a parameter.

**Workflow, WorkflowSpec.** A workflow is its body, the sequence of its items
(step, perform, signal, timer, loop, control node) in source order, its
successions, and the guards that hold for the arguments at hand.
`GenerateWorkflow` makes of it the statements of the Go function: `start`
(ExecuteActivity, or the timer of a Sleep), `get`, `receive`; loops are
unrolled. The actions execute that program; what the server does is external
(`End`, `Send`). Temporal replays the function after a crash; it reads nothing
but its arguments and recorded results, so it comes back to its place, and
replays are left out. `WorkflowSpec` does not know the program: it has the
occurrences that are `Due`, what each has to come after (`Before`), and begins
any that is ready. Arguments, activity options and Go names are left out; an
activity that Temporal refuses is one that fails.
`Supported` names the bodies for which the generator keeps its promise; what it
does with others is listed below. Bodies of loops alone, and forks with accepts
and loops in them, are among the supported.

## What the runs check

| run | states | shows |
|---|---|---|
| `string_tables` | 19 541 | three goroutines enter two strings, slot 0 reserved and not in the map: handles identify strings, resolve for ever, map and slice agree outside the write lock, every call returns, and the table refines `InternAtomic` |
| `salsa_acyclic` | 203 030 | three edits of an acyclic program: fresh memos are current, answers are current, recomputation is minimal |
| `salsa_cyclic` | 359 228 | a cycle that comes and goes, a panicking query, cancellations: verification's recursion is bounded, answers are those of an evaluation from scratch (`SalsaSpec`), every Get ends |
| `salsa_poisoned` | violation | a cancelled compute function makes later reads report a cycle that is not there |
| `generate` | 21 388 | five models, user edits, failed runs: runs converge, reruns change nothing, hand-written files survive |
| `generate_torn` | violation | a scaffold cut off inside `os.WriteFile` stays empty for ever |
| `analyze` | 89 104 | 675 workspaces: all units parsed into their places, clauses get what they mean, file order does not matter, the analysis ends; of those with contracts, what the document refers to is in it, the nearest attributes win, and the adapter fits the server exactly if no two operations or actions collide and both sides spell their names alike |
| `load_ir` | 44 966 | files and servers, four models with documents of up to two actions, one rich model with documents of its own and six configurations, any visiting order: a model is loaded whole or not at all (unless a server itself cuts it short), elements share only what the document gave them, updates stay within that, removes keep the rest of the graph, the output does not depend on the order, each element is generated once, in the context of its package, files import what they use and keep apart, loading ends unless the walk stands in a circle |
| `overlay_leak` | violation | an update changes an element it does not match |
| `parser` | 252 946 | some 7 800 texts: no panic of the builder, tokens as long as they can be, lossless, progress in every loop, cursors correct, well-formed members get the symbols they were written from, and any file can be analyzed |
| `workflow` | 141 635 | 3 319 workflows: the generated function refines `WorkflowSpec`, begins all steps of a fork before it waits for one of them, and returns unless it waits for a signal nobody sends or for an activity that it began and that never ends |
| `parser_stuck` | violation | a succession statement behind an annotation or a visibility is dispatched without end |

**Bounds, and why they are enough.** *string_tables*: the race of
`Intern` needs two goroutines with one string; a third goroutine and a second
string add every mix of hits and misses. Handles and strings are never
removed, so the table is full after two. Slot 0 is reserved, as in `FileSet`;
the theorems hold for an `Interner`, where it is a string of its own, as well. *salsa*: a stale memo needs an edit, a verification that
stops early and a second edit; the run has three edits of two inputs with
values 0 and 1. The programs have what the algorithm distinguishes:
data-dependent dependencies, a query shared by two, a result that stays equal.
The cyclic run has two edits, enough to close a cycle over old memos and open
it again. `MaxRevision` bounds the edits; nothing else is cut. *generate*: a path has one of the
policies generated, scaffold-once, not rendered, not Go, and the five models
make it pass between them; conditions of the code concern one path at a time,
but for the order of the list, so three paths do. *analyze*: workspaces are all pairs of members
over two names (alone, or with two fixed files that inherit in circles), a file with one import behind a
nested one, and two deep trees; `Cap` (the number of processors) is 2 with up
to three units, so the semaphore does fill up. For the contracts there are
packages of two REST operations behind the bundled ones, one of them with
every kind of signature (none, scalar, inherited, empty, `inout`, bundled,
several), both in one place or not, with unknown methods, with error models (one of them
naming the default) and without, a definition with the name of the default, performing one action, two of one name, or none; and packages, operations and actions that differ in case
or have underscores (`API`, `api`, `A_PI`; `place`, `Place`, `_place`, `show_all`; `buy`, `Buy`), in bodies, operations and ports; and four definitions
that specialize each other in a diamond, in both orders, circular or not, whose
types contain each other. Two operations are what a collision takes, and a
third level of specialization is where the order of the search shows.
*load_ir*: the four models have containment
by memberships, in derived lists and in both forms, a library, a nested
package, a typing and no package at all; the twelve actions update (with a
string, a truth value, a nested object), remove and copy elements of every
kind, memberships included; one of them makes an element its own child, and `MaxWalk` is more than any walk without a circle takes. Two actions are what it takes for an action to
meet the results of another: a removed element copied before, a copied copy, an
object that was shared. The rich model has every class of element in one
context, with none or one of ten actions, which move elements to another class, remove them, or give
them types from outside (one more selector for a path, one more path for a selector, a map, a pointer, a selector that
nothing registers), and six configurations: the default, with dependency injection and one command, with
groups of contexts and repositories in the domain, with a group that names no
context, with most emitters off, and with a path imported under another selector. Five files and eight servers cover the forms of documents, pages
with next links, without, with links back or into nowhere, and a request can fail at each page; `PageSize` is 3
rather than the code's, so that pages are full or not.
*workflow*: all bodies of up to three items of eleven
forms, and forks of two or three branches of three forms between two other items; one
guarded succession, with an unguarded one to the same or another step. Three
items are a pair and something between them, which is what an order can get
wrong; a fork and join that matter need six. A signal that may arrive twice
(`MaxSignals`) meets up to five accepts. *parser*: all strings of up to three to
five characters over alphabets that take part in a few kinds of token each, all strings of up to
four tokens over alphabets that take part in one construct each (three behind
an opening such as `transition` or an action's brace), and well-formed members in all combinations of
their optional parts, tight and, up to 20 tokens (`MaxCommented`) and if no expression
or multiplicity is among them (`Textual`), with a comment in every place. Lookahead is two characters, or one construct, so what
can go wrong shows in four or five.

**Fairness.** *InternTable*: a goroutine that can step does (weak fairness), and
one that waits for the mutex gets it if it becomes available again and again
(strong fairness on `RLock` and `Announce`): Go's RWMutex queues. *Salsa*: the
goroutine inside `Read` keeps running; nothing is assumed of clients that set
or cancel. *Analyze*: weak fairness of the main goroutine and of each worker.
*LoadIR*: one goroutine that waits for nothing
but requests, which end or fail (the client has a timeout), keeps running. *Workflow*: the worker goes on with a function that can step.
Nothing is assumed of the server and of clients: an activity's attempts have a
timeout, but its retries no limit, and nobody has to send a signal, so `Returns`
names what the function may wait for. `Generate` and `Parser` assume none: a run may always be killed, and the
parser's promise to end is checked as a safety property, that no loop begins a
round at the token where the last began (`LoopsProgress`). Between two loop
tests every step shortens `todo`, so that is what termination hangs on.

**Deadlock** is checked for InternTable, Salsa and Generate, which go on for
ever. Analysis, parsing, loading and workflows end.

## What is proved

Each theorem is for every value of the constants, under the named assumptions
of the module.

- **InternProofs.** `Invariance`: `IInv` is inductive. It adds to `TypeOK` that
  the locks exclude each other (`LockInv`), what is known of a call at each of
  its program points (`CallInv`), that issued handles are in the slice
  (`IssuedInv`), and that map and slice differ at most by the one append in
  progress (`MapInv`, `SliceInv`): that is what the second look under the write
  lock is for, and without it `TableAgrees` is not inductive. From it
  `HandlesSound`, `LookupSound`, `TableSound`; `Refinement`: `Spec` implements
  `InternAtomic`, for any number of goroutines and strings.
- **SalsaProofs.** `TypeCorrect`, `Invariance`, `FreshIsCurrent`,
  `AnswersCurrent`. `FreshMemosAreCurrent` is not inductive: a memo of an
  earlier revision may become fresh later. `IInv` says of *every* memo that it
  is a run of its compute function on the values it observed (`MemoInv`), and
  that a dependency that has not changed since still has the observed value;
  of the stamps that none is later than the revision (`StampInv`); and of the
  frames that a verifying one has found its earlier dependencies unchanged and
  that each frame works for the one below (`FramesInv`, `LinkInv`). The
  assumption is `InstrAssumption`: compute functions are pure and have not read
  a key twice. `Minimality` (`RecomputeIsMinimal`) needs of a memo last verified
  in the revision before that a dependency changed in this one differs from what
  was observed (`MinInv`): backdating keeps the change stamp of an equal value,
  and the value is never younger than its verification. `RecursionBounded` bounds
  the stack of `getDerived`, `ensureFresh` and `anyDepChanged` by twice the number
  of queries, if there are finitely many: recorded dependencies have no cycle
  (`RankInv`), so that verification alone does not come back to a query, and
  a query that is entered a second time takes the way it took the first time,
  verifying only (`ReentryInv`), so there is no third.
- **GenerateProofs.** `TypeCorrect`; `Convergence` and `Idempotence`, assuming
  that no write is torn (with torn writes `generate_torn` refutes them);
  `HandWritten`. `IInv` describes, path by path, a directory in the middle of a
  run as a function of the directory the user left: paths of no file
  (`ForeignInv`), paths that have only scaffolds (`ScaffoldInv`), the path being
  written (`WritingInv`), paths the writer has passed (`PassedInv`). It holds
  through failed attempts, because an attempt after a failed one answers for
  the same directory.
- **AnalyzeProofs.** `UnitsParsed`, from `ParseInv` (the WaitGroup counts the
  workers that have not called Done, the semaphore those inside, files are
  stored where their worker says). `RelationsSound`, from `ResolveInv`: the
  supertypes are complete before the first walk (`SupersInv`, `OrderInv`), a
  type that has been seen and is no longer on the stack has been searched with
  all its supertypes (`WalkInv`), so that a walk that ends without a find has
  searched a set that is closed under supertypes, and the ancestors are inside
  it (`AncestorsWithin`). `AdapterAlwaysFits` (`AdapterFitsServer`), for every workspace: the
  lists of the tree hold members of the files, and in the end all of them (`TreeInv`); an
  emitted document stays what the model makes of it (`IssuedInv`), since nothing moves once the
  passes are done. In the document is the last operation of each place (`PathsFacts`), in the adapter are all;
  so a method without its operation in the interface is one that another has overwritten, and the
  ids, which the code generator wants unique, tell which. Where a body is bound, the definition
  is the one the document refers to (`BoundFits`), and its type is the one of the server if both
  spell it alike, which is what `TypesFit` says, and only then; `MethodsFit` says the same of
  methods, and `ActionsFit` of the port. Of the two spellings it takes only that `CamelCase` leaves no separator, and is
  `Exported` where that has none (`CamelCaseFacts`). `ReferencesAlwaysResolve` (`ReferencesResolve`),
  for every workspace: in a whole tree (`IsTree`) children are behind their parent, so that the recursive functions of
  `FindRecursive` (downward) and `ResolveSimple` (outward) exist, and whatever is looked
  up is a symbol of the tree or nil (`ResolveIs`). The pass over the relationships leaves no clause out
  (`KnownInv`), so the type of a parameter is a symbol, and a definition among the
  symbols is a component unless it becomes none. `WorkspacesAssumption` says of
  parsed files what `FilesCanBeAnalyzed` checks of the parser's: members, symbols and imports, stand in symbols
  before them, and no name is empty.
- **LoadIRProofs.** `SharedByUpdatesOnly` and `UpdatesStay`, for every model
  and every overlay document, where `InputsAssumption` (of `Loader`) says what
  decoding JSON gives: maps of their own for the objects of a document, of a file
  and of each page. `ShareInv` says that addresses held are addresses of the
  memory, and that two elements hold one address only if the document has it:
  among the elements, among those that a remove keeps and between these and the
  elements it has not come to, among the copies, which are given new addresses,
  and between them and the elements; and, while a server is asked, between what has come
  and the pages still to come. `RemovesKeep` (`RemovesKeepTheRest`), for every model and document
  whose arrays are lists (`ListsAssumption`): while a remove is under way, what it has put aside
  is, of the elements it has come to, what it does not match, and the identities noted are
  those of the others (`KeptInv`, `Sifted`). What pruning takes from a list of references is therefore
  nothing that the graph would have found (`PrunedList`), and the children of an element, the
  first of each (`Once`) of what is known (`Only`) of a derived list or of the hops, are
  those that it had, without what is gone (`PrunedHops`, `PrunedChildren`), also
  where a derived list runs empty and the hops take its place, since the two agree. `LoadingIsWhole` (`LoadIsWhole`), for every server: the pages
  visited are a way from the first page of the commit along the links, without
  repetition, and what has come is what they hold (`WayInv`). Only the last page can have cut
  the load short: the page at hand leads back to one that was fetched before, or is full, leads nowhere and
  was still read in (`CutShort`). `ContentAssumption`
  says what a server means by its pages: those from the first to one that is not full and links
  no further hold the commit. `ImportsAlwaysFit` (`ImportsFit`), for every model and every
  configuration of the schema (`OptionsAssumption`: layout directories have
  defaults, `load.go` 81-85, `cmd` is one of four, groups have names of their own, 137-139, and additional imports paths of their own): `FitInv` says that what has been rendered
  is `Render` of the contexts under one of the configurations, and that a context with a use
  case has a port, which classification gives it. `RenderedFiles` says what a
  rendered file can be, form by form, and which files are there whatever the others
  are; the forms fit by themselves (`ContextFilesFit`), and a file that is
  imported is found among those that are there (`ContextImportsFound`). That a type from outside finds
  its import takes one more fact: every import that a type comes with has been asked for. `AskedInv` says so of
  the types of items that are made, `WalkInv` that what is still to be classified is known and that
  calls keep their place; then some request has the path, and where selectors
  and paths agree (`ImportsAgree`) the selector of the type finds that path.
  `FilesStayApart` (`FilesKeepApart`), for every model and every two of its configurations,
  where names are sequences of words (`WordsAssumption`), since only then is
  it known what a suffix does to a name: `FitInv` also says that items have
  sequences for names. The files of a context are classified by places, each of a directory
  and a class of items (`Placed`); two places are apart if they differ
  in the directory or in the class, whose names differ in all forms
  (`FormsDiffer`). Contexts are kept apart by their slugs, binaries by their
  names, and sorting keeps all of this because what is sorted is taken from different positions
  (`ArrangedEmbeds`). A path scaffolded once under one configuration
  and generated under another would be both, of one context, in places that are
  apart (`KeptApart`).
  `OutputStable` (`OutputIsStable`), for every model, overlay and order of Go's map: `StableInv` says
  that while the children are resolved, the owner of an element is, of the elements visited
  so far that contain it, one, if there is one, and that items have the fields which these
  owners give them. At the end all have been visited, and where no element
  stands in two others that leaves one choice (`VisitedIsContainment`).
- **ParserProofs.** `NothingPanics`: for every source, no call of the builder
  panics, at any point of a parse. `NeverPanics` speaks of the next
  instruction; what is inductive (`Balanced`) is that all that is still to be done
  fits the open nodes and checkpoints, layer by layer: the rest of a function, then the end of its
  node or of what it wraps, then what fits the nodes below (`Fits`). What the
  functions of `parser.go` do is `Plain`: it closes and wraps what it has opened and
  marked itself, however its tests come out; only `ImportName` returns from its
  middle, and its parts are listed. `Plain` and `Fits` are the largest sets that
  their parts stay in, which takes no induction over instructions.
  `NothingIsLost`: for every source, tokens and unlexed rest
  make up the source at any time, and the text of a finished tree is
  the source. The lexer takes at least one character and no more than there are
  (`ScanFacts`). The text of a node is that of its children, which come before
  it in the arena, so that arenas grow without changing texts, and the builder's
  operations add the text of a token or none; hence `Told`: the text of the open
  nodes, from the bottom up, is that of the tokens up to `pos`. And the
  parse ends only when all have been consumed (`Ending`): the last loop of
  `SourceFile` stops at EOF alone, and an early return drops nothing of it.
  `CursorsAreRight` (`CursorsSlice`): for every source, every cursor of the finished tree stands
  where its text does. A node is as wide as its text is long (`Wide`), since `TotalWidth`
  is the length of the children's text and no text changes later; and a child of a
  cursor that stands right does too (`ChildStands`): its offset is that of the cursor
  and the length of the texts before it. Children come before their node in the
  arena, so that the recursive function of `Cursors` exists and every cursor is reached from the root.
- **WorkflowProofs.** `WorkflowIsImplemented` (`Implements`): for every workflow
  that `WorkflowsAssumption` allows (its body is a sequence, its signals are
  known, loops have counts, and it is `Supported`), the generated function
  refines `WorkflowSpec`; `ParallelStepsAreTogether` (`ParallelStepsRunTogether`). First, about the
  generator alone: the program is orderly (`IsOrderly`). Each occurrence has one
  statement that begins it and one that waits for it, which pass exactly if the
  item is wanted, and before the first there is one that waits for each
  occurrence that has to come before. `OrderedBody` goes through the source in
  order because performs come last in the source too, every item is emitted as
  a block (`ItemBlock`), the branches in the place of the first; what comes
  first and is not parallel has its place first (`PlacesFollow`), since what is
  between the only fork and the only join is parallel. Then, about executions:
  `ExecutionInv` says that what has begun and what has succeeded is what the
  statements passed so far say, so that a `start` or `receive` of an orderly
  program is a `Begin` or `Accept` of the specification; a signal is received
  only if more have arrived than were accepted, because each accepted one was
  received at a place of its own (`AcceptedAreReceived`).
- **ListFacts.** Lemmas only, about sequences of anything, since what the children of a
  node or the elements of a page are is not known by a set, and the library's
  theorems speak of `Seq(S)`: concatenation, flattening, and that `Arranged`
  (of `Lists`, which stands for Go's `sort.Slice` as an insertion, defined by a
  function rather than by the library's `SortSeq`) keeps what there is.

Assumptions on constants are those that the modules declare (as
`SourcesAssumption`, that a source is a sequence of characters), and the runs
evaluate them.

Only model-checked: liveness (`CallsReturn`, `GetsEnd`, `Terminates`, `Ends`, `Returns`);
what takes induction over recursive definitions that a proof cannot unfold:
`ReadsAreFromScratch`, `NearestAttributesWin`, and what `Symbols` makes of a tree (`MeaningRoundTrips`,
`FilesCanBeAnalyzed`); what is defined by filters, folds or a descent along containment that a proof
cannot unfold (`GeneratedOnce`,
`FileOrderDoesNotMatter`); `TokensAreLongest`, whose reference definition is the
operator of the run; `LoopsProgress`, which `parser_stuck` refutes and the run
`parser` therefore checks where no succession has a prefix.

## Where code and documents disagree

Each is a run that violates what the quoted line says; see `findings` in
`PROJECT.json`.

- `salsa_poisoned`: `ensureFresh` does not clear `computing` when it is
  unwound, so a query whose first computation was cancelled is "cyclic" for the
  rest of the database's life.
- `generate_torn`: a scaffold-once file that was truncated and not written is
  taken for a hand-written one.
- `overlay_leak`: `mergeInto` assigns the nested objects of the document
  itself, so an update of several elements makes them share one object, and a
  later update of one of them changes the others.
- `parser_stuck`: `Parse` does not return on `private first A then B;`.

Noticed, and without a run of their own:

- The README's "prunes stale generated files" (72-73) is true of Go files with
  the marker only; an OpenAPI document stays (`writer.go` 102).
- "A guarded succession targeting this step runs it conditionally"
  (`workflows.go` 117) is not true of the branches of a fork, which are emitted
  without their guards (98-104), nor of `perform` steps, which have no name to
  look a guard up by (230-235). A second fork is merged with the first
  (`forkJoinSpan`), so that its branches run before what stands between the
  two; `perform` steps come last, not "in declaration order" (18, 246-247);
  successions within a fork, or against the order of declarations, are ignored
  ("succession → sequential activity calls", `specs/TEMPORAL.md` 80).
  `Supported` excludes these bodies.
- Of what is between fork and join only steps are "parallel activity futures"
  (`specs/TEMPORAL.md` 81). Accepts and loops are emitted where they stand
  (`workflows.go` 72-96): `fork; accept x; action c; action d; join` waits for `x`
  before it begins `c` and `d`, and `fork; action c; accept x; action d; join` for `c` and `d` before it asks for `x`.
  `ParallelStepsRunTogether` is about steps alone.
- A workflow that has loops but no step of its own sets no activity options
  (`workflows.go` 51), without which Temporal refuses its activities.
- `RunWorker` returns when a worker does not start and leaves those running
  that did (`worker.go`).
- `findRecursive` is "breadth-first" (`resolve.go` 647-648) only in the first
  level below base: of `A { B { D { C } } E { C } }` it finds `A::B::D::C`.
- "Nested packages become their own contexts" (`mapping.go` 75), and their
  elements are generated in the contexts of the packages around them as well,
  because `descendants` is transitive. In the same way a library package inside
  of a package is not left out. `GeneratedOnce` leaves out what stands in several
  packages or in a library.
- If two elements contain a third (a copied package keeps its children), its
  owner is the one that Build visits last, and a `type-mapping` for its
  qualified name may apply in one run and not in the next.
- `descendants` and `QualifiedName` do not end on a circle of containment, which an
  overlay that updates `ownedElement` can make. If the circle is reached from a root the walk overflows the
  stack (`Ends` excepts it); if not, all in it is dropped without a word.
- For `@A perform x;` the `@` is bumped in place of the keyword;
  `parseErrorToken` may consume the `}` that would have closed the body around
  it.
- `fetchElements` pages by "the RFC 5988 "next" Link header when present, else
  page-number fallback" (`loader.go` 68-69): there is no fallback, and a full
  page without a link ends the load as if it were the last (`CutShort`).

About syntax trees:

- The text of `Expr` and `Multiplicity` has its "surrounding trivia stripped"
  (`nodes.go` 254-290) of blanks only; comments, which are trivia (`kind.go` 181-190), stay.
  `MeaningRoundTrips` therefore has no comments in members with such texts.
- `first A;` gives `A` as the target of a succession, not as its source, and
  `accept s : Sig` resolves `s` rather than `Sig`.
- Statements outside of the body of a declaration are parsed and dropped.

About rendered Go code, which `renderer.go` promises to compile:

- The types of port methods are qualified for the HTTP handler and not printed
  in it: an import that is not used, which Go rejects (`ImportsFit` excepts
  `http_handler`). `splitPrefix` strips one prefix and no map, so `[]*pkg.T` and `map[string]pkg.T` lose their
  import (`Hidden`). `registerImport` does not register a path that is known, so of `money.Money` and `m.Cash` with one
  path the second is not imported; and of two paths under one selector the last is imported for both (`ImportsAgree`). Packages are compared by their names, so a layout whose ports stand in
  a directory called `domain` loses imports, too (`PackagesDiffer`). Types of other contexts are not qualified at all, and a domain field
  whose type a port declares makes an import cycle.
- `adapters: full` does what `scaffold` does, and the regions `cmd` and `ports`
  of a layout are ignored.
- Paths can meet: an aggregate `X` and a type `XFactory`, a service `X` and a
  type `XImpl`, two contexts with one slug, or a layout that puts the driving ports where other types are. The last file wins
  (`FilesKeepApart` assumes that there are none: `NamesAreClear`, `LayoutIsClear`).

About contracts:

- Two operations with one path and method overwrite each other in the document
  without a diagnostic, while the adapter keeps a method for each; a method that
  is no HTTP method counts as GET. Domain actions of one name in different
  packages share a method of the port.
- `exported` (`adapter.go` 202-207) makes one method of operations `buy` and `Buy`, and `Place_order` of
  `place_order`, where oapi-codegen has `PlaceOrder`. `goModelType` returns "the Go type name oapi-codegen
  generates" (193-195) only for packages and definitions that begin with a capital and have no underscore:
  `api::Order` is `apiOrder` there and `ApiOrder` in the server. `AdapterFitsServer` says that these and the
  two collisions before are the only ways in which the two files do not fit.
- `paramSchemaType` returns a definition "that becomes a component schema"
  (`openapi.go` 258-259) without looking: one without usages of its own (inherited
  attributes do not count), an operation, or a bundled one becomes none, and
  the document has a reference to nothing, which oapi-codegen refuses
  (`BecomesNone`). So does a `schemaRef` of `@ErrorModel` that is not qualified,
  as in `TestErrorModelOverride`; component keys are qualified.
- A `schemaRef` that names the default, `ProblemDetails`, does not put it into the
  document (`errors.go` 50-58): if no operation uses the default by saying nothing, the reference
  is to nothing, or to a definition of that name.
- The default takes the place of a definition called `ProblemDetails` at the top level
  (`openapi.go` 116-118), whose attributes are then in no schema, and definitions of one
  qualified name overwrite each other's schemas (`UniqueNames`).
- Action definitions with parameters become component schemas of their own.

## Plan

Done: A to M, and the proofs above. What would come next:

- **Models**: other layouts in `Renderer`; activities,
  handlers and workers of `gen/temporal`; configuration defaults; Generate
  over the files of `Renderer`.

## Not modelled

Text sizes (`engine/text`: arithmetic on offsets that panics on wrap-around),
`Inspect`, `Format` and printers (they traverse and print), user templates and
the text of all that is rendered, configuration (`internal/config`:
validation against a schema, and defaults), the command line (I/O and wiring),
and the API's other views (each copies a field of a symbol). `Generate` takes the
list of rendered files as a parameter, which is more than `Renderer` can
produce: its theorems are about any list.
