# Verification of code-graph-parser-go

TLA+ models of `parser-go`, the Go parser of the code graph: a process that reads
parse requests as JSON, loads Go packages, builds a `GraphDelta` of packages, units,
functions and relationships, and, for incremental requests, asks one `gopls serve`
process which types implement what. Each module follows the source it names; the
models are checked with TLC on small instances, and the safety of everything between the
request loop and gopls, of package loading, of the graph and of what becomes of gopls's
answers is proved with TLAPS for all values of the constants.

`PROJECT.json` maps every definition to the lines it models.

## 1. The system

```
 engine --JSON--> main.go loop --> TaskSession.Parse --> load.Packages        (ModuleRoots)
   (TaskSession)      |                  |
                      |                  +--> nodes, calls, inheritance,
                      |                  |    implements, overrides           (DeltaBuilder)
                      |                  +--> gopls queries --> Session       (BatchQueries)
                      |                                            |
                      |                          document cache    |          (DocSync)
                      |                          column conversion |          (Positions)
                      |                  |                         v
                      |                  |                    lspServer       (LspClient)
                      +--- close() ------|-----------------------> | stdin/stdout
                                         |                         v
                                         |                   gopls (external)
                                         +--> answers --> relationships       (Implementations)
                                         +--> endpoints and their functions   (Endpoints)
```

| Part | State it keeps | Operations | Hard about it |
| --- | --- | --- | --- |
| `gopls/rpc.go`, the LSP connection | `nextID`, `pending` channels, `writeMu`, `done`, the pipes | `start`, `initialize`, `request`, `notify`, `write`, `readLoop`, `handleServerRequest`, `failPending`, `removePending`, `close` | goroutines share one pipe; gopls answers in any order, asks back, dies; one exit value for many waiters; a deadline on `shutdown` |
| `gopls/client.go`, `Session` | `Session.mu`, the pool of a batch | `Open`, `Implementations`, `Close`, one-shot `Client.Implementations` | order of results, sizes and concurrencies at their limits, goroutines outliving a batch |
| the document cache (`openFiles`, `fileContents`) | `files`, `versions` | `didOpen`, `didChange`, reading of target files | look, read and store with the lock released in between; edits between requests |
| `gopls/position.go`, columns | none | `byteColumnToUTF16`, `utf16ColumnToByte`, `sourceLine` | widths, surrogate pairs, invalid bytes, CRLF, last line |
| `cmd/parser-go/main.go`, `parse.go`, the decisions of `gopls_implements.go` | `TaskSession`: root, gopls session, error kept for the stream | decode, open, parse, emit, close | failures at each step, one-shot gopls beside a session, what a delta says about what it lacks |
| `load/load.go` | none between requests | `Packages`, `moduleRoots`, `patternsForRoot` | nested modules, `go.work`, overlapping modules, a module that does not load |
| `parse/{context,nodes,calls,inheritance,implements,overrides}.go` | `Context`: delta, `UnitByQName`, `FuncByQName`, `SeenRel` | the phases of `parse()` | phases that depend on the order of declarations and on each other |
| `gopls_implements.go`, from questions to relationships | the queries, package and declaration caches of one request | `implementationQueries`, `runImplementationQueries`, `declarationResolver.at`, `emitGoplsImplementation` | a request sees the packages of its files only, gopls answers from everywhere: dependencies, tests, promoted methods; targets are judged by syntax alone, or cannot be read |
| `parse/endpoints.go` | `handlerByFileLine` | extraction by a library, linking to functions | a function is guessed from names and lines, among the functions of the request only |

What makes each part correct, in a sentence:

* connection: frames stay whole, each request gets at most one answer and that its own,
  every call returns whatever gopls does, close ends gopls;
* batch: results keep the order of the positions, the first query is alone, nothing
  outlives the batch, and the batch returns;
* document cache: columns are computed on the text gopls computes them on, and the
  files asked about are current;
* columns: exact both ways, or refused;
* task session: every gopls started is closed, one is open at a time, missing answers
  leave a trace in the delta;
* loading: each wanted file is loaded from its nearest module, once, whatever becomes
  of other modules;
* graph: structural relationships end in nodes, a function has one node, calls belong to
  who makes them, independent phases agree;
* answers of gopls: an incremental delta has the relationships the full one would have for
  its files, and no others, or a diagnostic;
* endpoints: each is linked to the function the source suggests, whatever else is in the request.

`PROJECT.json` lists the hazards of the code at the lines where they bite, each
with the properties that watch it or the reason why none does.

## 2. Modules

| Module | Models | Composition |
| --- | --- | --- |
| `RpcContract` | what `request()`/`notify()` promise their callers | abstract specification |
| `LspClient` | `rpc.go`: callers, reader, waiter, both pipes, life of a session; gopls as environment | |
| `LspProperties` | properties of `LspClient`, refinement mapping | `INSTANCE RpcContract` |
| `LspClientProofs` | proofs: answers and waiting callers; frames, calls and the contract | extends `LspProperties` |
| `BatchQueries`, `BatchQueriesProofs` | `Session.Implementations` and `Close` | `INSTANCE RpcContract` as the connection |
| `DocSync`, `DocSyncProofs` | `openFiles`, `fileContents` and gopls's open documents | |
| `Positions`, `PositionsProofs` | `sourceLine` and both column conversions | |
| `TaskSession`, `TaskSessionProofs` | the request loop, `TaskSession`, the choice of gopls and its diagnostics | |
| `ModuleRoots`, `ModuleRootsProofs` | `load.go` | |
| `GoTypes` | ids, types and method sets, and the phases that depend on nothing else | operators only |
| `DeltaBuilder`, `DeltaBuilderProofs` | the local phases of `parse()` and their order | extends `GoTypes` |
| `Implementations`, `ImplementationsProofs` | `gopls_implements.go` | extends `GoTypes`; compared with the full request |
| `Endpoints` | `attachEndpoints` | extends `GoTypes`; compared with the full request |
| `MC*` | instances for TLC | extend the above |

The composition is assume/guarantee: `LspClient` is shown to implement `RpcContract`;
`BatchQueries` runs on top of `RpcContract` alone, so it does not repeat frames and
locks; `TaskSession` treats a batch as one step, which `BatchReturns` justifies, and a
closed gopls as stopped, which `CloseStopsGopls` justifies; `Implementations` starts where
`TaskSession` has decided to ask, takes a batch as one step and each result as that of its own query
(`ResultsInInputOrder`), and starts from what the phases of `DeltaBuilder` leave, which it
gets from the same operators of `GoTypes`.

Operators named `<Definition>_<Fault>`, commented "Fault", are not part of any
specification. Each is a plausible bug in the definition that follows it; with the
fault in its place the property named in `PROJECT.json` fails, which shows that the
property depends on the code and not on the shape of the model.

### LspClient

A *message* is a method, an id (0 for notifications and replies) and the caller it is
about; what gopls says about a caller is the answer to that caller's question. `stdin` is a bounded
sequence of chunks because `write()` makes two writes, header and body, and each
can block on a full pipe or fail on a closed one. A response channel is named by its
request's id: `pending` is the map, `mail` the letters in channels, `inHand` the letter
`readLoop` is about to send, `failing` the map `failPending` has taken. Sends into a
channel are modelled as blocking, as in the code, where they have no `select`.

| Code | Actions |
| --- | --- |
| `request`: register | `StartRequest` |
| `write`: lock, header, body, error return with the deferred unlock | `Lock`, `WriteHeader`, `WriteBody`, `WriteFails` |
| `request`: select on the channel, the context, `done` | `Receive`, `Timeout`, `SawDone` |
| `removePending` | `CleanUp` |
| `readLoop`: response, request of the server, notification, error | `ReadResponse` + `Deliver`, `ReadAsk`, `ReadNote`, `ReadFails` |
| `failPending`, one send per channel | `FailOne`, `ReaderStops` |
| the goroutine around `cmd.Wait` | `Reap` |
| `initialize`, `Open`, `openFiles`, `close` | `Initialize`, `Initialized`, `Serve`, `DidOpen`, `Shutdown`, `Exit`, `CloseStdin` |

gopls is external. It reads whole frames, answers with a result or an error in any
order (an error for the methods in `Refusals`), sends requests and notifications unasked, may emit a frame that cannot be
decoded (`MayGarble`), may crash at any moment, and exits on `exit`. (That `close()` also closes its input never comes to
matter: `exit` is on the pipe by then.) The
model assumes that gopls reads its input also while its output is not drained.

`Timeout` is enabled for `shutdown` only: `close()` is the one place that passes a
deadline, all other requests run on a background context.

### BatchQueries

`phase` is the program counter of `Implementations`; `at` and `job` are those of the
goroutines. The unbuffered channel is a rendezvous (`SendJob`), `close(jobs)` is
`closedJobs`, the `WaitGroup` is `Join`. `results` starts as zero values, and each entry
records whose position it answers. `Session.mu` is not a variable: the loop of
`TaskSession` makes one call after another.

### DocSync

Texts are compared for equality only. `files` and `versions` are the client's maps, `docs` is
what gopls holds open, `wire` what has been sent and not handled; the properties speak of the places on it that are about a file. `fileContents` is
three steps (miss, read, store) because the code holds the lock for the first and the
last only. Files may be edited or deleted between batches, never within one:
`docs/ENGINE_INTEGRATION.md` makes the workspace final before the first file, so this is
more than the engine does.

### Positions

A text is a sequence of runes with a width in bytes and in UTF-16 units. The scan of
`utf16ColumnToByte` and the search of `sourceLine` go step by step; `byteColumnToUTF16`
is one operator. The properties compare with definitions that count line feeds, bytes and units
directly. A byte that is no UTF-8 is a rune of one byte and one unit, as `utf8.DecodeRune` makes it.

### TaskSession

One action per decision: the kind of stream, the open of the session on the first
request, the root of later ones, load failure, the four ways to an implementation answer
(skipped, known bad, the session's gopls, a one-shot process), endpoints, emission, end.
`started` and `closed` count gopls processes. The session's gopls may die at any time.

### ModuleRoots

A directory holds one package with one file. `go.mod` files, `go.work` entries (of
directories with a `go.mod`, without one, or missing) and wanted files are chosen freely.
`packages.Load` is external: started in a module it finds the packages of that and may find
more under it, anywhere it may fail. go refuses a workspace that lists a directory without a
`go.mod`, which `parseGoWorkUses` (`load.go:272`) keeps; since `GOWORK=off` makes go ignore it, the model lets such loads
succeed or fail, and `FilesLoaded` claims nothing of those workspaces.
`FilterUse` is the loop of `parseGoWorkUses` over the entries of `go.work`, one entry at a time, `FindRoots` the rest of
`moduleRoots`, and then each root is one step: skipped, failed or loaded.

### DeltaBuilder

A program is a sequence of packages, a package a sequence of declarations in file
order. The phases run in the order of `parse()`, one declaration at a time where order
matters (nodes, calls) and one phase at a time where it does not. Ids are the tuples whose
digests `ids.go` computes. Callees are already resolved; method sets are `go/types`'. What a
type declares, embeds, implements and overrides is in `GoTypes`, shared with the two modules below.
`World` is what `go/types` knows: the loaded packages and `Elsewhere`, declarations of
packages that are not, `error` of the universe among them. What a type embeds is given as `go/types` resolves it,
a package and a name, the package of a predeclared type being `Universe`. The id it gets is another matter: `NamedAs` is
`unitIDForType`, `WrittenAs` is `unitIDForExpr`, which sees only whether the name is written bare (`Bare`: of the
same package, predeclared, or of a package imported with a dot, `dots`), and `Embeds` has both, as `collectInheritance` walks both.
What one call of a phase finds is a set, and is added in an order that the model leaves open
(`AddRels`, `NodesOf`): no property is about the order within a declaration.

### Implementations

A *project* is a world of declarations, of which the project's own packages, vendored ones,
packages outside the root and ones without a `go.mod` are told apart by `place`, and test
files by `tests`. The local phases of the incremental request are done in `Init`. A *place* stands for
file, line and column: a file, a type in it and maybe a method. Queries, results and the locations of one are sets,
of which one is taken after another in an order that the model leaves open: what becomes of one does not
depend on the others, and diagnostics are compared as a set. `DeclarationsIn` is computed for each target anew: the
cache of the resolver lives for one batch, within which files do not change.

| Code | Definitions and actions |
| --- | --- |
| `implementationQueries`, `addMethodQuery` | `Queries`, of `QueriesOf` each type, with one query for a place (`First`) |
| `runImplementationQueries` | `AskNothing`, `BatchFails`, `BatchAnswers` (one query may fail) |
| `decodeLocations` | `Decoded`: a target that is gone fails the whole query |
| `collectGoplsImplementationResults`, over results and locations | `TakeResult`, `Finish` |
| `declarationResolver.at`: not the project's; error; found | `Skip`, `CannotResolve`, `Resolve` |
| `declarationsInFile` | `DeclarationsIn`: `StructEntry`, `InterfaceEntry`, `ElementEntry`, `MethodEntry` |
| the kind and id tests, `emitGoplsImplementation` | `Found`, `Link` |

What gopls answers (`Answer`, external) is computed on the whole world, with promoted methods and
test files, as gopls does. The reference is `Full`: what the local phases find if everything is loaded.

### Endpoints

A *project* has functions with their lines and calls, route registrations and the facts
static-extract-go reports. Every operator from the delta's functions to `FunctionOf` takes the
files of the request, so that the full request is its own reference. `Extract`, `ExtractFails`
and `NoRules` are the three ways the extraction ends; `SkipFact` and `Attach` treat one fact.

## 3. Runs

States are distinct states; times are with two workers.

| Run | Checks | Instance | Size |
| --- | --- | --- | --- |
| `LspClient_safety` | `TypeOK`, `FramesIntact`, `AnsweredOnce`, `NobodyForgotten`, `OwnAnswer`, `NoStaleRegistration`, `ImplementsContract` | Main, 2 workers, 4 requests, garbage allowed | 528 000, 45 s |
| `LspClient_live` | `EveryCallReturns`, `ReaderEnds`, `CloseStopsGopls` | Main, 2 workers, 4 requests, one message unasked | 150 000, 155 s |
| `BatchQueries_batch` | `TypeOK`, `ResultsInInputOrder`, `SnapshotFirst`, `NothingOutlivesBatch`, `BatchReturns` | up to 4 positions, 3 goroutines | 652 000, 70 s |
| `DocSync_safety` | `TypeOK`, `OpenedAgree`, `AskedAreCurrent` | 3 batches, 2 files, 2 texts, 2 workers | 10 000, 2 s |
| `Positions_columns` | `TypeOK`, `RoundTrip`, `ExactOrRefused` | all files of up to 4 runes | 543 000, 9 s |
| `TaskSession_loop` | `TypeOK`, `EveryGoplsClosed`, `OneOpenGopls`, `NoSilentLoss` | streams of up to 3 requests, 2 roots | 8 000, 1 s |
| `ModuleRoots_load` | `TypeOK`, `OneOwner`, `FilesLoaded`, `ListedLoaded` | 4 directories | 110 000, 11 s |
| `DeltaBuilder_graph` | `TypeOK`, `EndsEmitted`, `OneNodePerFunction`, `SatisfiesTogether`, `CallsAttributed` | up to 4 declarations beside a second package | 620 000, 110 s |
| `Implementations_answers` | `TypeOK`, `OnlyKnownLosses`, `NothingInvented` | 2 packages, 4 files, one feature more | 246 000, 75 s |
| `Endpoints_links` | `TypeOK`, `SameAsFull`, `LinkedAsWritten` | 2 files, up to 2 registrations, 2 facts | 1 915 000, 100 s |
| `DeltaBuilder_owned` | `EveryFunctionOwned`: violated, see section 6 | up to 2 declarations | |
| `Implementations_split` | `NothingLost`: violated, see section 6 | as `Implementations_answers` | |

**Bounds, and why they are enough.**
`MaxId` = 4 gives the handshake, two queries in flight together and `shutdown`: two waiters
are what the single value in `done` and the answers out of order need, three callers (Main and both
workers) contend for the write mutex in various orders. `PipeCap` = 3 lets a frame be stuck half
written; 2 in the liveness run still makes the second frame wait. `OutCap` = 2 lets two answers
be reordered and garbage follow an answer. `MaxSpeech` = 1 is one message gopls sends
unasked, which puts the reader into the writers' queue; more of them only repeat that. In the
liveness run `Refusals` is the handshake alone, since an error in reply to a query or to
`shutdown` takes the path of a result; `OutCap` = 1 is the tightest pipe to block gopls on. The
bounds on requests and speech are in the guards of `Query`,
`StartRequest` and `ServerSpeaks`; the proofs hold for all their values.

Four positions and three goroutines are one query alone and as many goroutines as remaining
positions; `Wanted` has a value below one, one, one between and one above the batch. One batch is
explored: `BeginBatch` resets all of the pool's state, and `NothingOutlivesBatch` shows
what it starts from is at rest. `MaxDocs` = 1 is the first notification and its failure.

Three batches are open, change, and one more after either; two files let one be borrowed
while the other is asked about, two workers make the race in `fileContents`. Four runes
hold two lines, a CRLF and a surrogate pair. Four directories are a root, a nested module,
one nested in that and one beside; two `go.work` entries can overlap or be equal. Three
requests reach every change of kind after the session is opened. Four declarations hold a type, its
method, a function and an interface in every order, split over two files; violations need two.
Of embedded types there is one of each origin: of the package, of another loaded, of one not loaded and imported with
a dot, and of the universe, by a struct and by an interface.

In `Implementations`, an interface and a type in each of two packages, one importing the other, are
the least where the local phases of a request for one miss what gopls knows of both; a type may
have its method in its own file, in another, or by embedding. To this comes one of: an interface
that embeds or extends, one defined as another (in either package), an alias, a type in a test file. One query fails (`MaxFailing`),
and one file is gone or does not parse, since results are treated one by one; the proof holds for any number of failing queries. In `Endpoints`, two
registrations are the least that can compete for a line, on two lines two apart; an endpoint is on any line of
the function or up to two lines after it, so that each distance `NearbyLines` looks at, and one more,
occurs; calls leave no placeholder, one of the handler, or one of another function's name.

Workers of the connection and files, texts and workers of `DocSync` are symmetric in
the safety runs; the runs with liveness use none. Deadlock is checked except in
`LspClient_safety`, where garbage leaves a caller waiting for good (section 6) and the bound
on requests can be used up, and `DocSync_safety`, which may end in any state
once batches and edits are used up.

## 4. Fairness

Safety runs assume none. In the liveness runs:

* each goroutine that can run is run (weak fairness on the steps of each caller by itself, of
  the reader, of the waiter and of the scripted part of Main): the Go scheduler is preemptive;
* strong fairness on taking `writeMu` per goroutine: Go's mutex hands itself over to a
  goroutine that has waited for more than a millisecond, so it is starvation free;
* the deadline of `shutdown` expires (weak fairness on `Timeout`, which may lose to
  the answer);
* gopls (`ServerFairness`, external) keeps reading, and answers each request it has read,
  unless it crashes, which it may always do and need not do;
* nothing makes Main start another query or close a healthy session; what holds after
  `shutdown` is claimed only once it has begun. After a failed handshake `Open` closes by itself.

In `BatchQueries` goroutines run, and a call that has begun ends: that is `EveryCallReturns`.

## 5. What is proved

Proofs hold for every value of the constants that satisfies the named assumptions:

| Assumption | Says | Why the code justifies it |
| --- | --- | --- |
| `RolesAssumption` (`LspClient`) | the goroutines of the roles are different ones | `Open` starts reader and waiter, the batch its pool |
| `BoundsAssumption` | bounds are numbers; pipes have room | pipes buffer; two requests are the handshake and `shutdown` |
| `PoolAssumption` (`BatchQueries`) | the pool is finite and is not Main | `concurrency` is a number |
| `RootsAssumption` (`TaskSession`) | no root is the absence of one | names |
| `DocSyncAssumption` | a missing or uncached text is no text | names |
| `PositionsAssumption` | runes are among those whose width is known | UTF-8 has no others |
| `ProgramsAssumption` (`DeltaBuilder`) | packages have distinct paths, declarations are told apart and are their package's; a type has finitely many methods | one load per path; a declaration has one place in the source |
| `ElsewhereAssumption` | what is declared elsewhere is finite and of other packages than the loaded ones; the universe is no loaded package | it is what the loaded packages import |
| `ProgramsCompile` | one type of a name in a package; what `go/types` resolves to a loaded package is declared there (the ids the code makes of it are not assumed to be); embedding is at most two deep | the first two `go/types` checks; the third is how deep `GoTypes` follows embedding: programs that go deeper are not modelled |
| `ProjectsAssumption` (`Implementations`) | a file is of one package; each package is the project's or not; types and methods have names, and the scope of a package has each type but those of test files | Go files have one package clause; `scope.Names()` of a package loaded without tests |
| `ProjectsCompile` | one type of a name, one method of a name on a type, none on an interface; an interface's methods are those of the one it was defined as, and it embeds interfaces; nothing uses what is in a test file but tests; embedding is at most two deep | `go/types` checks these of a project that compiles; of the last see above |
| `ModuleRootsAssumption` | finitely many directories, which nest: those above a directory are in one chain | a file system is a tree (links to directories are left out) |

| Module | Theorem | Statement (`Spec =>`) |
| --- | --- | --- |
| `LspClientProofs` | `TypeCorrect`, `Safe` | `[]TypeOK`, `[](TypeOK /\ SafeInv)` |
| | `AnsweredAtMostOnce`, `NobodyIsForgotten` | `[]AnsweredOnce`, `[]NobodyForgotten` |
| | `CallsSafe` | `[](TypeOK /\ SafeInv /\ CallInv)` |
| | `FramesStayIntact`, `EachItsOwnAnswer`, `RegistrationsEnd` | `[]FramesIntact`, `[]OwnAnswer`, `[]NoStaleRegistration` |
| | `ClientKeepsContract` | `ImplementsContract`: the refinement of `RpcContract` |
| `BatchQueriesProofs` | `BatchSafe`, `TypeCorrect` | `[](TypeOK /\ BatchInv)`, `[]TypeOK` |
| | `InputOrderKept`, `PoolAfterSnapshot`, `BatchEndsClean` | `[]ResultsInInputOrder`, `[]SnapshotFirst`, `[]NothingOutlivesBatch` |
| | `OneWriterPerResult` | an index being worked on is one goroutine's, its result unwritten |
| | `BatchUsesContract` | `Rpc!CSpec`: a batch only does to the connection what the contract allows |
| `TaskSessionProofs` | `SessionSafe`, `TypeCorrect` | `[](TypeOK /\ SessionInv)`, `[]TypeOK` |
| | `EveryGoplsIsClosed`, `OneGoplsAtATime`, `LossIsTold` | `[]EveryGoplsClosed`, `[]OneOpenGopls`, `[]NoSilentLoss` |
| `DocSyncProofs` | `DocSyncSafe`, `TypeCorrect` | `[](TypeOK /\ DocInv)`, `[]TypeOK` |
| | `GoplsSeesTheCache`, `QueriesSeeTheDisk` | `[]OpenedAgree`, `[]AskedAreCurrent` |
| `PositionsProofs` | `ColumnsSafe`, `TypeCorrect` | `[](TypeOK /\ ColumnsInv)`, `[]TypeOK` |
| | `PositionsSurvive`, `AnswersAreExact` | `[]RoundTrip`, `[]ExactOrRefused` |
| `ModuleRootsProofs` | `RootsSafe`, `TypeCorrect` | `[](TypeOK /\ RootsInv)`, `[]TypeOK` |
| | `EachFileHasOneOwner`, `WantedFilesAreLoaded`, `ListedModulesAreLoaded` | `[]OneOwner`, `[]FilesLoaded`, `[]ListedLoaded` |
| `DeltaBuilderProofs` | `GraphSafe`, `IndexesAgree` | `[]GraphInv`, `[]TypeOK` |
| | `CallsAreAttributed`, `NoNodeTwice` | `[]CallsAttributed`, `[]OneNodePerFunction` |
| | `NothingDangles`, `MethodsWithTheirTypes` | `[]EndsEmitted`, `[]SatisfiesTogether` |
| `ImplementationsProofs` | `AnswersSafe`, `AnswersTypes` | `[]AnswersInv`, `[]TypeOK` |
| | `AnswersInventNothing`, `AnswersLoseNoMore` | `[]NothingInvented`, `[]OnlyKnownLosses` |

So every safety property that the runs check of these eight specifications is a theorem. Each inductive
invariant stands in front of its proof, in named parts. TLC was asked first, and found no state against it on that module's
instance (for the graph, with up to three declarations). Each proof has one lemma per action,
or per part of the invariant and group of actions, which a lemma or step over `Next` puts together.

**The connection, answers.** `AnsweredOnce` and `NobodyForgotten` are not inductive. That an answer is in one place
only survives `StartRequest` because ids in use are at most `Len(askedBy)` (`Issued`); it
survives `ReadFails` and `Deliver` because the reader holds at most one letter and holds it
only while delivering, and fails the others only while failing (`ReaderHands`). That a waiting caller has a waker
needs more than its waiting: the caller that has registered and not finished its write when the reader
ends must already be accounted for (`Answerable` speaks of all of `lock`, `header`,
`body` and `wait`), and, if it registers after the sweep of `failPending`, its
write must fail, which it does because the reader ends only after gopls has gone or
emitted garbage (`ReaderEndsWithCause`), and a pipe with no reader is broken. So

    SafeInv == Lanes /\ Issued /\ ReaderHands /\ ReaderEndsWithCause /\ AnsweredOnce /\ Answerable

**The connection, calls.** Frames stay whole because who is between header and body holds the write
mutex (`Exclusive`) and, while the pipe works, the pipe ends in that one's header (`Framed`). An
answer is the caller's own because every message with an id, wherever it is, is about the caller
that was given the id (`Matching`, over callers, both pipes, gopls's backlog and all letters).
`NoStaleRegistration` needs that the asker of a registered id is still in the call with that id
(`Current`). The contract lets a call fail only if the connection is down or the call is `shutdown`, which needs
that every failure on its way has such a cause (`FailsWithCause`) and that the session is closed only when
no worker uses it (`Quiet`):

    CallInv == Exclusive /\ Framed /\ Matching /\ Current /\ Quiet /\ FailsWithCause

The refinement is proved one action of the client at a time: the outcome of a call is set before the
goroutine is idle again, and becomes visible to the contract with its last step only, so that most
steps are stutters.

**The batch.** A result is at its own index because an index that has been dealt is at exactly one goroutine
or its result is there (`Dealt`), and only the goroutine of an index writes it. `SnapshotFirst` needs in which phases Main and the
pool work at all (`Staged`, `Pooled`). The proofs use the connection through `RpcContract`; as `ClientKeepsContract` and
`BatchUsesContract` share that contract, they compose.

**The task session.** That every gopls is closed follows from where the processes not closed are: one in
the session, or one that is a one-shot (`Counted`). It is inductive only because a session that ends, or is being opened, is not
open, and because a request that may start a gopls has started none before (`OncePerRequest`).

**The document cache.** `OpenedAgree` is not inductive: gopls also refuses to change a document that is not open, and a file can
be borrowed by a worker before it is ever sent. `DocInv` says of every file of which gopls has been *told* anything, opened
or not, that the last thing on the wire is what the client has (`WireAgrees`); that a worker about to store has
the text on disk, and stores it over nothing else (`Fetching`), which rests on files not changing
within a batch; and that a batch sends a file once at most, so that versions grow with batches (`OncePerBatch`).

**Columns.** The sum of the widths of the first `k` runes is the cardinality of the set of their bytes, so that
its laws (each rune adds its own, longer prefixes are larger, units are at most bytes) follow from facts about finite sets and
no induction is needed. `sourceLine` has counted the line feeds before `start` and stands right after one (`Counted`), so
the line it takes is the one that counting defines (`LineTaken`); a scan has passed no rune needlessly (`Scanned`), so if it is
off the column then no rune starts there (`NothingFits`); strict growth makes the column found the column sent.

**Loading.** Of the modules around a file one is nearest since directories nest: `DeepestExists` finds it by the least number of a set,
and it owns the file whatever other modules are roots (`NearestOwns`). `RootsInv` says that the
list of roots is complete when loading begins (`Listed`), that packages come from a root asked for them and come once
(`Sourced`), and that each root passed was skipped, failed or is loaded (`Passed`).

**The graph.** The ids are computed from names, so everything rests on what the indexes know when an id is used. `EmittedSoFar`
says what the delta has of a declaration once the walk has passed it: its package, its node, and, at the end of the package, the methods
of an interface. Hence `FullHasAll`: after the nodes of a full request, whatever a later phase names is there, which is
`EndsEmitted` up to its exceptions, each a formula of its own: `NamedAfterPromotion`, and `NamedAfterEmbedder`, which every embedded
`error` comes under. That of the other ids `Embeds` makes each is the resolved one, of a loaded type or of a package not loaded,
and that what an override names elsewhere leads out of the loaded packages, is `EndsOfTypes`. `OneNodePerFunction` needs a count per id of the declarations passed
(`Counted`); that `emitFunction` does not look before it adds is harmless because a node that is no declaration's can only be of
a package finished earlier, and paths differ. `CallsAttributed` needs that `current` is the last function before the
place of the walk while the file stays the same (`Attribution`). `SatisfiesTogether` is not about steps but about
`GoTypes`: what `collectOverrides` finds by embedding, an embedding type implements (`EmbeddedContract`); the step only has to keep the
relationships of an earlier phase (`Satisfied`).

    GraphInv == Shape /\ EmittedSoFar /\ Attribution /\ CallsAttributed /\ Counted /\ EndsEmitted /\ Satisfied

**The answers of gopls.** Both properties compare what gopls is asked, and what the
resolver makes of its answers, with a third thing computed in another way, the full request. The state machine between them adds little, so most of the
proof is about operators. One part shows that what is *found* is right: `Compiled` and `MethodSets` draw the facts about types
from `ProjectsCompile`, `Declarers` says that a method is declared on the type or on one it embeds, `Declarations` reads the
entries of a file back as types and methods, and `OnePerPlace` that a place has one entry. Hence
`LinksKnown`: the link of any query with any location of its answer is in `Full`, `WithTests` or `Promoted`. The other part shows that what is
there is *asked for and found*: `TypesAsked` and its like follow a relationship of the full request to the query that stands for it (the
question asked of the same place by an earlier type may take its turn, which is where `Shared` comes from), gopls's answer has
the place of the other end, and the resolver finds it there with the right id, unless the interface is not written out
(`FindsFromStruct`, `FindsFromInterface`). The steps then only need that nothing goes missing on the way:
a result has the whole answer or an error (`Results`), the locations at hand are of the query at hand (`AtHand`), and a location
that is neither waiting nor at hand has its link, or there is a diagnostic (`Treated`).

    AnswersInv == project \in Projects /\ Sound /\ AtHand /\ Results /\ Treated

`NothingInvented` is `Sound` at the end; `OnlyKnownLosses` is `Treated` at the end, with nothing left to wait for.

**Model-checked only.**

* Liveness (`EveryCallReturns`, `CloseStopsGopls`, `ReaderEnds`, `BatchReturns`): it needs fairness and `ENABLED`,
  out of the prover's reach.
* `Endpoints` (`TypeOK`, `SameAsFull`, `LinkedAsWritten`): which function an endpoint gets depends on what comes first in a
  sequence, and the model finds it with recursive operators over sequences (`SelectSeq`, `FoldLeft`), of which the provers can
  use neither the recursion nor an induction theorem. (The proofs above replace induction by the least
  counterexample, or by sets in the place of folds, where order does not matter.)

## 6. What was found

Checked by runs that end in a counterexample:

* **`DeltaBuilder_owned`** `emitFunction` (`nodes.go:217`) links a method to its type
  only if the type has been visited before: a method declared first has no
  `UNIT_TO_FUNCTION`, which README 46 lists without condition.
* **`Implementations_split`** `implementationQueries` (`gopls_implements.go:210`) passes over a type
  whose declaration lies outside the request before it reaches the type's methods. The methods in a
  requested file of a type declared in another are not asked about, and their `GO_METHOD_SATISFIES`
  to interfaces of other packages is lost without a diagnostic; README 60-62 and
  `docs/ENGINE_INTEGRATION.md` 38 say gopls supplies it.

Seen while modelling, and exact in the properties named:

* `collectCalls` (`calls.go:34`) never resets the current function when its declaration ends: a call in a
  package variable's initializer is attributed to the function before it in the file. That is all:
  `CallsAttributed`.
* `emitEmbeddedMethodOverrides` (`overrides.go:156`) names the shadowed method after the embedded type
  even if that type has it by embedding another one: the relationship leads to a function that
  does not exist (`NamedAfterPromotion`).
* `unitIDForType` (`inheritance.go:140`) takes a type without a package for one of the embedding package, and
  `unitIDForExpr` (`inheritance.go:156`) does so with every bare name: `type MyErr struct{ error }` or
  `interface{ error; Code() int }` in `p`, or anything embedded from a dot-imported package, makes a full request emit `GO_EMBEDS`
  to a unit `p.error` that no node is for. `full_test.go:90-93` requires that no relationship
  dangles, of a sample without such a type (`NamedAfterEmbedder`).
  `EndsEmitted` admits these two, links out of the loaded packages, and nothing else.
* `declarationsInFile` (`gopls_implements.go:321`) knows an interface only where it is written out: of one
  defined as another, relationships that gopls reports are dropped, and of two interfaces with one literal
  only the first is asked about for their methods. `OnlyKnownLosses` admits these.
* gopls answers from test files, and names the embedded type for a promoted method; both reach the
  delta, while the full request has neither. `NothingInvented` admits these.
* An endpoint's handler is taken from any registration up to two lines away, also from another
  endpoint's, and any call with a string first counts as a registration, a log line
  too; so an anonymous handler, which `endpoints.go:285` means to skip, may get a neighbour's. An identifier that is no function
  becomes the id of one that does not exist (`endpoints.go:270`). A placeholder of the handler's name, left by a call,
  makes the name ambiguous. `LinkedAsWritten` and `SameAsFull` admit these.

Seen while modelling, and not checked:

* `close()` (`rpc.go:350`) returns without waiting for gopls, while the repository's README (86-87)
  says closing stops gopls before the project is deleted; `CloseStopsGopls` shows that it stops, later.
* A stream whose first request is full, or disables gopls, opens a session without
  gopls (`parse.go:52`), and each later incremental request starts a one-shot process;
  README 84-86 speaks of one process for the stream. `OneOpenGopls` and `EveryGoplsClosed` hold all the same.
* `goplsRequired` yields an error only for a missing executable, not for a gopls that cannot be
  opened (`gopls_implements.go:83`); README 97 says "unavailable" for both. `NoSilentLoss` holds: a
  warning is left.
* After one frame that cannot be decoded the reader has ended while gopls is up; a call made then
  waits until gopls exits (`rpc.go:262`). `NobodyForgotten` excludes this and the proof shows
  that it is the only exception.
* `packagePathForFile` looks for `go.mod` up to the root and no further: with a root inside a bigger
  module each answer becomes a warning. A root whose own path has a directory named `vendor` is worse:
  each answer is silently taken for a vendored one.
* An incremental delta has the endpoints of all loaded packages, also those of files not requested
  (README 53 says otherwise); `SameAsFull` speaks of the files of the request.

## 7. What is left out, and why

* The syntax of frames (`Content-Length`, buffering), JSON and file URIs: formatting. A frame
  is a header and a body, an undecodable one is `garbage`.
* `go/types`, `packages.Load`, gopls and the static-extract-go library: external, modelled
  by what the code relies on.
* `GoTypes`, `DeltaBuilder`: alias types (a `GO_EMBEDS` of one goes to the alias by syntax, and to what
  it stands for by type), type arguments and instantiated types, a struct or interface defined as another one (`type A B`; but
  see `Implementations`), predeclared types by which nothing but syntax is embedded (`any`, `int`: they are treated as `error` is, with the same ids), the pointer/value distinction of method sets, test packages,
  the fallback of unresolved callees; the suffix matches of `allowFile`, which make the request a
  larger set of files: every set is explored.
* `ModuleRoots`: the text of `go.work`, entries outside the project; what is loaded of a workspace that go refuses.
* `Implementations`: locations as JSON; two methods of one name but different signatures; paths as
  strings (a file is below the root, vendored, or neither).
* `Endpoints`: what static-extract-go finds and its rule language, the attributes of an endpoint
  node and how its identity is put together, methods of interfaces as handlers.
* Scripts: no state.

## 8. Plan

Written first, as the most important behaviour, was the connection (`LspClient` and
its contract, then its proof), then upwards what runs on it (`BatchQueries`, `DocSync`, `Positions`,
`TaskSession`), beside it (`ModuleRoots`, `DeltaBuilder`), and what becomes of its answers
(`GoTypes`, `Implementations`, `Endpoints`). Proofs followed in the same order: the connection and its
contract, the batch, the task session, the document cache, columns, loading, the graph, the answers of gopls. What is left is
a proof about `Endpoints`: that attaching a fact links to a function of the request only, which would need its
searches restated without a fold.

None of these modules uses a RECURSIVE operator; constants that proofs depend on have named assumptions.

## 9. Running

    tlc -workers 2 -config LspClient_safety.cfg MCLspClient
    tlapm LspClientProofs.tla

and likewise for the other runs of section 3 and the other `*Proofs` modules; each is proved from nothing in about two minutes.
