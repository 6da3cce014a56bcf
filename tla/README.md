# Verification of the PlotJuggler SDK

TLA+ modules, TLC runs and TLAPS proofs kept beside `pj_base`, `pj_source` and
`pj_plugins`. They model the parts of the SDK in which threads, processes,
callbacks and failures meet, and the parts whose correctness depends on long
sequences of calls: the asynchronous import job, the artifact cache shared by
processes, the instance table of parser modules, the routing of messages to
parsers, and the boundary at which a host and plugins of other releases meet:
service tables, ownership of what crosses, enumerations, the wire format of the
builtin objects, dialogs, libraries and functional parsers.

`PROJECT.json` lists the components, runs, mutants, hazards and theorems, and
says for every definition which lines of the source it models.

## 1. Inventory

The SDK is a set of libraries between a host application and the plugins it
loads through a C ABI. It has no main loop of its own: the host's threads and
the threads that providers start call into it.

| Component | State | Operations | Hard because |
|---|---|---|---|
| provider job (`provider_job.cpp`) | cancel flag, hook, watchdog thread, start gate, join election | start, cancel, join, destroy; `onCancel`, `armWatchdog`, `notifyDataset` for the body | any host thread cancels and joins while the worker runs the body and a watchdog runs; destroy frees the state |
| import ABI (`descriptor_import_protocol.h`) | what the host knows of a job | `start_import`, `on_dataset`, `on_terminal`, `join`, `destroy` | a contract between separately compiled sides |
| request artifact cache (`request_cache.cpp`, `file_lock.cpp`, `fs_durability.cpp`) | artifact, partial, stamp and lock files under one root | `lookup`, `acquireReadLease`, `beginWrite`, `commit`, `abort`, `cleanup` | several processes; advisory locks whose conversion is not atomic; crashes, power failures, failing system calls |
| import host view (`descriptor_import.hpp`) | callback context with its dispatch word; job handle | `startImport`, `join`, destructor, two thunks | callbacks of providers that broke the ABI may arrive after the error return |
| promotion and settlement latch (`descriptor_import.hpp`, `provider_job.cpp`) | heap-allocated closure; verdict | `promoteToFileSource`, `resultThunk`, `settle`, `wait` | the answer may come before the request has returned, or never |
| stop bridge (`stop_bridge.cpp`) | flag, mutex, thread | constructor, poller thread, `stopAndJoin` | lost wake-ups; cancel in flight during tear-down |
| parser module instances (`module.hpp`, `parser_module_runtime.cpp`) | slot table with generations; the host's token owners | `create`, `destroy`, `bind`, `parse`, moves | tokens outlive instances; generations wrap; pointers are used outside the lock |
| strike tracker (`parser_module_runtime.cpp`) | strikes, quarantines and health per claim | `recordFault`, `markRecreated` | reports arrive late and repeatedly |
| claim catalog (`parser_claim_catalog.cpp`) | admitted claims, generation | ingest, admit, remove, clear | all-or-nothing admission of untrusted manifests; several spellings of one name |
| route resolver (`parser_route_resolver.cpp`) | two probe caches, reported ambiguities | `resolve`, three invalidations | cached answers outlive what they were about; pins must fail closed |
| data source lifecycle, outcome ledger, ingest completion (patterns, trampolines, `outcome_ledger.cpp`, `ingest_completion.hpp`) | state of a source, outcomes per topic, what the host keeps | bind, start, stop, poll, destroy; record, complete | overrides fail and throw anywhere; a completion is evidence for a cache |
| streaming source | drain queue, parser bindings | push, drain, ingest | receive thread against `poll()` against `stop()` |
| plugin data API (`plugin_data_api.h`, `.hpp`, registry) | registered services, their tables | register, look up, one view method per slot | host and plugin are built from different releases; ownership moves with success; lists change between two calls |
| builtin object codecs (`protobuf_wire.hpp`, `*_codec.cpp`) | a byte buffer and a cursor | serialize, deserialize | older and newer peers, truncation, signs and ranges |
| dialog and widget protocol | a JSON document, a table delta, events, tree snapshots | setters and accessors, deltas, dispatch, validation | two sides that agree only in the names of keys; rewriting, repeating and reordering |
| plugin catalog and library loaders, the handles | opened files, libraries, instances, anchors | load, inspect, create, move, reset, destroy | code must stay mapped for its last user, in every order of destruction |
| message parser SDK and handle | bound schema, expected type, sinks | bind, classify, parse functionally | a plugin that calls back wrongly must not be believed |
| toolbox SDK, module readers and locators, object writer, descriptors, limits, versions, times | none of their own | adapters and pure functions | boundaries of numbers and buffers |

How they interact. A provider plugin answers `start_import` with a
**provider job**; the host holds it in the **import host view**. The job's body
downloads into the **request cache**, asks the host to **promote** the file and
waits on a **settlement latch**; a **stop bridge** turns the host's Stop button
into a cancel of the job. For messages, the host loads parser plugins and
modules, admits their claims to the **catalog**, asks the **resolver** for a
route, and drives the winning **module instance**, whose contract violations the
**strike tracker** counts.
Plugins are files that the **library loaders** open and check and the **handles**
call. A plugin reaches its host through the **plugin data API**: a **data source**
writes records or pushes raw messages, whose **parser** answers with records and
**builtin objects** that travel as bytes. Its dialogs are documents the host
renders and events it sends back.

What makes each of them correct is stated by the properties of section 4; the
hazards they answer to are listed with their lines in `PROJECT.json`.

## 2. Modules and the code

All modules keep the names of the source. Every module carries, directly before
the original, the mutants that `PROJECT.json` uses: variants with a dropped
guard, wait or reset, each of which makes one property fail.

**ProviderJob** (with **JobContract**). One action per critical section, call-out
or blocking call of `JobState`, `JobControl` and the vtable functions.
`call[t]` says where a thread is in the API call it makes, `run` where the
worker is in `JobState::run()`. Condition variables are sleeping states that a
`notify_all` moves on, so a missing notification is visible, and spurious
wake-ups are steps. The body is any sequence of uses of `JobControl`; the host
is any sequence of calls its contract allows. `JobContract` is the abstract
specification, written from the comments of `descriptor_import_protocol.h`;
`ProviderJob!Contract` instantiates it with a mapping from the job's state.

**RequestCache**. Actors are threads or processes; a step is one lock operation
or one file system call that others can observe. The holder of a lock follows
from where an actor is, as `FileLock` is RAII and dies with its process.
`disk` is what a power failure leaves of `art`. The conversion of a lock in
`downgradeToShared()` has its window between `CommitDowngrade` and
`CommitConvert`. Digests, JSON and paths are abstracted: a file is valid,
foreign or torn, and has a size and a time.

**DescriptorImport**. `disabled` and `in_flight` are the bit and the count of the
one atomic word `dispatch_state`. `slots` is the set of usable vtable slots the
provider returned, so all eight combinations are explored. A provider with a
destroy slot keeps `JobContract`'s rules; one without has broken the ABI already
and calls back whenever it likes.

**SourcePromotion**. The heap block of `promoteToFileSource()`, its owner and the
latch. `Requests` are independent promotions, one thread each.

**StopPoller**. The loop of the poller thread, split at the mutex. `Timed` is the
set of pollers whose period ends while we look.

**ParserModule**. The table lock is held for one step; the instance a call works
on is kept in `found` after the lock was released. `Width` stands for 2^32.
Calls on one token are serialised by the host, as the ABI demands: each handle
is one thread.

**StrikeTracker**. The host reports what it saw of earlier parses, also after the
claim was quarantined or recreated.

**ClaimCatalog** and **RouteResolver** (which extends it). A type name is the
sequence of its parts, so normalisation is done and not assumed. An artifact
stands for a manifest or a plugin and may be malformed in each way the decoder
looks for. `resolve()` is a sequence of steps, one per candidate, because the
provider answers each probe freely. Three of the eleven encodings are kept: the
two with rules of their own and one without.

**DataSource**. One instance behind its vtable: the main thread binds, starts and
stops it, the stream thread polls it, a receive thread fills its queue. Every
override ends with success, an error or an exception. `told` is what
`notify_state` said last, `evidence` what `copyIngestCompletion()` kept.

**HostTables** and **HostServices**. `HostTables` is data: for each of the
fifteen services, its slots in the order of the C struct and, for each method of
the C++ view, the slot it jumps through, the check it makes first and what it
answers when the check fails. `HostServices` is the machine: a host of any
release (any `struct_size` from the first release on, with all, one or none of the
appended slots NULL) registers and unregisters a service, a plugin looks it up with a
minimum version and calls every method.

**HostOwnership**. Catalog snapshots, Arrow structs and streams, object bytes,
lazy fetch boxes and message fetchers as numbered resources, with holders that are
moved, assigned over, reset and destroyed, and calls that fail before or after
the host took over. **HostLists** is the count-then-fill protocol, one caller per
variant in the header, against a host whose list grows and shrinks.

**WireNumbers**, **WireFormat** and **BuiltinCodecs**. The conversions of members
and of times, for words of any even size; the writer and reader of
`protobuf_wire.hpp` byte by byte, on a word of 15 bits (see Bounds), and two
tables per message: what the writer emits, and what the decoder dispatches on
with the checks it makes. `Decode` walks a buffer in one step, as a recursive
operator that goes from tag to tag like `parseFields`, so that unknown, missing and
truncated fields take the path the code takes. An enumeration goes through the codec's
own switch in each direction (`Enumerators`, `EnumFromWire`), and samples hold every
number up to 9, also those that only a newer producer declares.

**WidgetTables**, **WidgetProtocol**, **TableDelta**, **DialogEvents**,
**TreeItems**. The dialog protocol: which keys each of the setters writes and
erases and each accessor reads; a document that is written in any order and
cleared; deltas replayed by a host that reads some documents twice and others
never; the builder of events against the dispatch chain of `DialogPluginTyped`;
the walk that looks for cycles in a tree snapshot.

**PluginLibraries**. A file of any kind, with a vtable that ends anywhere and slots
that may be NULL, is opened, checked and admitted by a library object. Tokens of
the native loader are counted; handles, borrowed dialogs and payload anchors keep
them; each jump records whether it landed on code. **FunctionalParser** follows
one message through the handle, the trampolines and the sink.

**MCImportHost** and **MCPluginBoundary** put small machines side by side that
share no state. The variable `machine` is chosen at the start, and a behaviour
runs that machine and leaves the others as they began. This checks each machine
exactly as a run of its own would.
**PluginBoundary** declares the constants and variables of the boundary's machines
and instantiates them, with the names of their properties, for the run and for the
proofs.

External parts, modelled from how the code uses them: the file system at a power
failure, the clock, the Stop button, the host that answers a promotion, the host
that loads and unloads artifacts, the application behind the service tables, the
overrides of plugin authors, plugins built without the SDK.

## 3. Runs

| Run | Instance | Distinct states | What it shows |
|---|---|---|---|
| `job_safety` | two host threads, a helper thread, two hooks, two arms of the watchdog | 130 000 | the terminal is quiet, no cancel lost, one joiner, nothing after free, refinement of the contract |
| `job_live` | the same with one hook and one arm, fair | 19 000 | cancel reaches the hook; joins and destroy come back |
| `cache_faults` | two processes that read and write, one cleans, one may crash; failing calls, power failures | 340 000 | leases protect and pin, no torn artifact, no live partial deleted |
| `cache_evict` | a reader and writer beside one cleaner, two identities, two sizes, failing calls, a size budget that binds first | 1.2 million | a met target is met, nothing is evicted under budget |
| `import_host` | five machines: two provider threads with four callbacks before dispatch is disabled, any number after, and every set of slots; two promotions with a second settler and a cancel; two pollers, one with a firing timer; a file and a stream source with two topics and three messages; two claims and eight reports | 53 000 | closures end with their job, calls return; the block is freed once and the first settle wins; Stop is served; reports are true; charges add up |
| `module_table` | two handles, five instances, first capacity 1, generations that wrap after three uses | 250 000 | stale tokens stay stale, no use after delete, no leak, host and module agree |
| `routing` | five artifacts (two of them bad), two loads, two requests, two configurations, three probes | 300 000 | transactional admission, fresh answers, best claim, pins, stability |
| `plugin_boundary` | ten machines: every service on every age of host; three resources and two holders; two list callers; every builtin object with three times, two cuts and ten numbers for its enumerations; every accessor with the setters that reach it; tables of two rows; every built event; all snapshots of three items; two libraries and two handles on every file; parsers with two schemas and two types | 155 000 | the contracts of section 4 under *Boundary* |
| `job_body_locals` | one arm of the watchdog | violated | see section 6 |
| `cache_commit_hit` | a writer and a cleaner | violated | see section 6 |
| `list_growth` | `listTopics()` on a list of at most two | violated | see section 6 |
| `codec_truncation` | every builtin object, buffers cut to five lengths | violated | see section 6 |

Bounds. Two host threads and one helper are enough for every pair of concurrent
calls on a job (cancel/cancel, cancel/join, join/join, destroy/hook); a second
arm of the watchdog covers the re-arm path. Two cache processes suffice for each
pair of operations, and one of them keeps a lease while it starts another; one
tick of the clock makes a partial an orphan and lets a fresh one replace it between
the scan and the removal. With
`FirstCapacity = 1` and `Width = 4` the table grows, fills and retires slots
within five instances. Two loads give unload-and-reload; three probes a request
with two candidates followed by a repeated one. The strike tracker needs six
charges to disable a claim and eight reports leave room for late ones. `MaxCalls`
bounds the callbacks that may still run a closure; those refused after `disable()` are
not counted. In a cache alone on its disk the stricter of the two budgets decides: in
`cache_evict` that is the size budget, and the other one where a size could not be read.

At the boundary, most machines have few dimensions that interact. A view reads
one slot, so hosts differ in their `struct_size` and in one or all appended slots
being NULL.
Three resources let a holder be overwritten by another whose first content is
already released. Two widget values tell a stale key from a fresh one, and a
behaviour watches one accessor because entries of different keys do not meet. Two
table rows and two deltas give every order of append, change and removal across a
missed and a repeated read. Three tree items hold every cycle up to length three
and every wrong parent. TLC's integers have 32 bits: the codecs' 64-bit word has
15 bits, which keeps the shape of a varint (full groups of seven and a last group of one bit), the 32-bit
word scales alike, and a second has ten nanoseconds, so that times before the
epoch and at both ends of the range (`MCTimes`) take the code's branches.
`CutPoints` are the lengths a buffer may be cut to, inside a field or between two;
the violation run has five of them. Parsers have handlers for at most one schema, which
leaves one that is unknown to them.

Deadlock is checked in every run: specifications in which a system may rest have
a final stuttering step of their own that says where it may.

Fairness. Threads that can take a step are scheduled (weak fairness of each
thread's steps). In `job_live` callbacks of the host and hooks return, and a body
that has been interrupted, by polling the flag or by its hook, eventually
returns: that needs strong fairness because it may go on making other calls in
between. Nothing makes an uninterrupted body return or a host make a call. In
`import_host`, each machine has its own fairness: a provider that handed out a destroy slot eventually delivers its
terminal, as the ABI demands; the threads of any other provider may call back for
ever, and `HostReturns` claims the return of `startImport()` for such a provider only if
its callbacks cease at last (`CallbacksCease`), because `quiesce()` samples the count of
running thunks and two threads whose refused callbacks overlap can keep every sample
above zero; an accepted promotion may stay unanswered for
ever, only the waiter and a running thunk are fair; the timer of a poller in
`Timed` fires, and Stop need not be pressed. The boundary has no liveness
properties: its calls are synchronous and return by construction.

## 4. Properties

A run checks the type invariant of its module as a conjunct of the module's main
invariant (`IInv`, `CacheInv`, `ImportInv`, `BlockInv`, `PollerInv`, `ModuleInv`,
`TrackerInv`).

*Job.* `NothingRunsLate` joins two: when the terminal may be called, no hook
executes on any thread and no watchdog exists (`QuietTerminal`), and no thread is
in the job once `destroy()` freed it (`NothingAfterFree`). `CancelNotLost` (in
`IInv`), `CancelReachesHook`: no interleaving of storing the flag and registering
the hook leaves a blocked body alone. `OneJoiner` (in `IInv`): the worker is joined
by one thread. `HookRunsOnce`, `ImplementsContract`. `OwnerCallsReturn`: every
join of a cancelled job returns and destroy completes.

*Cache.* `LeaseProtectsHit` (in `CacheInv`): what `lookup()` returned stays valid
while its lease is kept. `LeasePinsFile`: no step replaces or removes a leased
file. `FilesStayWhole`: after any crash or power failure no torn file is at an
artifact's path (`NeverTorn`), and cleanup never deletes the partial of a running
writer (`LivePartialKept`). `StopsAtBudget`: cleanup does not call a budget met
that is not (`MetMeansUnderBudget`) nor evict under budget
(`EvictsOnlyOverBudget`), unless its scan passed over a file whose size could not be
read, which `had_errors` says, or someone published since (`outdated`).

*Host side of imports.* `ClosuresEndWithJob`: once `startImport()` has told the
caller the job is gone, no closure runs, and the end of an accepted job is told
exactly once. `ImportInv`: the count in the dispatch word is exact and no thunk
touches a freed context. `HostReturns`: `startImport()`, `join()` and the destructor
come back, and no callback, refused or not, leaves a count behind that stops them. `BlockInv`: the promotion's block is freed
once and a thunk runs on one that is there. `FirstSettleWins`, `WaitEnds`.
`PollerInv`: cancel runs once, because of Stop, and nothing runs after the
release. `StopIsServed`: the join returns and Stop reaches the provider.
`SourceReportsTruly`: what the host was told of a source's state is what
`current_state()` returns, whatever its overrides did; only an import whose
declared topics were all fetched is kept as complete; every message received is
queued, in hand, with the host in order, or given up.

*Parser modules.* `ModuleInv`: tokens, slots, handles and calls agree on who owns
which instance. `StaleNeverResolves`, `NoUseAfterDelete`. `HostAndModuleAgree`: no
instance leaks and host and module agree on what is bound. `TrackerInv`: charges
add up (`ChargesAddUp`) and the health follows the counters
(`HealthFollowsCounters`). `DisabledForGood`.

*Routing.* `CatalogInv`, `GenerationTracks`: admission is all or nothing and
`generation()` says so. `DecisionsFresh`: every decision `resolve()` acts on
answers a probe of the claim that is admitted now, for this request, route and
configuration. `PolicyDecides`: the best claim wins and a pin fails closed.
`RepeatIsStable`. That the two routes never share an instance
(`RoutesKeepApart`) is proved.

*Boundary.* `CallsAreServed`: through every view method and on every release of
the host, a call jumps only through a slot that host set, and a write the host
never saw is an error. `ReleasedOnce`: everything that crosses is released exactly
once. `EntriesWereWritten`: every entry of a returned list was written by the
host. `DecodesWhatWasSent`: a buffer that was not cut, with or without a field
unknown to the consumer and from a producer that knows fewer fields, decodes to the
object that was serialized, but for an enumerator of a newer release, which becomes the
default; only a grid map with a wrong layout is refused.
`ReadBack`: an accessor returns what the last setter that concerns it wrote.
`HostTableFollows`: after a read the host's table is the plugin's.
`EventsReachTheirHandler`: an event reaches the callback of the action that made it,
also in an older plugin, and a damaged one never falls through to a lower channel. `VerdictIsRight`: a snapshot is accepted
exactly when it is a forest. `CodeOutlivesItsUsers`: every jump lands on code the
author filled, and every open is closed by its last holder (`JumpsLandInPlugin`,
`OpensAreAccounted`). `SuccessIsOneRecord`: a functional parse succeeds with one
accepted record or not at all.

## 5. Proofs

Eight modules hold theorems, checked by TLAPS for every value of the constants.
Each inductive invariant was first checked by TLC on a small instance.

**ProviderJobProofs.** `Invariance` proves `IInv`, a conjunction of one part per
mechanism: `StartInv` (gate), `CallInv` (who may be inside which call),
`HookInv` (`hook_running` is true exactly while some canceller is between taking
and clearing the hook, and at most one is), `WatchdogInv`, `JoinInv`,
`DestroyInv`. None of the safety properties is inductive alone: that no hook runs
at the terminal needs `hook_fired` from `disarmHook()` on, which needs that only
`disarmHook()` and a taker set it. `Safety` and `HookOnce` follow, and
`Refinement` shows that each step of the job is a step of `JobContract` or a
stutter under the mapping.

**RequestCacheProofs.** `CacheInvariance` proves `CacheInv`: the locks exclude,
what is published is durable, and each program point of `lookup()` and
`commit()` knows what it has established. `CacheSafety` and `CachePins` follow;
the latter is an action property, that no step changes a leased file, and rests
on the exclusion of the two lock modes. `CleanupStopsAtBudget` proves
`StopsAtBudget` from `BudgetInv`, which says what an actor knows of the budget at
each point of `cleanup()` if its scan read every size and nobody has published since: the bytes it
has counted and those it has yet to scan are at least the bytes there are
(`TotalCovers`), the free space it reckons with is there (`SpaceIsThere`), and both
are exact when one process cleans. `MetIsUnderBudget`, that a target called met is
met, needs no more and holds for any number of cleaners; that nothing is evicted
under budget needs the hypothesis that one process cleans at a time, since two
cleaners that scanned the same excess both evict for it, and each counts only its
own removals. The sums rest on a law
of `MapThenSumSet` over a finite set (`SumLaw`: any element may be taken out
first), proved by smallest counterexamples with the library's `WFMin`, which takes a
set where the induction theorems take an operator.

**ImportHostProofs.** The machines of the import side, each proved about the
composition `MCSpec` of the run. `ImportSafety` and `ImportEndsWithJob` need
`ImportIInv`: the set of usable slots decides which way `startImport()` goes
and when dispatch is disabled (`SlotsDecide`), nothing was dispatched before the
provider accepted (`QuietBefore`), the context is freed only after a refusal or with
a job that was destroyed (`ContextFollowsMain`), a provider with a destroy slot is
in one thunk at a time and over when destroyed (`Serialized`), and the terminal it
delivers is entered once (`TerminalCounted`). The context of a job that cannot be
stopped stays disabled (`LeakedIsInert`), which makes its late thunks harmless.
`PromotionSafety` adds to `BlockInv` that the block's state follows the request's
(`BlockFollowsRequest`); `LatchFirstSettleWins` is an action property.
`PollerSafety` adds that the thread acts in one round only (`ThreadActsOnce`).

**DataSourceProofs.** `SourceSafety` from `SourceIInv`: the state is the one the
call under way leaves (`StateFollowsCalls`, `StateIsAnswer`), a ledger is sealed
once (`SealedOnce`), the evidence the host keeps was earned (`EvidenceIsEarned`),
and the messages with the host, in the batch and in the queue, one after the other,
rise by their number (`FlowInOrder`) with none missing that was not given up
(`NoneMissing`). `RisingConcat` and its like are the lemmas about sequences.

**ParserModuleProofs.** `ModuleInvariance` proves `ModuleInv`: issued tokens never
lie ahead of their slot's generation, slots own distinct live instances, handles
own distinct tokens, and calls work on an instance of their handle. From it,
`TokensStayStale` and `HeldInstancesLive`, for every `Width`: the wrap of a
generation to zero retires the slot. `HostModuleAgreement` adds that every live
instance is in a slot or belongs to a call under way (`AliveOwned`) and that a
handle that believes it is bound is right, during its calls too (`RoutesAgree`).

**StrikeTrackerProofs.** `TrackerInvariance` and `TrackerDisables`: the number of
charged violations is determined by strikes, quarantines and health.

**RouteResolverProofs.** `NormalForm`, the idempotence of
`normalizeParserTypeName()` for every name, gives `CatalogInvariance`: a claim
that was valid under the name it was declared with is valid under its normal
name. `GenerationCounts` is an action property. `ResolverSafety` and
`ResolverPolicy` prove `DecisionsFresh`, `BestWins`, `PinHolds` and
`RoutesKeepApart` from `ResolverInv`: every cached answer carries the probe its key
names (`CacheHonest`), and during a call every candidate is either still to come or
was refused (`Walk`). `BestWins` needs in addition that the policy order is
asymmetric. `ResolverRepeats` needs to know what a call has yet to find: the cache
holds one answer per key (`CacheFunctional`) and all that a call considered
(`Remembered`), what a call returned follows from what it considered
(`AnswerExplained`), and the answers cached for the candidates that are left make a
repeated call return the same (`Forecast`).

**BoundaryProofs.** Eight machines of the boundary, each about its own
specification, and the numbers on the wire.
`OwnershipReleasesOnce`: a resource that is not released has exactly one place, a
holder or the host's store, and one that is released has none.
`ParserDeliversOnce`: the sink's count, its record and its refusal agree at every
point of a parse.
`ListsAreWritten`: what was filled is the smaller of the buffer and the total. It has
the hypothesis `Callers \subseteq CarefulViews`: the other two callers of the header
violate the property, which is the run `list_growth`.
`ServicesAreServed` rests on `TablesGuarded`: in each of the fifteen tables, a slot
appended after the first release is guarded by a check of its presence, and only a
read may answer its absence without an error.
`TreeVerdict`: items that were finished lie on no cycle (`DoneIsAcyclic`), the
current path is a chain of parents (`PathIsChain`), so that meeting an item of it
closes a cycle, a cycle the walk has touched goes through the item it is at
(`PathLeadsHere`), and the items before the start of the walk are finished
(`BeforeIsDone`).
`PluginsOutliveUsers`: what a handle, a borrowed dialog or an anchor holds was
admitted by a library (`HeldIsAdmitted`), each instance has one owner (`OneOwner`),
and the count of opens is the number of tokens held plus the widget files that are
never closed (`OpensCounted`); admission demands every slot the handles of the family
jump through (the `Demands` lemmas).
`TablesFollow`: until the host has applied the sequence number the plugin gave its
delta, its table is the base the delta was made for, and afterwards the one the plugin
means (`TableInv`). The delta is replayed in the order of the view: cells, removals
from the highest row down, rows appended. `RemovalsLeave`, that removing one row after
the other down a falling list leaves exactly the rows kept, is the lemma it needs,
proved by smallest counterexamples with `WFMin`; a list that does not fall loses it.
`AccessorsReadBack`: an accessor and a setter fit when the setter leaves the
accessor's keys alone, writes all of them in the kind the accessor reads, or takes one
away (`Fits`). `HeadersAgree` shows it of the 87 accessors and the 82 setters, one pair
of tables after the other, because keys of different families are apart; `WidgetInv`
then says that the document carries the last value written for the accessor or is
silent about it.
`EventsArrive`: each key of a legacy channel is asked for at one place of the chain
(`ChannelsHaveHomes`), so an event with the keys of one channel reaches its callback
(`LegacyBuilds`); a spoiled picker event is dropped (`SpoiledPickerDrops`), and whatever
an event holds the channel that claims it decides (`ClaimDecides`). `EventInv` relates
the event to the action: the payload, or the payload with one value gone wrong.
The numbers, for every even size of the two words: `CombineIsExact` and
`CombineStaysInTheWord`, that `combineSecondsAndNanos` accepts exactly the pairs whose
time the word holds and that none of its intermediate values leaves the word, which is
what the rebasing of negative seconds is for; `MembersComeBack`, the conversions of
numeric varint members; `EnumeratorsComeBack` and `UnknownNumbersFallBack`, that the
numberings of the enumerations are inverse to each other and that every other number is
read as the default, so that no number on the wire becomes a value without an
enumerator; `TimesComeBack`, that every time survives `splitTimestamp`, the wire
and `combineSecondsAndNanos`. They rest on `AtMostQuotient` and `AtLeastQuotient`,
which turn a comparison with a truncated quotient into one with a product.

Assumptions: the named `ASSUME`s of the modules, which TLC evaluates in the runs.
They say that threads, pollers and the null value are distinct, that bounds are
numbers, that generations have at least two values, that 0 is not a widget value and
`"none"` and `"bad"` are no paths, and that words have an even size of at least 16
values and a second of nanoseconds fits the signed 32-bit one; for routing, that claim ids
have a lexicographic position each and that artifacts hold values of the right kind,
never that they are valid.

Only model-checked:

- `CancelReachesHook`, `OwnerCallsReturn`, `HostReturns`, `WaitEnds` and
  `StopIsServed`: fairness and `ENABLED` are beyond the prover.
- `EvictsOnlyOverBudget` where several processes clean: it does not hold there.
- `DecodesWhatWasSent`: the codecs are recursive operators, and what they compute for
  every buffer is an induction over data. Its numbers are proved (`MembersComeBack`,
  `TimesComeBack`).

## 6. Where the code and its comments disagree

Four disagreements are runs that TLC refutes:

- `job_body_locals`: `provider_job.hpp` says that captured body-locals outlive
  every invocation of the hook, but `disarmHook()` waits only after the body has
  returned and its locals are gone.
- `cache_commit_hit`: `request_cache.hpp` says that a Hit always names a file that
  existed under its held lease, but `commit()` re-checks the file only when the
  conversion of its lock fails. An evictor inside the window of a conversion that
  succeeds leaves a Hit without a file.
- `list_growth`: `plugin_data_api.h:894` says the total lets the caller detect
  truncation and resize, and `detail::listBorrowedStrings` does; `listTopics()`
  (`plugin_data_api.hpp:836`) and `DataProcessorsHostView::list()` resize to the
  second count without a check and return entries the host never wrote.
- `codec_truncation`: `protobuf_wire.hpp:317` says `parseFields()` returns false
  on truncation; a handler that fails is taken for an unknown field and followed by
  a skip from where its read stopped, which may succeed (line 330).

Others met while modelling, not kept as runs:

- `plugin_data_api.h:74` says a tail slot must be read only after `struct_size`
  was tested; five methods of `ToolboxHostView` (`plugin_data_api.hpp:1507`, 1542,
  1565, 1603, 1626) pass the slot as an argument to `hasTailSlot()`, which reads it
  first. The model has this as the check `"argument"`: the call is never made, the
  read is past the table.
- `MessageParserHandle::classifySchema()` overwrites the expected object type of the
  bound schema (`message_parser_handle.hpp:229`), so asking about another schema
  changes what the next parse accepts, where line 541 says the type is the bound
  schema's.
- `data_source_protocol.h:72` calls stopped and failed terminal; `stop()` takes
  a failed source to stopped. An override that throws in `start()` leaves the
  source in `starting` and its progress bar open, because the trampoline catches
  past `data_source_patterns.cpp:13`. `FileSourceBase::stop()` announces nothing.
- `current_state` is tagged thread-safe (`data_source_protocol.h:575`), and
  `state_` is a plain member.

- `armWatchdog()` is documented to fire if the body is still running; the timeout
  may also elapse between the body's return and `stopWatchdog()`
  (`provider_job.cpp:151`).
- A second hook registered after the first one has fired is dropped
  (`provider_job.cpp:177`), where the header says a late hook runs at once.
- `acquireReadLease()` marks every failure retryable (`request_cache.cpp:390`),
  also a lock file that cannot be opened.
- Two cleanups at once: the second does not credit what the first removed
  (`request_cache.cpp:563`) and may evict from a cache already under budget. For
  this reason `cache_evict` has one cleaner.
- `startImport()` destroys a job that lacks only cancel or join through its still
  enabled context (`descriptor_import.hpp:374`), so `on_terminal` runs in a call
  that returns an error, which the comment at line 319 excludes.

## 7. Plan

Done: job, contract, cache, host view, promotion, poller, module table, strikes,
catalog, resolver; then the boundary: service tables, ownership, lists, codecs,
dialogs, libraries, functional parsers; then data sources with ledger, completion
and stream; proofs of every safety property of the runs but one.

Next, in this order:

1. **Composition** of job, host view, promotion and poller, with the job replaced
   by `JobContract`, so that the interplay of Stop, cancel, promotion and the
   terminal is checked in one run.
2. **Pure algorithms** against reference definitions: order of semantic versions,
   limits, timestamp policy, validation of parse results, CDR alignment.

## 8. Not modelled

Error texts, traces and diagnostics; JSON syntax and the bytes of ABI structures;
SHA-256; directory scans, `dlopen` itself and other I/O without control of its
own; manifests and statically linked plugins; floating-point values, which the
codecs carry as they are; the parser module's readers, field locators and object
writer, and the validation of its results, which are pure functions of one buffer;
descriptors, origins, presentation, limits, versions and formats of times, which
are pure functions on texts; the reflection table `field_table.hpp`; examples,
tests and build files. Weak memory is not modelled: the code's atomics
are acquire/release on single words whose protocols the models treat as
sequentially consistent steps. Re-entrant calls of the resolver from a probe
callback are excluded, as no caller makes them.
