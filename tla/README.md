# A verification of cost-calculator

cost-calculator is an HTTP service that computes what the use of a SENERGY platform costs its
users in a month: it queries Prometheus for the use of CPU, memory, storage and requests, multiplies
by prices, and groups the result into a tree of costs; and it estimates what analytics flows and
imports will cost. It stores nothing but a cache of flow estimations in memory. This directory models it in TLA+; TLC checks the models on small
instances, and TLAPS proves their safety properties for instances of any size.

All paths below are relative to the repository's root.

## 1. Inventory

| Component | Code | State it keeps | Operations | What is hard about it |
|---|---|---|---|---|
| Flow estimation | `pkg/controller/flow_estimation.go` | `flowCache`, `flowCacheMux`: shared by all handlers | `GetFlowEstimations` | access checks, cache and statistics of concurrent handlers; early returns with a mutex held; expiry while a handler works |
| Pod statistics | `pkg/controller/pods.go` | per call: `resultMap`, `mux`, `superErr` | `getStats`, `upsertPodStats`, `queryCpuRam` ... | three goroutines merge into one map, race for one error |
| Cost tree | `pkg/controller/cost.go` | per call: `res`, `mux`, `superErr` | `GetCostTree`, `GetCostControllers` | six goroutines, some of which do not lock |
| Analytics, imports | `analytics.go`, `imports.go`, `util.go` (`buildTree`) | none | `GetAnalyticsTree`, `GetImportsTree` | statistics that lack labels |
| Process tree | `process.go` | per call: the tree, totals, factors | `GetProcessTree` | a dozen queries, any of which fails; maps in any order; pods of one worker; zero sums |
| Devices tree | `devices.go` | per call: page, tree | `GetDevicesTree` | paging while devices change; samples that are missing |
| Exports tree | `exports.go` | per call: sizes, tree | `GetExportsTree` | whose exports; two answers combined |
| API calls tree | `api_calls.go` | per call: tree | `GetApiCallsTree` | each sample rounded, estimations reset per sample |
| Import estimation | `import_estimation.go`, `pkg/api/import_estimation.go` | none | `GetImportEstimation`, for one type or a list | one of a list fails |
| Time windows | `util.go` (`defaultStartEnd`), `endOfMonth` in `pods.go`, `devices.go`, `exports.go`, `api_calls.go` | the clock, the zone | | turns of month and year, UTC against local time |
| Lifecycle | `main.go`, `pkg/init.go`, `pkg/api/api.go` (`Start`) | wait group, context, server | start, signal, shutdown | requests during a shutdown; handlers that never return |
| Endpoints | `pkg/api/*.go` | per call: status, body | seven routes | whose costs are asked for; what becomes of an answer that cannot be encoded or comes too late |
| Client | `pkg/client` | none | six calls | agreement with the endpoints: what survives a query, and the types of bodies |
| Configuration, prices, types, middleware | `pkg/configuration`, `pkg/model`, `pkg/api/util` | constant after start | | |

How they interact: `main` starts the server; its handlers call the controller concurrently, one goroutine
each. `GetCostTree` starts a goroutine for each tree; the process, analytics and imports trees call
`getStats`, which starts a goroutine for each kind of cost. All of them call remote services
(Prometheus, permission-search, analytics-serving, analytics-parser, user management) synchronously. The only state
that calls share is `flowCache` with its mutex; the goroutines of one call share the map, the mutex and the
error of `GetCostTree` and of `getStats`.

What makes each component correct is stated by the properties of section 3; what can go wrong, line
by line, is in `hazards` of `PROJECT.json`.

## 2. Modules

| Module | Models | Correspondence |
|---|---|---|
| `FlowEstimation` | `GetFlowEstimations` | `pc` is a handler's place in the function; the locals `flows`, `allFlowsCached`, `estimations` keep their names. An estimation is the flow it is for, when it was entered and when its statistics were queried. |
| `CheckedCache` | what callers are promised of `flowCache` | abstract: calls that are granted their flows one by one, and answered from the cache or with entries of their own; no mutex, no program counter |
| `PodStats` | `getStats`, `upsertPodStats` | one process per kind of cost; looking an entry up and writing it back are two steps; `superErr` is an interface value of two words, written one by one. Names are short sequences of letters, since the code concatenates them to a key. |
| `CostTree` | `GetCostTree` | one process per branch; an assignment to the map has a beginning and an end, and an overlap may lose entries or end the process, as the Go memory model and runtime have it. A tree is reduced to whether its month is zero. |
| `ForkJoin` | what the callers of `getStats` and `GetCostTree` are promised | abstract: tasks that finish or fail, a caller that waits for all, and perhaps a crash |
| `ProcessTree` | `GetProcessTree`, `getProcessDefinitionFactors` | `phase` is the statement that comes next; loops over maps visit in any order; every query answers anything of a small set or fails. |
| `DevicesTree` | `GetDevicesTree` | the loop over pages, with `found`, `limit` and `after`; other users create and delete devices between any two steps. |
| `ExportsTree` | `GetExportsTree` | samples are inserted one by one, in any order. |
| `MonthWindow` | `defaultStartEnd`, `endOfMonth` | a clock in hours, the Gregorian calendar from a first year on, and the zone of the process. |
| `QueryCpuRam` | `queryCpuRam` | predictions with fingerprints that are words of any even number, sorted and searched as `slices` does, by the comparator of the code with its overflow. |
| `TreeBuild` | `buildTree` | the recursion over the labels, as a function of how many are left and of the statistics to group, against a definition of what each node costs. |
| `EstimationMath` | the grouping in `GetFlowEstimations`, `GetImportEstimation`, `calcMinMaxMeanMedian` | the two maps of lists, filled statistic by statistic, against what each figure ought to be of the statistics at some places; a name is what splitting it at `--` gives. |
| `ApiCallsTree` | `GetApiCallsTree` | the loop over samples, whose labels are read in any order; a name is what splitting it at `_` gives, and `multiplier` is a fraction by which each sample is extrapolated and rounded. |
| `Calculations` | | composes the five modules before it that compute something of a request's answers |
| `Rest` | `pkg/client`, `pkg/api` but for `Start`, `GetCostControllers` | a call from the client's arguments to the caller's result: what is sent, what the endpoint makes of it, the controller's outcomes, status and body, decoding. Calls share a process that may crash and be started again, and the flow estimation's mutex. |
| `Lifecycle` | `main`, `pkg.Start`, `api.Start` | the goroutines of `main` and of the server, and the life of each request. |
| `FlowEstimation_proofs`, `CostTree_proofs`, `PodStats_proofs`, `ProcessTree_proofs`, `DevicesTree_proofs`, `ExportsTree_proofs` | | theorems about the module each is named after, section 5 |
| `Server_proofs` | | theorems about the calls (`Rest`), the process (`Lifecycle`) and what is calculated (`Calculations`), which share no names |
| `Sums` | | lemmas about sums over finite sets, and induction over their subsets, for the modules above it |

`MC...` modules give the constants their values. Operators marked `Bug:` are mistakes the code could
have contained, used to see that each property tells the code from a mistake; they are part of no
specification.

Composition. A call's outcome is what the layers above see of it. Two abstract specifications say so, and the
detailed ones are shown to implement them:

- `ForkJoin`, by `PodStats` without and by `CostTree` with crashes (`ImplementsForkJoin`): an answer when every
  goroutine has finished, and an error exactly if one of them failed. The mapping takes a goroutine that has
  finished for a task with an outcome, and whatever it does before for a stutter. This is all that `ProcessTree` (`GetWorkerStats`,
  `Fail`), `FlowEstimation` (`GetStats`, `GetStatsFails`) and `Rest` (`TreeAnswers`, `TreeFails`, `Crash`) use of them.
- `CheckedCache`, by `FlowEstimation` (`ImplementsCheckedCache`): the cached answer of a handler is taken at the moment it
  leaves its section, and its entries were valid when it got the mutex.

The outcomes `tree`, `zero` and `error` of the branches in `CostTree` are the ends of `ProcessTree`, `DevicesTree` and
`ExportsTree`; the requests that may stick in `Lifecycle`, and the mutex that may be leaked in `Rest`, are those of `FlowEstimation`, and the
crash of a handler in both is that of `CostTree`. `Calculations` runs the calculations of one request's answers side by
side; each has state of its own, so that its behaviours are theirs.

Arithmetic. Costs, prices and hours are small integers: the code's are `float64`, whose precision is not
modelled. The one place where the code rounds a value, `math.Round` of each sample's estimate (`api_calls.go:105`), is: the multiplier is a fraction, and a half is rounded up. In floats
the multiplier may be a little off, so that an exact half may go either way; `MCMultipliers` has odd denominators, with which there is none. The multiplier of `DevicesTree` is whole, because `devices.go:237` does not round. What a process definition costs is kept as a fraction, with the denominator 0 for what is not a number.
The costs that estimations are of are multiples of two and of each number of statistics (`CostsAssumption`), so that means and medians are whole. CPU, RAM and storage, month and estimation are one number where the code treats them
alike.

## 3. Runs

| Run | Instance | What it shows |
|---|---|---|
| `flow_estimation` | 3 handlers, 2 flows, lists of up to two of them, age limit 0, clock up to 1 | `MutualExclusion`, `AnswerIsChecked`, `AnswerIsFresh`, `LeakOnlyByAccessCheck`, `CacheOnlyRenewed`, `ReturnsUnlessLeaked`, `ImplementsCheckedCache` |
| `pod_stats` | 3 kinds, all 108 combinations of answers | `CostsMatchQueries` and `LabelsOfEverySample` (no goroutine undoes another's work), `ErrorSurvivesRace`, `ImplementsForkJoin` |
| `cost_tree` | 5 of 6 branches | `CrashHasCause`, `ErrorSurvivesRace`, `CompleteUnlessRaced`, `ImplementsForkJoin` |
| `process_tree` | 2 namespaces of workers, 2 of process-io, 4 sets of pods, 4 answers of increases | `WorkersMatchStats`, `DefinitionsSplitOnePod`, `SharesMatchStats` |
| `devices_tree` | 3 devices, pages of 2, 3 changes | `EachDeviceOnce`, `Terminates`, `RootMatchesDevices` |
| `exports_tree` | 2 exports of the user, one of another | `RootMatchesExports`, `OnlyMyExports`, `EstimationCoversMonth` |
| `calculations`: window | hours 745 to 11000, 5 zones | `WindowCoversMonth`, `ShrinksAtMonthsEndOnly` |
| `calculations`: cpuRam | up to 4 predictions, fingerprints of 8 words | `NoOthersPrediction`, `PredictionFound` |
| `calculations`: tree | up to 4 statistics, 8 sets of labels | `NodesCostTheirStats` |
| `calculations`: estimation | up to 4 statistics of 3 containers and a flow, 2 costs | `FiguresAreExact`, `OrderMattersForOwnStatsOnly` |
| `calculations`: apiCalls | up to 4 samples of 2 consumers (and one that is not the caller's) and 3 services, 2 values; multipliers 7/5 (early in a month) and 2/3 (on its last day, `end` after `nextMonth`) | `TreeMatchesAnswer`, of which `RoundingStaysSmall` is a part |
| `rest` | 2 concurrent calls, each with any of 14 requests | `AskedAsRequested`, `ResultIsTheAnswer`, `ReturnsUnlessDenied` |
| `lifecycle` | 3 requests, 2 of which may stick | `NobodyCutOff`, `ExitOnlyWhenCancelled`, `ExitsUnlessStuck` |

The runs of `flow_estimation` and `process_tree` check `TypeOK` too; that of `CostTree`, `PodStats`, `ExportsTree` and
`Lifecycle` is only proved. What a property says, and of which code, is in the comment
above it.

Why the bounds are enough. Flow estimation: a third handler is needed to change the cache while one
holds its place between check and answer and another waits; two flows are needed for a list of which one
is cached; with an age limit of zero and a clock up to one an entry can be valid, expire while a handler is
at work, and be renewed. Pod statistics: the answers contain keys that collide within a kind and between
kinds, two volumes of one pod, a missing label and a failure. Cost tree: two branches
that do not lock and all three that do have every pair of kinds, and the outcome without a user's name is among them; the sixth
branch is like the first. Process tree: a worker has two pods in one namespace and more in the
other; increases are uneven, of one definition only, or zero. Devices: which of three are owned is arbitrary, so that pages of two end with one that is not full, or with a
full and an empty one; three changes put a device before and behind the place
reached. Months: the instance has a leap February, every length of month, and December twice.
Statistics: the costs `MCStatCosts` are powers of two, so that a sum tells which statistics it is of. Exports: one of another user is in an admin's
list; predictions are negative, zero and positive. Predictions: with four of them
the comparator is no order of fingerprints that are spread over the range, which eight words are enough for, and one may be missed; three are found
wherever they lie but for exact halves of the range. Estimations: one to four statistics have every parity of a
median, with an operator that never ran, a container whose name cannot be split, and several statistics of a flow. Requests:
the caller's name is the beginning of another consumer's and of a service's, so that prefixes are ambiguous. Calls: two are what
it takes for one to crash, or to lock out, the other; the requests have each operation, each kind of token, ranges of each
zone, an unknown type of cost, lists of none and of two ids, and an id that no URL can have.

`CHECK_DEADLOCK FALSE` is said in all of them: a call ends, the clock is bounded, a process exits.

### Runs that find a violation

| Run | What the repository says | What the code does |
|---|---|---|
| `flow_leak` | "This is also an access check, don't cache across different users" (`flow_estimation.go:35`) | a failed check returns with `flowCacheMux` locked (line 38): all later calls, of any user, wait for ever |
| `cost_tree_race` | `mux.Lock() / res[...] = ... / mux.Unlock()` (`cost.go:88-90`) | three branches assign without `mux` (lines 62, 75, 107) |
| `devices_month` | "Costs in current month" (`devices.go:185`) | the block adds nothing to a month; the next one does, from predictions |

### Deviations seen on the way

The models follow the code in these, and no run is about them:

- `pods.go:39` says that a prediction excludes a range; the filter of process-io has both (`process.go:248-254`).
- `endOfMonth` is the beginning of the month's last day, so that the remaining time is negative on that day
  (`pods.go:306`, `devices.go:182`, `exports.go:96`); `ShrinksAtMonthsEndOnly` says that it is negative then only.
- The default window starts on the last day of the month before (`util.go:136`); `WindowCoversMonth` says by how much.
- The timeout that `main.go:51` announces is armed by a closure that nothing calls, and the server is shut
  down without a deadline (`api.go:52`); `ExitsUnlessStuck` says that only a stuck handler keeps the process from its exit.
- Predictions are sorted and searched by a difference of unsigned words that is cut to a signed one
  (`pods.go:229`, `247`), which is no order: with more than three series the search may miss a prediction that is there, and the estimation is then the
  month's cost. As fingerprints are hashes spread over all words, this is the normal case. `PredictionFound` says when it cannot happen, and
  `NoOthersPrediction` that no other series' prediction is taken instead.
- A flow's own statistics replace each other (`flow_estimation.go:80`), so that its estimation depends on the random order in which
  `getStats` returns them; `OrderMattersForOwnStatsOnly` and `FiguresAreExact` say so.
- Estimations of clients and services are reset for each sample (`api_calls.go:106`, `108`); `TreeMatchesAnswer` says that only the root's is a sum.
- `GetCostControllers` asks `GetApiCallsTree` for the user's id (`cost.go:36`), `GetCostTree` for the user's name (line 101).
- The client's `GetFlowEstimation` decodes one estimation where the endpoint sends a list, and always fails
  (`client/flow_estimation.go:33`, `api/flow_estimation.go:47`); `GetSubTree` decodes a map of trees where the endpoint sends one
  (`client/tree.go:62`), whose fields it takes for types of cost. `ResultIsTheAnswer` excepts both.
- Costs that are no number cannot be encoded: the status is 200 and the body empty (`api/costs.go:96`), which the client returns as
  the zero value without an error (`client.go:56`); `ResultIsTheAnswer` says that these are trees with processes only.
- A time whose zone is east of UTC is sent with a `+` that the server reads as a space (`client/tree.go:30`), and is refused; `AskedAsRequested` says
  that it is never replaced by the default.
- `http.NewRequest`'s error is looked at after its request is used (`client/flow_estimation.go:29`): the client panics (`CallPanics`).
- The root's storage estimation lacks what its devices' have (`devices.go:220`); `RootMatchesDevices` says how much.
- Only the first pod of a worker has its process definitions in the tree (`process.go:112-118`, `155`), and they are not numbers
  when no definition had an increase (`process.go:322`); `DefinitionsSplitOnePod` says so.

## 4. Fairness

`FairSpec` is weak fairness of what the process does by itself, per goroutine: the Go scheduler runs
every goroutine that can run, and remote services are assumed to answer or to fail. (The
code sets no timeout on its queries; one that hangs is outside this assumption.) Weak fairness is
enough for a mutex that is released again and again only because every handler makes a bounded number of calls in
the model; Go's own mutex hands itself over to a waiter after a millisecond, which is stronger.
Nobody has to call, to send a signal, to create a device, and time need not pass. In
`Lifecycle` a running handler is only assumed to answer, to stick or to crash. In `Rest` handlers and callers go on and responses arrive; no
deadline has to pass, no crash has to happen, and a crashed process need not be started again.

## 5. Proofs

Every theorem is proved for all values of the constants that satisfy the assumptions of the module it is about:
any handlers, flows, answers of queries, branches, requests, devices, exports, page and age limits, calendars, words, samples, labels and statistics. TLC checks the same
properties on the instances of section 3. Few of the properties are inductive; a `..._proofs` module begins with the parts of
the invariant (`IInv`, or one named `...Inv`) that make them so, and has a lemma for each part, or for each action, that a step preserves it. TLC can check the `IInv` of a
component's `_proofs` module as well, as an invariant of the run's configuration, in a module that extends it and the `MC` module; `Server_proofs` is about three
independent specifications, so that its parts must be checked one by one, next to the specification they are about.

| Module | Theorem | States |
|---|---|---|
| `FlowEstimation_proofs` | `TypeCorrect`, `Exclusion`, `LeakCause` | `TypeOK`, `MutualExclusion`, `LeakOnlyByAccessCheck` |
| | `Checked` | `AnswerIsChecked`: an answer has one estimation for each flow of the list, each granted in this call |
| | `Fresh` | `AnswerIsFresh`: no answer from an entry that had expired when the handler got the mutex |
| | `Renewed` | `CacheOnlyRenewed` |
| | `Refinement` | `ImplementsCheckedCache` |
| `PodStats_proofs` | `CostsCorrect`, `LabelsCorrect` | `CostsMatchQueries`, `LabelsOfEverySample` |
| | `ErrorReturned`, `Refinement` | `ErrorSurvivesRace`; `Spec => Kind!Spec`, the safety part of `ImplementsForkJoin` |
| `CostTree_proofs` | `CrashCause`, `ErrorReturned`, `Complete` | `CrashHasCause`, `ErrorSurvivesRace`, `CompleteUnlessRaced` |
| | `Refinement` | `Spec => Branch!Spec`, the safety part of `ImplementsForkJoin` |
| `ProcessTree_proofs` | `TypeCorrect` | `TypeOK`: no cost, factor or total is negative |
| | `WorkersMatchStatsHolds`, `SharesMatchStatsHolds` | `WorkersMatchStats`, `SharesMatchStats` |
| | `DefinitionsSplitOnePodHolds` | `DefinitionsSplitOnePod` |
| `DevicesTree_proofs` | `PagesOnce`, `RootMatches` | `EachDeviceOnce`, `RootMatchesDevices` |
| `ExportsTree_proofs` | `OthersAreFree`, `EstimationsCover`, `RootMatches` | `OnlyMyExports`, `EstimationCoversMonth`, `RootMatchesExports` |
| `Server_proofs`: calls | `AskedAsRequestedHolds`, `ResultIsTheAnswerHolds` | `AskedAsRequested`, `ResultIsTheAnswer` |
| `Server_proofs`: process | `ProcessTypeCorrect`, `OrderlyExit`, `ExitCause` | the process's `TypeOK`, `NobodyCutOff`, `ExitOnlyWhenCancelled` |
| `Server_proofs`: calculations | `WindowCovers`, `ShrinksAtEnd` | `WindowCoversMonth`, `ShrinksAtMonthsEndOnly` |
| | `NoOthers`, `FoundIfAny` | `NoOthersPrediction`, `PredictionFound` |
| | `ApiCallsMatch` | `TreeMatchesAnswer` |
| | `NodesCost` | `NodesCostTheirStats` |
| | `FiguresExact`, `OrderMatters` | `FiguresAreExact`, `OrderMattersForOwnStatsOnly` |

`Invariant` (`Spec => []IInv`), or `ProcessInvariant`, is what the theorems of a module rest on; `TypeCorrect` is proved of `CostTree`, `PodStats` and `ExportsTree` too.

Flow estimation. `MutualExclusion` needs `MutexInv`, that a handler inside a section is
the one that holds the mutex. `AnswerIsChecked` needs `PipelinesInv`, that the pipelines got so far are a
beginning of the list and all of it once the checks are over. `AnswerIsFresh` needs `CachedInv`: as long as `allFlowsCached`
holds, the map has an entry for every flow checked, fresh enough for the time the mutex was taken; it survives the
steps of other handlers only because these may do nothing to the cache without the mutex (`MutexInv`) and because an entry's date is never in the
future. `EstimationsInv` carries the same over the answer while it is being built. `StatsInv` says that the statistics a handler has got were
taken after it got the mutex. With it each step maps to one of `CheckedCache`: granting a flow to `Grant`, the step that
leaves the section with all flows cached to an answer from the cache, storing an entry to `Enter`, everything else to a stutter.

Pod statistics. Looking an entry up and putting it back are two steps, so that a goroutine could undo what another put in between.
`LookUpInv` says that it cannot: what was looked up is what the map still has; the induction needs `MutexInv`, as only the
holder of `mux` puts. `ProgressInv` ties a goroutine's place to the number of samples it has merged; `KeysInv`, `MergedInv` and `LabelInv` say of the
map after any number of merged samples what the properties say of the whole answer. `ErrorInv` says of the two words of `superErr`, each of which may be
another goroutine's, that both are a failed one's; `ResultInv` carries it to what is returned. That the answers of queries are
sequences with costs in `Nat` is an assumption (`QueryOutcomesAssumption`).

Cost tree. `OverlapInv` says that overlaps are mutual and that one of the two branches does not lock, which takes `MutexInv` for two that do;
`FetchedInv` what a goroutine's place tells of its outcome, `ErrorInv` the same as above, and `ResInv` that without overlaps the map is what the branches have assigned.

Process. `WaitGroupInv` says what the wait group counts in each phase, so that `wg.Wait` returns only after the server's shutdown has; `CutInv` that nothing
but the process's end cuts a handler off.

Calls. `AskedInv` says how far a call can be in each of its places: the controller is asked once, of what passed the endpoint's checks, and estimates nothing before; `ResponseInv` and `ResultInv`
relate a response on its way, and a result, to the call they are of, so that no other call, crash or restart can put another's there.

Sums. The community modules define a sum over a set by a recursion that takes its elements in an order nobody knows.
`SumsExist` and `SumsAgree` show that there is the function the recursion describes, by induction over the subsets of a finite set (`SubsetInduction`, from
the library's theorem that proper inclusion is well-founded); `SumRemove`, that any element may be taken out first. What the trees use is that a sum grows with an element
(`SumAdd`), changes with one summand (`SumChange`), is that of two sums (`SumPlus`), and is the same wherever a bijection
takes the elements (`SumBijection`), as is their number (`CountBijection`).

Process tree. Loops over maps visit their elements in any order, so that the invariant says of each place what the visited ones have added: `WorkersInv`, that a worker costs its
share of the pods visited so far, its total is their sum, and the root's cost is the sum over the workers there are. Each loop's end then is the property for
all of them. `SeenInv` and `SharesInv`: factors and shares are those of pods whose sources the phases have passed, which none of the later phases changes.
`DefinitionsSplitOnePod` is proved on its own, as both it and `IInv` are inductive: the definitions of a worker are set when its first pod is added (`AddPodDefinitions`), by a division
that leaves no rest (`SplitWithoutRest`), and no later pod or share replaces them (`DefinitionsKept`).

Devices. `PagingInv`: the place reached, `after`, separates the devices listed from those to come, of those owned all along. A page must therefore be closed upwards
(`NextPageUpwards`) and, unless it is full, the rest (`NextPageLast`); both follow from the cardinality of what lies above a device. An empty page, for which `after` becomes empty, is
never full, so that no page follows it (`LastPageInv`). For the root (`CostInv`), each sample changes one device's summand and the root by as much.

Exports. `EstimationInv` says what an estimation is made of; it holds because months are inserted before any prediction (`PhaseInv`) and what is inserted is of the query made
last (`SamplesInv`). The root is the sum of the exports (`CostInv`) as long as each insertion changes both (`SumChange`). That an answer without a prediction is told from a prediction is an assumption (`NoPredictionAssumption`).

Windows. `daysBefore` is a sum over months, of 28 to 31 days each (`DaysStep`), so that months begin in the order of their numbers (`DaysMonotone`), every hour is in one
of those `MonthsAt` chooses from (`MonthsAtType`), and none in two (`OneMonth`). The properties then are linear arithmetic on the month's first day and the next one's. They need
that the zone is one of -12 to 14 hours and that the clock starts in the second month, as the window of the first starts before the calendar does.

Predictions. Sorting and searching are recursive functions, which TLA+ defines as a choice among functions with the recursion's property: `SortedRecursion` and
`SearchRecursion` show that there is one, by induction (`EveryNat`). `SortedType` then follows insertion by insertion: nothing is lost or made up, neighbours are in order if no two fingerprints are half the range apart, and all are if
no difference overflows. `SearchBorder` says that at the place found the comparison with the target turns, in any sequence. `FoundInOrder` combines both; `FoundOfThree`
follows the search through up to three elements, which it compares with nothing but their neighbours' equals. `NoOthers` needs no order at all: what is found has compared as
equal, and only equal fingerprints do, overflow or not (`CompareType`). `slices.SortFunc` sorts by insertion only below twelve elements; with more, the model
does not describe the order (`WordsAssumption`).

API calls. `Matches` states `TreeMatchesAnswer` for any tree and any samples; `AddedMatches` shows that it survives one more sample, level by level, from what that sample does to the
places of each client and service (`PlacesGrow`, `ServicePlacesGrow`) and to the sums and last values over them (`SampleRead`, and `SampleEstimated` for the root's sum of rounded estimates).
That the rounding stays small (`RoundingStaysSmall`) needs an invariant of its own: `NearMonth` says it of the samples, `RoundHalf` of one of them, and `StillNear` adds that one to the others.

Tree of statistics. `buildTree` recurs over the labels; `BuildRecursion` shows, as for the predictions, that there is the function its model describes, and `NodeRecursion` the same of following a path. `NodeOfPath` goes along a path by
induction: after `k` of its values the node is the tree, of the labels left, of the statistics that have these values (`Below`). That it costs what they do is `LevelCosts`: those with and
those without the next label are all, each once. The paths that go on are those of the next label's values (`OnwardOfPath`). The invariant is only that the tree is the one built of the statistics
collected, and that these are finitely many with numbers for costs (`TreeInv`); all else is a fact about `buildTree`, for any finite set of statistics.

Estimations. The invariant, `EstimationInv`, likewise says what the figures were computed from. `ListsHoldStats` shows, statistic by statistic, that an operator's list is of its statistics' costs and a flow's of its last own one's: there is a
bijection from the list's places to theirs (`ListOf`). It needs that flows' ids are not operators' (`ContainersAssumption`), as the code reads a flow's list from the map of operators, and would find an operator's of the same id. `SortedOrder` shows that
sorting is such a bijection too, whose costs ascend, since a place has as many before it as is its rank (`PlacesBefore`); so that the `k`-th of the sorted list is the `k`-th smallest cost (`RankOfSorted`), and the figures of the
list are those of the statistics at the places, however these were listed (`FiguresOfList`). As this holds of any list of the costs, an exchange of neighbours changes nothing when it moves the places of every operator and the last own one
of every flow to their places (`TurnMoves`, `TurnChangesNothing`). That the error differs from any estimation is `FailedAssumption`.

Only liveness is left to TLC, and with it the fairness that `ImplementsForkJoin` has and the proved `Refinement` has not: TLAPS proves no liveness under fairness.

## 6. What is not modelled

- The text of queries, the arithmetic of floats, and the cutting and matching of names; a name too short to cut is the
  crash of `CostTree`.
- Configuration, prices and middleware: constant after start, or without influence on a result. `GET /health` answers with nothing.
- That `flowCache` only grows: nothing in the code states a bound, and the model's set of flows is fixed.
- The filters given to `getStats`: each is a fact of one statement (`process.go:60`, `253`).
- A signal before `signal.Notify` was called, which kills the process at once.
- What remote services do beyond their answers, and the connection pool, with the retry of a GET that `net/http` makes on a reused connection.
  The flow parser is taken to answer with the id it was asked for, so that the key stored under (`flow_estimation.go:135`) is the one read by (lines 42 and 51).
- A list of no flows may fail in `Rest` for want of statistics, where the code answers it from the empty cache; and with a leaked mutex `Rest` lets no handler of estimations go on, be it past the mutex or not.
- The check of `getStats` that the filter is there and has both ends of a range or none (`pods.go:71-76`).

## 7. Plan

Done, in this order: the state that calls share (`FlowEstimation`), then that of the goroutines of one call
(`PodStats`, `CostTree`), then the trees (`ProcessTree`, `DevicesTree`, `ExportsTree`, `TreeBuild`, `ApiCallsTree`), the
windows (`MonthWindow`), the process (`Lifecycle`), the calculations (`EstimationMath`, `QueryCpuRam`), the way of a call from the client and back (`Rest`),
the abstract specifications (`ForkJoin`, `CheckedCache`), and the proofs of section 5.

Nothing is left of the plan but liveness (`ReturnsUnlessLeaked`, `Terminates`, `ReturnsUnlessDenied`, `ExitsUnlessStuck`), which is beyond the prover and stays
with TLC.
