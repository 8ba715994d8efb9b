# gcnport: specification and proofs

gcnport is a small C++ library that lets a title run GameCube code through a
fork of Dolphin's JIT, with a bounded interpreter fallback and native hooks, and
a set of Python tools that gate it. This directory holds TLA+ modules of its
stateful components, the TLC runs that check them on small instances, and TLAPS
proofs of most of what the runs check, for every value of the constants.

Run a configuration with `tlc -config X.cfg M`, a proof with `tlapm M.tla`.
`PROJECT.json` lists the runs, what each definition stands for in the source, the
hazards, the findings and the theorems.

## The system

| Component | State | Operations | Correct when |
| --- | --- | --- | --- |
| `ExecutionSession` | configuration, statistics that outlive a run | constructor, `run` and its dispatches | the JIT is offered every block first; the interpreter runs only after a typed refusal and within the budget; the statistics are what ran; every run ends |
| `FallbackLedger` | the budget | `can_enter`, `instruction_limit`, `record` | what it admits, limits and records agree with each other |
| `RuntimeBackend`, `DiagnosticsSink` | the guest; the embedder's | one call per block; one call per recorded event | interfaces: their replies and exceptions are inputs |
| `NativeHookRegistry` | hooks by key, a `shared_mutex` | `install`, `remove`, `find` | no code runs a selection that has been replaced; look-ups see whole changes |
| `OriginalCallCoordinator` | tickets by value, a mutex | `begin`, `claim_entry`, `complete`, `cancel` | a ticket lets the original body run once, under its own key, and leaves no block behind |
| `DolphinRuntimeAdapter` | the bindings Dolphin's session reaches by raw pointer | `install_hook`, `remove_hook`, destructor, `Invoke`, conversions | no pointer of the session outlives its storage |
| `GuestContext` | none | register and memory access, `call_original` | an index outside a register file reaches nothing; the rest is delegation |
| Verification gates (`tools/`) | the build trees, which survive | `verify_project`, `verify_runtime`, the test inventory | a gate that passes has built, run, linted and installed the repository as it is |
| Checkers | none | structure, dependency, embedding contract, hosted workflow | the text they accept is what the gate rests on |
| Host detection | none | supported targets, quality tools, compiler identity | no gate runs on a host nobody verified |
| Hosted workflow | a run and its jobs, at the hosting service | push, jobs, re-runs | a run that succeeds verified every target |
| Build files | caches of CMake | what is compiled, registered, switched off | the pinned Dolphin and its slice are what is built |

How they interact. The session calls the backend and the sink through virtual
functions and passes its statistics to the ledger at every call. The adapter is
the backend (and the `CodeInvalidator`) in front of Dolphin's `RuntimeSession`,
which in turn calls hooks back through `Binding::Invoke`. The registry and the
coordinator call a `CodeInvalidator` while they hold their lock; nothing under
`src/` dispatches through them (`docs/project-state.md:17-21`), so their clients
are modelled from what their headers ask of a client.

What is hard here: exceptions of a callee between two writes; a session used
again after any outcome; the remainder of a budget and 64-bit wrap-around; a
change of hooks between an invalidation and an assignment, with look-ups in
other threads; tickets presented twice, elsewhere or after a failure; raw
pointers whose owner is a map that may fail to grow; build trees, caches and
reports that outlive what they were made from. Each of these is a row of
`hazards` in `PROJECT.json`, at its line, with the properties that watch it.

## Modules

| Module | Models | Kind |
| --- | --- | --- |
| `FallbackLedger` | `fallback_ledger.cpp`, `execution_types.h` | operators on a budget and a statistics record |
| `ExecutionSession` | `execution_session.cpp` | state machine; EXTENDS `FallbackLedger` |
| `FallbackMeter` | what a fallback budget promises | abstract; `ExecutionSession` implements it |
| `HookKeys` | `ImageIdentity`, `ExecutionIdentity`, `HookKey` | types and `is_valid` |
| `NativeHooks` | `native_hooks.cpp` | state machine over threads |
| `OriginalCalls` | `original_calls.cpp` | state machine |
| `DolphinAdapter` | hook ownership in `dolphin_adapter.cpp` | state machine |
| `HookTable` | what a hook registry promises | abstract; `NativeHooks` and `DolphinAdapter` implement it |
| `OneShotTickets` | what a ticket promises | abstract; `OriginalCalls` implements it |
| `HybridRuntime` | conversions and dispatch of `dolphin_adapter.cpp`, `guest_context.h` | state machine; EXTENDS `ExecutionSession`, implements it over a Dolphin that conforms |
| `HostTargets` | `host.py` | operators on hosts |
| `TestInventory` | `dolphin_tests.py` | operators on hosts, listings and reports; EXTENDS `HostTargets` |
| `ProjectChecks` | `structure.py`, `dependency.py`, `dolphin_contract.py`, `ci_contract.py` and their `check_*.py` | operators on texts, manifests, checkouts and workflows |
| `VerificationGates` | `verify.py`, both gates, `CMakeLists.txt`, `DolphinDependency.cmake` | state machine; EXTENDS `TestInventory`, `ProjectChecks` |
| `HostedVerification` | `hosted-verification.yml` | state machine; EXTENDS `HostTargets`, `ProjectChecks` |
| `VerificationGatesSteps` | lemmas: what each step of the gates does | used by `VerificationGatesProofs` |
| `MC*` | values of the constants for TLC | |
| `*Proofs` | theorems about the module of that name | |

An operator introduced as "Mutation of X" belongs to no specification. It is the
form X would take after a plausible slip; `PROJECT.json` names the property that
is violated when it replaces X.

### ExecutionSession and FallbackLedger

The unit of a step is a virtual call: `phase` is the call the session is waiting
in (`in_jit`, `in_fallback`, `in_diagnostic`, `in_sink`), or `loop` at the head of
`run`'s loop, or `idle` between runs. A reply is an action of the callee
(`JitExecutes`, `JitRefuses`, ...), with everything the session does until its
next call or its return in the same step; an exception (`JitThrows`, ...) unwinds
to `idle`, because nothing in `run` catches. `Run` is enabled in `idle` whatever
happened before, since the code keeps no stopped state. `statistics` is the
member of that name. `backend` is not in the code: it tallies what the backend
did, so that the statistics can be compared with it; `base` is that tally at the
start of the run. `BackendConforms` says whether the backend keeps the contract
of `runtime_backend.h` and of the arguments it is given.

The budget and by-reason counters wrap at `MaxCounter` (64 bits in the code), and so
does the sum `record` compares: `RecordIsTheGrant` says when it accepts a block that
was not granted, which takes a backend that does not conform and a total within one
block of 2^64. `MaxCount` is the largest 32-bit block length. The JIT and diagnostic
counters are plain naturals: the code neither reads nor compares them. A sink that
calls the session again from inside a notification is not modelled.

Abstractly (`FallbackMeter`), a budget is configured once and then spent one
block at a time, each within the block limit and the totals.

### NativeHooks

A step is what a thread does between two points where another can run or a callee
can throw: lock, invalidate, assign, and so on. The `CodeInvalidator` may throw
before or after it has dropped code; `insert_or_assign` may throw for a new key;
copying the callable `find` returns may throw. The thread `Cpu` stands for the
code's client: it looks a key up, translates what it found, and `code` keeps what
was translated. Two statements of `native_hooks.h:69-70` are assumptions: changes
happen at a CPU safe point (`CpuSafe`, `Mutating`), and the invalidator does not
call back. Any number of other threads look up at any time.

Abstractly (`HookTable`), the registry is a table that changes at one key at once
or not at all, and each answer was its content at some moment of the call.

### OriginalCalls

Every operation holds the mutex throughout, so it is one step, with the outcomes
its invalidator and its allocation can have. `window`, `one_shot` and `entered`
are the dispatcher `original_calls.h:17-20` describes: it claims at the target,
compiles an unpublished block, runs it, and completes. Other operations wait for
the safe point, that is, for the window to close.

Abstractly (`OneShotTickets`), a ticket goes from unissued through pending and
claimed to spent, never backwards.

### DolphinAdapter

`bindings` is `bindings_`, `heap` the cells `make_unique` hands out and takes
back, `session` the raw contexts Dolphin's `RuntimeSession` keeps. An install is
three steps (allocate, point the session, store in the map), a removal two, the
destructor one per key and one for the members, so that what the session would
dispatch through is visible half-way. `RuntimeSession` is external: it refuses a
key of another identity, by throwing or by doing nothing, and changes nothing
when it throws; a removal that throws changes nothing at all, so it is no step.
A freed cell is handed out again, as an allocator may. The node that
`insert_or_assign` allocates for a new key may fail to be allocated; `lost` is a
history variable, the keys at which that happened and which were neither removed nor
installed since. The properties that finding 2 breaks are stated of every other key:
the damage stays where it happened and can be repaired. `Invoke` is `noexcept`: a
callback that throws, and an empty one does, terminates the process.

### HybridRuntime

The session, the adapter and what both ask of Dolphin, in one state machine. Every
action of the session that waits for its backend is replaced by what the adapter
does in that call; the other actions of `ExecutionSession` are taken unchanged
(`SessionAlone`). `control` is where Dolphin is inside `execute_jit_block`:
dispatching a block, in native code, executing. `call` follows one dispatch of a
hooked function: whether native code was entered or a ticket took its place, how
often it called the original, what it returned, how often the guest body ran.
`dolphin` are Dolphin's own books: the reason it kept from its last refusal (since
`execute_refused_block` names none) and its counters by reason.

Dolphin is external: it refuses for a reason of its own enumeration, may report a
kind of outcome the adapter does not know, and may or may not drop a ticket when its
hook changes. The adapter passes the guest address and the instruction count of an
interpreted block through unchecked (`dolphin_adapter.cpp:206-209`), so whether they
are those asked for is Dolphin's doing: the constant `DolphinConforms` says that they
are, and without it `InterpretRefused` reports anything. Both
enumerations of reasons are written out, in the order of their sources, because a
reason crosses as its byte. Hooks and tickets change between runs only, which is
the safe point `dolphin_adapter.h` asks for. What registers and memory hold is left
out; that an index outside a register file reaches nothing is part of
`HybridTypeOK`. An exception inside a callback ends the process.

Abstractly, the session over a Dolphin that conforms is `ExecutionSession` with
`BackendConforms <- TRUE` (`ConformingBackend`): the adapter adds no fault of its own.
What is proved for such a session (the budget, the accounting, justified stops, the
metered budget) is therefore proved over such a Dolphin (`PromisesKept`,
`MeterOverDolphin`), and Dolphin's own books balance with it (`DolphinsBooksBalance`).
That hooked bodies run as often as asked needs no such assumption.

### HostTargets, TestInventory, ProjectChecks

Pure operators. A text is the set of the words a checker can find in it and
`Within` says which words hold another, because the checkers search for substrings
(`fprintf(stderr` holds `printf(`). The self-tests of the checkers are evaluated as
the gate runs them. GoogleTest is external: a required test may be missing, doubled,
skipped, left to another shard, repeated, or end the process with status 0, and what
a test prints may hide its OK line, though none prints a line of GoogleTest's own.
`TestInventory` says what the gate accepts; the
property compares that with what happened.

Limits of the code that the models share:

- the dependency check compares HEAD and origin of `extern/dolphin`; what is
  modified in its working tree shows in neither;
- the workflow check finds words wherever they are. The model takes them to be in
  effect, not in a comment, and an action to be found only where `uses:` begins its
  line;
- the structure check looks for four words in product files. Product output through
  `std::cout` is none of them, although `docs/project-state.md:163-164` speaks of
  direct product output;
- without `--require`, and the gate calls it without, the embedding contract reports
  and accepts.

### VerificationGates

An invocation of `verify.py` is `gate`: a status and the position (`step`) it has
reached in `Commands`, each of which is a verb and the build tree it works on, in
the order of `ProjectGate`, `RuntimeGate` and `AdapterGate`. `Succeeds` goes on to
the next command or ends the invocation after the last, `Raises` ends it, as an
exception does that nothing catches. `CommandFails` lets any command fail that is a
process. `trees` are the directories under `build/`, which no gate deletes: the
compiler identity each CMake that configured them recorded, the cached
`GCPORT_BUILD_TESTS` and Dolphin options, the compile database, and what the
binaries were built from. CMake looks at the compiler once and keeps what it found,
so a compiler replaced in place goes unnoticed (`IdentityAfter`). `installed` is
`build/install`: the library is copied from the build, the headers from the checkout
as it is when the install runs (`CMakeLists.txt:86-88`), and a header installed
earlier is never removed. `gate` also keeps the file list read before formatting,
which is the one linted later. `evidence` is what the invocation linted, ran and saw
pass.

`checkout` names the content of the repository; `Content` says what the gates can
tell of it: its first-party files and the words in them, which of them
`CMakeLists.txt` names and for which target, `dependencies.json`, the tools and the
hosted workflow. `dolphin` is what `extern/dolphin` is at. Between invocations
anybody may edit the repository, move Dolphin, change the compiler, upgrade CMake,
configure a tree by hand or delete it; while the gates run the repository may be
edited and Dolphin moved, as often as the campaign allows (`Edit`, `MoveDolphin`),
and `meddling` counts that. The properties say how much of it a passing gate
survives: `EveryUnitLinted` and `EveryTestRan` one edit, `DolphinAsPinned` one move
for the tested Dolphin and none for the adapter (whose configuration checks the
revision before its build), `BuiltFromCheckout`, `InstalledIsQuiet` and
`SliceConfigured` no edit. `InstalledIsTested` survives any edit for the library and
none for the headers: one edited between `ctest` and the install is installed with a
library it was not tested with.

The tools' own tests, which the gate runs before it configures anything, read the
compile database of an earlier configuration (`SelfTest`). Without a tree, or after
an edit that adds a unit, every invocation ends there until somebody configures
`build/verify` by hand (`ConfigureByHand`; finding 4). A campaign says which trees
that happens to (`handled`), and a gate that passes has always had it done.

A *campaign* says what varies in one behaviour: the hosts, contents, checkouts of
Dolphin, compilers, versions of CMake, options set by hand, and how often others
interfere. It is chosen at the start and never changes. The proofs are for any set
of campaigns, one in which everything varies at once included; for TLC, everything
at once is more than it can visit, and each campaign varies together what one or two
of the hazards need.

CTest is external as well and succeeds without tests. What saves the project gate is
its check of the compile database (a tree configured without tests has no compile
commands for them), and what saves the adapter gate is that it names the test's
target when it builds: `EveryTestRan`. Limits of the code that the model shares: an
invocation that the lint check refuses has already installed its build, tested or
not; a rename of the test `dolphin_adapter` in `CMakeLists.txt` would pass
unnoticed; an option that leaves the manifest stays off in the caches, so that
`SliceConfigured` says "at least"; and a header that leaves the repository stays
installed, so that `InstalledIsTested` and `InstalledIsQuiet` speak of the headers the
repository has. `verify_project` collects `.cpp` and `.h` files only, while CMake
compiles `.c`, `.cc` and `.cxx` as well: such a unit would be linted by nobody. No
file of the repository has such a suffix, and as long as every unit is a `.cpp`, none
goes unlinted (`SuffixDecides`).

### HostedVerification

A push starts a run with one job per entry of the matrix of the workflow it
carries; `run.of` stays that workflow, also when failed jobs are run again. A runner
label stands for a machine, and the service may move it at any time. A job passes
when `verify.py` passes detection of its host and the workflow check, and its gate,
which may fail; a job with `continue-on-error` reports success anyway, and a
workflow that does not call the gate verifies nothing: both are forbidden by
`ci_contract.py`, which only a job that runs the gate can notice. That is why
`HostedCoverage` speaks of runs in which any gate passed. A gate is taken to be able
to pass; a hosted job starts from a fresh checkout, where today it cannot (finding 4),
so the model allows more runs than the repository has at this commit.

## Runs

| Run | States | Bounds | Shows |
| --- | --- | --- | --- |
| `session_conforming` | 43 k | 2 runs of up to 2 dispatches; 8 configurations; counters to 5, block lengths to 2 | the budget, the accounting, justified stops, usable limits, `FallbackMeter` |
| `session_faulty` | 76 k | the same, any reply of the backend | by-reason sums in wrapping arithmetic, one block per dispatch, unrecorded executions end the run, every run ends |
| `session_rerun` | (violation) | 2 runs of 1 dispatch | finding 1 |
| `native_hooks` | 137 k | 2 threads, 2 hooks, 1 authenticated image, 2 generations, 1 valid address | coherence of code, exclusion, invalidation before change, `HookTable`; no deadlock |
| `original_calls` | 56 k | 3 tickets, 2 generations, 2 valid addresses | single entry, own key, no orphan block, `OneShotTickets` |
| `adapter` | 18 k | 3 keys (one stale), 3 callables, 4 cells; insertions may fail | one owner for every binding; but for lost keys no dangling context, everything revocable, `HookTable` |
| `adapter_dangling` | (violation) | the same | finding 2 |
| `hybrid` | 614 k | 2 runs of up to 3 dispatches, 1 hooked function, up to 2 calls of the original, 1 register | on a Dolphin that conforms the adapter is a conforming backend; bodies run as often as asked; both sides label fallbacks alike |
| `gates` | 396 k | 11 campaigns over 18 contents, 3 revisions of Dolphin, 8 hosts; 1 edit or 1 move during an invocation | fresh binaries of the host's compiler; each unit linted once, every test run; what is installed was tested and is quiet; required tests passed; Dolphin pinned, its slice off |
| `inventory` | (violation) | the 32 tests of the code | finding 3 |
| `fresh_clone` | (violation) | 1 content, in order; no build trees | finding 4 |
| `hosted` | 602 k | the 5 labels, 3 of which may move; the workflow and 5 edits of it | a run that succeeds verified every target |

Why the bounds are enough. Two runs are the least that show what one run leaves
to the next; two dispatches let a block be followed by another one in the same
run. With counters up to 5 and blocks up to 2 the configurations include a budget
whose block total binds first, one whose remainder is below the block limit, one
whose total is the largest counter (so that the sum of `record` wraps), the
disabled budget, and the two kinds the constructors reject. Two generations at
one address give two keys that an invalidation cannot tell apart, which is the
case the registry and the coordinator have to get right; a third ticket is begun
while one is claimed and another pending. In the adapter, two keys are live, one
is refused, and the fourth cell lets a replacement happen with every key
installed; the cells are symmetric.
In `hybrid`, two runs let a refusal be left behind by one and met by the next, and
three dispatches let a refusal, a hooked dispatch and another refusal follow each
other; two calls of the original are the least that tell "once more" from "once per
call". The contents of the gates are the repository and one edit each of the kinds
the gates look for: a source added and named, added and not named, named and absent,
a deferred file renamed, a test not built, a file too long or noisy, a header added,
clean or noisy, a tool in
another language, a workflow unpinned or missing, a manifest missing, shortened or
of another revision. One test of each group of the inventory is enough, since the
counters are compared name by name. The campaigns leave trees of other contents,
compilers and options behind, which is what the next invocation has to survive; one
edit and one move are the most the properties claim to survive. The proofs do not
depend on any of this.

Deadlock is checked for `native_hooks`, where no thread ever has to stop, and for
the gates and the hosted workflow, where another invocation or push can always
follow. In the others the embedder may stop calling, tickets run out or the process
terminates.

Fairness is assumed in `ExecutionSession` only: weak fairness of the session's
own steps (it runs on its caller's thread), of the backend's replies (its contract
is one basic block per call) and of the sink's. Nobody is obliged to call `run`.
Under it every run ends (`RunsEnd`), whatever the backend replies.

## Findings

1. `session_rerun`. `README.md:17-19` says a fallback is recorded before returning
   to JIT. An interpreted block that `record` rejects (over the limit, empty, or
   at another PC) stops the run and is in no statistic; nothing remembers it, so
   the next `run` offers a block to the JIT with the execution unrecorded. Only a
   backend that breaks its contract gets there: `RecordedIfConforming` proves the
   sentence with a conforming one, and `RecordedOverDolphin` over the adapter if
   Dolphin executes what it is asked to; the adapter checks none of its replies.
2. `adapter_dangling`. `install_hook` points Dolphin's session at the binding
   before `bindings_` owns it. If `insert_or_assign` cannot allocate the node of a
   new key, the binding is freed, the session keeps its address, and neither
   `remove_hook` nor the destructor (`dolphin_adapter.cpp:174-175`) knows the key.
   For a key that is already installed nothing is allocated and the order of the
   code is right, no other key suffers, and the next `install_hook` or `remove_hook`
   of that key makes it whole again; that is what `ContextsLive` proves. Until an
   insertion of a new key fails, the comment holds to the letter (`LiveUnlessLost`).
3. `inventory`. `docs/project-state.md:35` counts 31, 30 and 28 required tests;
   `dolphin_tests.py` requires 32, 31 and 29, and `test_dolphin_tests.py:31-36`
   expects the same as the code. The document is one test behind.
4. `fresh_clone`. `docs/project-state.md:33` calls the local gate reproducible, and
   `README.md:29-32` gives `uv run --frozen python tools/verify.py` as its command.
   Before it configures anything, the gate runs the tests of its own sequence
   (`project_verifier.py:26`), which replace the subprocesses of `verify_project` and
   nothing else (`test_verifier_orchestration.py:31-51`). `_compiled_sources`
   (`project_verifier.py:89-92`) then reads the real
   `build/verify/compile_commands.json` and raises when there is none. In a fresh clone
   the gate therefore ends in its own tests, and so it does after an edit that adds a
   unit, until somebody configures the tree by hand.

## Proofs

The theorems are `Spec => ...` (`EvidenceIsExact` and `RecordIsTheGrant` are about operators) for every value of the constants under the named
assumptions of the modules; nothing else is assumed but what the table says. Every
property of a passing run but `RunsEnd` is stated by a theorem.

| Module | Theorem | Property | Extra assumption |
| --- | --- | --- | --- |
| `ExecutionSessionProofs` | `TypeCorrect` | `TypeOK` | |
| | `BudgetSafe`, `AccountingCorrect`, `StopsJustified` | `BudgetRespected`, `AccountingExact`, `StopIsJustified` | the properties are about a conforming backend |
| | `LimitsUsable`, `DispatchesAccounted`, `UnrecordedEnds`, `ReasonsPartition` | `LimitIsUsable`, `DispatchAccounting`, `UnrecordedEndsRun`, `ReasonsPartitionTotals` | |
| | `MeterRefinement` | `MetersFallback` | `BackendConforms` |
| | `RecordIsTheGrant` | (`record` accepts what `instruction_limit` granted, and what wraps) | |
| | `RunsAreBounded` | (each step of a run ends it or lowers its rank) | |
| | `CountersDoNotWrap`, `RecordedIfConforming` | (sums of plain numbers), `RecordedBeforeJit` | `BackendConforms` |
| `HybridRuntimeProofs` | `BodiesAsAsked` | `BodyRunsAsAsked` | |
| | `HybridTypeCorrect` | (types, register files) | |
| | `AdapterConforms`, `LabelsAgree` | `ConformingBackend`, `ReasonsAgree` | `DolphinConforms` |
| | `PromisesKept`, `MeterOverDolphin`, `RecordedOverDolphin`, `DolphinsBooksBalance` | the session's properties over Dolphin; (both books agree) | `DolphinConforms` |
| `NativeHooksProofs` | `TypeCorrect`, `CodeIsCoherent`, `ChangesAreExclusive`, `ChangesAreInvalidated`, `TableRefinement` | each property of the run | |
| | `HoldersDoNotWait` | (no wait for a waiting thread) | |
| `OriginalCallsProofs` | `TypeCorrect`, `TicketsEnterOnce`, `TicketsEnterTheirKey`, `NoBlockOrphaned`, `LifeRefinement` | each property of the run | |
| | `SpentIsSpent` | (nothing happens to a spent ticket) | |
| `DolphinAdapterProofs` | `TypeCorrect` | (types) | |
| | `BindingsOwned`, `ContextsLive`, `ContextsRevocable`, `TableRefinement` | each property of the run | |
| | `NothingLeftBehind` | (nothing outlives the destructor but at a lost key) | |
| | `LiveUnlessLost` | `ContextsAlwaysLive` | no key is lost |
| `VerificationGatesProofs` | `TypeCorrect`, `BuildsAreFresh`, `BuildsAreTheHosts`, `LintedOnce`, `RequiredPassed`, `DolphinIsPinned`, `SlicesAreOff` | `TypeOK`, `BuiltFromCheckout`, `BuiltByHostCompiler`, `EveryUnitLinted`, `RequiredTestsPassed`, `DolphinAsPinned`, `SliceConfigured` | |
| | `TestsAllRan` | `EveryTestRan` | the adapter's tree has one test, the only deferred one |
| | `TestedIsInstalled` | `InstalledIsTested` | every content has a test of its own |
| | `EvidenceIsExact` | (`validate_result` accepts what it should and no more) | no required test hides an OK line |
| | `SuffixDecides` | (no unit is linted by nobody) | every unit of every content is a `.cpp` |
| | `InstalledIsClean` | `InstalledIsQuiet` | what is under `include/` and `src/` has the suffix of a source |
| `HostedVerificationProofs` | `TypeCorrect`, `CoverageOfTargets` | (types), `HostedCoverage` | |

The extra assumptions are what the code relies on. Dolphin executes the block it is
asked to, within the limit, as its interface promises. CTest succeeds without tests, so
a repository without any would install an untested build. CTest selects the
adapter's tests by one name and Ninja demands the target of that name: a second
deferred test would be demanded by nobody. The structure check passes over files of
other suffixes. The instances TLC checks satisfy all of these. `RecordedBeforeJit` and
`ContextsAlwaysLive` are what findings 1 and 2 refute; their theorems say that what
stands in their "Extra assumption" is all that is missing. What stands in parentheses is defined beside its theorem and checked
by no run.

The inductive invariants, and why they are needed.

- `ExecutionSession`. The budget says nothing about the limit an interpreter has
  been given, nor about what the statistics of an unfinished dispatch still lack.
  `IInv` adds where each variable is meaningful (a refusal and a limit only in
  `in_fallback`), that `can_enter` still holds while the interpreter runs, and the
  accounting of a conforming backend, from which the budget follows. That the
  reasons partition the totals needs the sum of a function over the reasons, one
  summand of which changes at a time, modulo the width of the counter; that nothing
  wraps needs the same sum as a plain number, and that the total it is recorded into
  has room for it. The rank of a running session (`Rank`) counts the dispatches left,
  four phases each, and how far the one under way has got.
- `HybridRuntime`. Every step is a step of `ExecutionSession` or leaves it alone, so
  the session's invariant holds (`SessionHolds`). `DispatchInv` says what the
  dispatch under way has done so far, by `control`; `SameReason` that
  the reason Dolphin kept is the one the session was given, for as long as a refused
  block is under way. `Promise` is `ExecutionSessionProofs` itself, instantiated with a
  backend that conforms: each step is one of its steps, so its lemmas carry its
  invariant over (`PromiseHolds`).
- `NativeHooks`. Coherence needs the history the program counter stands for: who
  holds the lock (`LockInv`), that no change overlaps the CPU's look-up
  (`SafePointInv`), that a key was validated (`ArgumentInv`), and that between
  the invalidation and the write there is no code at the address
  (`InvalidatedInv`).
- `OriginalCalls`. A ticket enters at most once because its stage of the window
  bounds `entered`, and a value above `next_ticket` has no history. A spent one stays
  spent because the window is of a claimed ticket, whose block is the only one compiled.
- `DolphinAdapter`. `Owned` says the map and the local `unique_ptr` own the heap
  between them, each cell under its own key; it needs nothing of the allocator.
  `Pointed` says each context of the session comes from one of the two owners, or is
  that of a lost key, which owns nothing.
- `VerificationGates`. `VerificationGatesSteps` shows at which position each command
  is, that every step keeps the types, and what a command that does not raise has
  done to its tree. Each part of `IInv` is then one fact that holds once the gate is
  past a position: `BuiltNow` past a build, `HostIdentified` past an identification,
  `InstalledNow` past the install (the library, and the headers if nothing was
  edited), `FilesKnown` between the file list and the lint, `LintersKnown` and
  `OwnLinted` past the lint, `TestsRan` past a run of CTest, `PassedRequired` past the
  Dolphin tests. The edits and moves enter as hypotheses
  on `meddling`, and `RuntimePinned` has the case that makes `DolphinAsPinned`
  hold: the one move happened before the runtime build, and the adapter's
  configuration is still to object. That a report `validate_result` accepts is of
  one iteration, in which every required test passed and nothing else ran, is
  `ValidIsPassing`; `PassingIsValid` is the converse.
- `HostedVerification`. `JobsReport` ties a job that succeeded under an accepted
  workflow to a machine of its entry's system and architecture.

Only model-checked: `RunsEnd`, since liveness is beyond the prover. Its safety half is
proved: no run has more than `4 * maximum_dispatches + 4` steps (`RunsAreBounded`), so
what TLC adds is that under fairness a next step comes.

## Not modelled

The type names (`to_string`) and the wording of errors and diagnostics. What guest
registers and memory hold and which guest ranges Dolphin accepts; a sink that calls
the session again. What the formatter and the linter look for; the package
configuration files, architecture macros and data that an installation stages; a
compiler found at another path, for which CMake discards its cache; the setup steps of a hosted job but for their success or
failure. Dolphin itself: it appears as the backend, the translator, the dispatcher
and the session of the modules above, as far as gcnport's code and headers rely on
it.

## What is left

All that the plan of this project named is modelled, checked and, but for liveness,
proved. Worth adding if the code grows that way: a client that really dispatches
through the registry and the coordinator (today they have none), and hooks that
change from inside a callback once Dolphin's bridge says what it does then.
