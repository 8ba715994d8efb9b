--------------------------- MODULE VerificationGates ---------------------------
(***************************************************************************)
(* The verification gates (verify.py, project_verifier.py,                 *)
(* dolphin_runtime.py, adapter_sources.py, runner.py): a sequence of       *)
(* commands over build trees that survive an invocation, each of which     *)
(* ends the invocation when it fails.                                      *)
(*                                                                         *)
(* CMake, Ninja, CTest, GoogleTest and the linter are external; what the   *)
(* project's own CMakeLists.txt and cmake/DolphinDependency.cmake make of  *)
(* them is not.  The content of the repository has a name, `checkout`, and *)
(* Content says what the gates can tell of it; a build remembers the       *)
(* checkout it was made from.  Anybody may edit the repository or move     *)
(* extern/dolphin, also while the gates run.                               *)
(*                                                                         *)
(* What may change in one behaviour is its campaign, chosen at the start:  *)
(* all that can happen to a repository at once is more than TLC can visit. *)
(***************************************************************************)
EXTENDS TestInventory, ProjectChecks

CONSTANTS
    Files,            \* what may be under include/, src/ and tests/
    Owner, Suffix,    \* the directory and the suffix of each of them
    DOLPHIN_DEPENDENT_SOURCES,
    Content,          \* what is in each content the repository can have
    Revisions,        \* the revisions of Dolphin
    DolphinTests,     \* the tests its binary has at each of them
    Surface,          \* and the text of its bridge
    DolphinOptions,   \* the names of its build options
    Compilers,        \* what `clang++` can identify itself as
    CMakes,           \* the versions of CMake, in the order of upgrades
    Campaigns         \* what may vary together, by name

Checkouts == DOMAIN Content

TranslationUnits == {file \in Files : Suffix[file] = ".cpp"}

\* What CMake can compile, whatever the gates collect.
CompilableUnits == {file \in Files : Suffix[file] \in {".c", ".cc", ".cpp", ".cxx"}}

TestUnits == {file \in TranslationUnits : Owner[file] = "tests"}

\* What install(DIRECTORY include/) copies.
Headers == {file \in Files : Owner[file] = "include"}

\* What the gates tell of a content: the files, those CMakeLists.txt names for
\* each target group, dependencies.json, the tools and the hosted workflow.
Manifests == [revision : Revisions \cup {""}, repository : STRING,
              off : SUBSET DolphinOptions, linux_off : SUBSET DolphinOptions]

Trees == {"verify", "dolphin-runtime", "dolphin-adapter"}

\* What extern/dolphin can be.
Checkedout == [revision : Revisions, repository : STRING]

\* A campaign: the machines, the contents and checkouts somebody switches
\* between, what the compiler and CMake become, how the gates are called, which
\* trees somebody configures or deletes, with which options, and how often at
\* most the repository and extern/dolphin change while an invocation runs.
IsCampaign(c) ==
    /\ c.hosts \subseteq HostTypes
    /\ c.checkouts \subseteq Checkouts
    /\ c.dolphins \subseteq Checkedout \cup {Absent}
    /\ c.compilers \subseteq Compilers
    /\ c.cmakes \in 1..CMakes
    /\ c.runtime \subseteq BOOLEAN
    /\ c.handled \subseteq Trees
    /\ c.tests_options \subseteq BOOLEAN
    /\ c.hand_options \subseteq SUBSET DolphinOptions
    /\ c.edits \in Nat /\ c.moves \in Nat

ASSUME GatesAssumption ==
    /\ DOLPHIN_DEPENDENT_SOURCES \subseteq Files
    /\ \A c \in Checkouts :
         /\ Content[c].files \subseteq Files
         /\ Content[c].gcnport \cup Content[c].adapter \subseteq CompilableUnits
         /\ Content[c].gcnport \ TestUnits # {}
         /\ Content[c].manifest \in {Absent} \cup Manifests
    /\ DolphinTests \in [Revisions -> [Tests -> Nat]]
    /\ CMakes \in Nat \ {0}
    /\ \A c \in DOMAIN Campaigns : IsCampaign(Campaigns[c])
    /\ Absent \notin Compilers

VARIABLES
    campaign,  \* what may vary in this behaviour; it never changes
    host,      \* the machine
    checkout,  \* the content of the repository
    dolphin,   \* extern/dolphin: the revision it is at and its origin
    toolchain, \* what the program at the path of `clang++` is now
    cmake,     \* the CMake that is installed
    trees,     \* the directories under build/, by name
    installed, \* build/install: what its library and headers were copied from
    gate,      \* the invocation: whether it runs, its command, what it has read
    meddling,  \* what others changed since it started, and what it found
    evidence   \* what it has linted, run and seen pass

vars == <<campaign, host, checkout, dolphin, toolchain, cmake, trees,
          installed, gate, meddling, evidence>>

world == <<campaign, host, checkout, dolphin, toolchain, cmake>>

here == Content[checkout]

Plan == Campaigns[campaign]

Builds == [checkout : Checkouts, dolphin : Revisions \cup {Absent},
           compiler : Compilers, off : SUBSET DolphinOptions, tested : BOOLEAN]

\* What the library was built from, and the contents its headers were taken from.
Installations == [build : Builds \cup {Absent}, headers : [Headers -> Checkouts \cup {Absent}]]

NothingInstalled == [build |-> Absent, headers |-> [file \in Headers |-> Absent]]

\* `identities` are the files CMakeFiles/<version>/CMakeCXXCompiler.cmake;
\* `tests_option` is the cached GCPORT_BUILD_TESTS, `off` the cached options
\* of Dolphin that are OFF.
BuildTrees == [identities : [1..CMakes -> Compilers \cup {Absent}],
               tests_option : BOOLEAN,
               off : SUBSET DolphinOptions,
               database : SUBSET CompilableUnits,
               built : Builds \cup {Absent}]

NoTree == [identities |-> [version \in 1..CMakes |-> Absent],
           tests_option |-> TRUE, off |-> {}, database |-> {}, built |-> Absent]

NoGate == [status |-> "idle", runtime |-> FALSE, step |-> 0, options |-> {}, listed |-> {}]

NoMeddling == [edits |-> 0, moves |-> 0, began |-> Absent]

NoEvidence == [linted |-> {}, ran |-> {}, passing |-> {}]

-----------------------------------------------------------------------------
\* The commands of the gates, in their order, and the tree each works on.

On(tree, verbs) == [i \in DOMAIN verbs |-> <<verbs[i], tree>>]

\* Mutation of AdapterGate: the lint that only this tree can do is forgotten.
AdapterGateUnlinted ==
    On("dolphin-adapter", <<"configure", "identify", "build", "ctest">>)

\* _verify_dolphin_adapter.
AdapterGate ==
    On("dolphin-adapter", <<"configure", "identify", "build", "ctest", "lint">>)

\* verify_runtime.
RuntimeGate ==
    On("dolphin-runtime",
       <<"options", "configure", "identify", "build", "discover", "test">>)
        \o AdapterGate

\* Mutation of ProjectGate: install first, test what is installed.
ProjectGateInstallingFirst ==
    On("verify",
       <<"selftest", "structure", "dependency", "contract", "ci",
         "configure", "build", "install", "ctest", "format", "lint">>)

\* verify_project.
ProjectGate ==
    On("verify",
       <<"selftest", "structure", "dependency", "contract", "ci",
         "configure", "build", "ctest", "install", "format", "lint">>)

WithRuntime == ProjectGate \o RuntimeGate

\* verify.main.
Commands(runtime) == IF runtime THEN WithRuntime ELSE ProjectGate

TypeOK ==
    /\ campaign \in DOMAIN Campaigns
    /\ host \in Plan.hosts
    /\ checkout \in Plan.checkouts
    /\ dolphin \in Plan.dolphins
    /\ toolchain \in Plan.compilers
    /\ cmake \in 1..Plan.cmakes
    /\ trees \in [Trees -> BuildTrees]
    /\ installed \in Installations
    /\ gate \in [status : {"idle", "running", "passed", "raised"}, runtime : BOOLEAN,
                 step : 0..Len(Commands(gate.runtime)), options : SUBSET DolphinOptions,
                 listed : SUBSET Files]
    /\ gate.status = "running" <=> gate.step # 0
    /\ meddling \in [edits : 0..Plan.edits, moves : 0..Plan.moves, began : Checkouts \cup {Absent}]
    /\ evidence \in [linted : SUBSET (TranslationUnits \X Trees),
                     ran : SUBSET TestUnits, passing : SUBSET Tests]

Init ==
    /\ campaign \in DOMAIN Campaigns
    /\ host \in Plan.hosts
    /\ checkout \in Plan.checkouts
    /\ dolphin \in Plan.dolphins
    /\ toolchain \in Plan.compilers
    /\ cmake = 1
    /\ trees = [tree \in Trees |-> NoTree]
    /\ installed = NothingInstalled
    /\ gate = NoGate
    /\ meddling = NoMeddling
    /\ evidence = NoEvidence

-----------------------------------------------------------------------------
\* How an invocation goes on and ends.

Running == gate.status = "running"

Doing(verb, tree) == Running /\ Commands(gate.runtime)[gate.step] = <<verb, tree>>

Ends(status) ==
    /\ gate' = [gate EXCEPT !.status = status, !.step = 0, !.options = {}, !.listed = {}]
    /\ meddling' = NoMeddling

\* Nothing catches what run, capture and the checks raise.
Raises == Ends("raised")

\* The command succeeds and the next one, if any, follows.
Succeeds ==
    IF gate.step = Len(Commands(gate.runtime))
    THEN Ends("passed")
    ELSE gate' = [gate EXCEPT !.step = @ + 1] /\ UNCHANGED meddling

(***************************************************************************)
(* verify.main: detect_host refuses a host, or one that is not what the    *)
(* caller expects, before anything runs.                                   *)
(***************************************************************************)
Start(runtime, expected_os, expected_arch) ==
    LET starts == HostSelfTest /\ Detected(host, expected_os, expected_arch)
    IN  /\ ~Running
        /\ gate' = [NoGate EXCEPT !.status = IF starts THEN "running" ELSE "raised",
                                  !.runtime = runtime,
                                  !.step = IF starts THEN 1 ELSE 0]
        /\ meddling' = IF starts THEN [NoMeddling EXCEPT !.began = checkout] ELSE NoMeddling
        /\ evidence' = NoEvidence
        /\ UNCHANGED <<world, trees, installed>>

\* A command that succeeds on a condition and changes nothing.
Look(verb, tree, condition) ==
    /\ Doing(verb, tree)
    /\ IF condition THEN Succeeds ELSE Raises
    /\ UNCHANGED <<world, trees, installed, evidence>>

\* A command exits with another status than 0, for whatever reason.
CommandFails ==
    /\ Running
    /\ Commands(gate.runtime)[gate.step][1] # "identify"
    /\ Raises
    /\ UNCHANGED <<world, trees, installed, evidence>>

-----------------------------------------------------------------------------
\* The checkers.

Sources ==
    {[path |-> file, owner |-> Owner[file], suffix |-> Suffix[file],
      lines |-> here.lines[file], text |-> here.text[file]] : file \in here.files}

\* _embedded_option_names returns: it refuses an empty list.
OptionsListed ==
    here.manifest # Absent /\ here.manifest.off # {} /\ here.manifest.linux_off # {}

\* dolphin_dependent_sources returns.
DeferralValid == DOLPHIN_DEPENDENT_SOURCES \subseteq here.files

\* The translation units verify_project does not defer, of a list of files.
OwnUnits(files) == (files \cap TranslationUnits) \ DOLPHIN_DEPENDENT_SOURCES

\* _compiled_sources: the units with a compile command.
Compiled == trees["verify"].database

\* Mutation of Unlinted: what no database holds is not missed.
UnlintedUnnoticed(files) == {}

Unlinted(files) == OwnUnits(files) \ Compiled

\* A database that does not exist is refused; one that does is not empty.
Lintable(files) == DeferralValid /\ Compiled # {} /\ Unlinted(files) = {}

\* `--selftest` of each checker, and the tests of the tools.  The tests of the
\* sequence of the gates replace the commands and nothing else: they read this
\* repository, and the compile database an earlier configuration left in it.
SelfTest == Look("selftest", "verify", SelfTests /\ OptionsListed /\ Lintable(here.files))

CheckStructure == Look("structure", "verify", check_structure(Sources, here.tools) = 0)

CheckDependency ==
    Look("dependency", "verify", check_dependency(dolphin, here.manifest) = 0)

\* FilesystemReader.
SurfaceOf(root) ==
    IF root = Absent THEN [header |-> Absent, source |-> Absent] ELSE Surface[root.revision]

\* Without --require: the checker reports.
CheckContract ==
    Look("contract", "verify", check_dolphin_contract(SurfaceOf(dolphin), FALSE) = 0)

CheckCI == Look("ci", "verify", check_ci(here.workflow) = 0)

\* The files are listed, and the list is what is linted later.
Format ==
    /\ Doing("format", "verify")
    /\ gate' = [gate EXCEPT !.step = @ + 1, !.listed = here.files]
    /\ UNCHANGED <<world, trees, installed, meddling, evidence>>

-----------------------------------------------------------------------------
\* Configuring and building.

ReadOptions ==
    LET platform_options == IF host.os = "linux" THEN here.manifest.linux_off ELSE {}
    IN  /\ Doing("options", "dolphin-runtime")
        /\ IF OptionsListed
           THEN gate' = [gate EXCEPT !.step = @ + 1,
                                     !.options = here.manifest.off \cup platform_options]
                /\ UNCHANGED meddling
           ELSE Raises
        /\ UNCHANGED <<world, trees, installed, evidence>>

\* The units CMakeLists.txt gives a compile command: the runtime tree is
\* Dolphin's alone, the adapter is an option of the adapter tree.
CompileDatabase(tree, tests_option) ==
    LET named == IF tree = "dolphin-runtime" THEN {}
                 ELSE IF tree = "dolphin-adapter" THEN here.gcnport \cup here.adapter
                 ELSE here.gcnport
    IN  IF tests_option THEN named ELSE named \ TestUnits

\* Mutation of RequiresCheckout: a checkout of any revision will do.
RequiresCheckoutOfAnyRevision == dolphin # Absent /\ here.manifest # Absent

\* gcnport_require_dolphin_checkout: of any origin, but of this revision.
RequiresCheckout ==
    dolphin # Absent /\ here.manifest # Absent /\ dolphin.revision = here.manifest.revision

\* Mutation of SwitchedOff: the embedding build forgets its platform.
SwitchedOffEverywhereAlike(tree) ==
    IF tree = "dolphin-runtime" THEN gate.options
    ELSE IF tree = "dolphin-adapter" THEN here.manifest.off ELSE {}

\* What the command line, or gcnport_add_dolphin_core, switches off.
SwitchedOff(tree) ==
    IF tree = "dolphin-runtime" THEN gate.options
    ELSE IF tree = "dolphin-adapter"
    THEN here.manifest.off \cup IF host.os = "linux" THEN here.manifest.linux_off ELSE {}
    ELSE {}

\* A source that is named and missing is an error, and so is another Dolphin
\* or an empty list of options.
Configurable(tree, tests_option) ==
    /\ CompileDatabase(tree, tests_option) \subseteq here.files
    /\ IF tree = "dolphin-runtime" THEN dolphin # Absent ELSE RequiresCheckout
    /\ tree = "dolphin-adapter" => OptionsListed

\* A version of CMake looks at the compiler once, and keeps what it found even
\* if another one is put in its place.
IdentityAfter(tree) ==
    LET recorded == trees[tree].identities[cmake]
    IN  IF recorded = Absent THEN toolchain ELSE recorded

\* cmake -S -B: the cache keeps what the command does not set.
Configured(tree, tests_option) ==
    [trees[tree] EXCEPT !.identities[cmake] = IdentityAfter(tree),
                        !.tests_option = tests_option,
                        !.off = @ \cup SwitchedOff(tree),
                        !.database = CompileDatabase(tree, tests_option)]

Configure(tree) ==
    /\ Doing("configure", tree)
    /\ Configurable(tree, trees[tree].tests_option)
    /\ trees' = [trees EXCEPT ![tree] = Configured(tree, @.tests_option)]
    /\ Succeeds
    /\ UNCHANGED <<world, installed, evidence>>

\* It may have found the compiler before it failed.
ConfigureFails(tree) ==
    /\ Doing("configure", tree)
    /\ trees' = [trees EXCEPT ![tree].identities[cmake] = IdentityAfter(tree)]
    /\ Raises
    /\ UNCHANGED <<world, installed, evidence>>

\* What _compiler_id returns, and whether it does.
OneIdentity(tree) ==
    Cardinality({version \in 1..CMakes :
        trees[tree].identities[version] # Absent}) = 1

Identities(tree) ==
    {trees[tree].identities[version] : version \in 1..CMakes} \ {Absent}

\* Mutation of Identified: any identity file will do.
IdentifiedByAny(tree) == cmake_compiler_id(host) \in Identities(tree)

Identified(tree) ==
    OneIdentity(tree) /\ cmake_compiler_id(host) \in Identities(tree)

Identify(tree) ==
    /\ Doing("identify", tree)
    /\ IF Identified(tree) THEN Succeeds ELSE Raises
    /\ UNCHANGED <<world, trees, installed, evidence>>

\* Ninja knows the target: gcnport_dolphin_adapter_test is part of the tests.
TargetExists(tree, database) ==
    tree = "dolphin-adapter" => TestUnits \cap here.adapter \cap database # {}

\* Ninja configures again when CMakeLists.txt has changed.
Outdated(tree) == trees[tree].database # CompileDatabase(tree, trees[tree].tests_option)

Buildable(tree) ==
    /\ Outdated(tree) => Configurable(tree, trees[tree].tests_option)
    /\ TargetExists(tree, CompileDatabase(tree, trees[tree].tests_option))
    /\ tree # "verify" => dolphin # Absent

Built(tree) ==
    LET generated == IF Outdated(tree) THEN Configured(tree, trees[tree].tests_option)
                     ELSE trees[tree]
    IN  [generated EXCEPT !.built =
            [checkout |-> checkout,
             dolphin |-> IF tree = "verify" THEN Absent ELSE dolphin.revision,
             compiler |-> generated.identities[cmake],
             off |-> generated.off,
             tested |-> FALSE]]

Build(tree) ==
    /\ Doing("build", tree)
    /\ Buildable(tree)
    /\ trees' = [trees EXCEPT ![tree] = Built(tree)]
    /\ Succeeds
    /\ UNCHANGED <<world, installed, evidence>>

\* Mutation of BuildFails: the exit status of a build that keeps going is lost.
BuildFailsUnnoticed(tree) ==
    /\ Doing("build", tree)
    /\ \/ UNCHANGED trees
       \/ Buildable(tree) /\ trees' = [trees EXCEPT ![tree] = Built(tree)]
    /\ Succeeds
    /\ UNCHANGED <<world, installed, evidence>>

\* With -k 0 Ninja builds what it can before it exits with an error.
BuildFails(tree) ==
    /\ Doing("build", tree)
    /\ \/ UNCHANGED trees
       \/ Buildable(tree) /\ trees' = [trees EXCEPT ![tree] = Built(tree)]
    /\ Raises
    /\ UNCHANGED <<world, installed, evidence>>

-----------------------------------------------------------------------------
\* Running and installing what was built.

\* The tests registered in a tree when it was last configured, those -R
\* selects in the adapter's.  CTest succeeds when there are none.
Selected(tree) ==
    LET registered == Content[trees[tree].built.checkout]
    IN  (IF tree = "dolphin-adapter" THEN registered.adapter ELSE registered.gcnport)
            \cap TestUnits \cap trees[tree].database

CTest(tree) ==
    /\ Doing("ctest", tree)
    /\ trees[tree].built # Absent
    /\ trees' = [trees EXCEPT ![tree].built.tested = Selected(tree) # {}]
    /\ evidence' = [evidence EXCEPT !.ran = @ \cup Selected(tree)]
    /\ Succeeds
    /\ UNCHANGED <<world, installed>>

\* The library of the build, and headers of the checkout as it is now; a header
\* that was installed before and is no longer in the checkout stays.
Copied(headers) ==
    [build |-> trees["verify"].built,
     headers |-> [file \in Headers |->
                     IF file \in headers THEN checkout ELSE installed.headers[file]]]

Install ==
    /\ Doing("install", "verify")
    /\ trees["verify"].built # Absent
    /\ installed' = Copied(Headers \cap here.files)
    /\ Succeeds
    /\ UNCHANGED <<world, trees, evidence>>

\* The library is copied before the headers, some of which may not follow.
InstallFails ==
    /\ Doing("install", "verify")
    /\ trees["verify"].built # Absent
    /\ \E headers \in SUBSET (Headers \cap here.files) : installed' = Copied(headers)
    /\ Raises
    /\ UNCHANGED <<world, trees, evidence>>

\* --gtest_list_tests.
Discover ==
    /\ Doing("discover", "dolphin-runtime")
    /\ trees["dolphin-runtime"].built # Absent
    /\ IF ValidListing(DolphinTests[trees["dolphin-runtime"].built.dolphin],
                       required_tests(host))
       THEN Succeeds ELSE Raises
    /\ UNCHANGED <<world, trees, installed, evidence>>

\* --gtest_filter: `hidden` are the tests whose OK line begins inside another.
Test ==
    LET tree == trees["dolphin-runtime"]
        listed == {t \in Tests : DolphinTests[tree.built.dolphin][t] > 0}
    IN  /\ Doing("test", "dolphin-runtime")
        /\ \E execution \in Executions(listed \cap required_tests(host)) :
             /\ ExitsZero(execution)
             /\ \E hidden \in SUBSET required_tests(host) :
                  IF ValidResult(Report(execution, hidden), required_tests(host))
                  THEN /\ evidence' = [evidence EXCEPT !.passing = Passing(execution)]
                       /\ Succeeds
                  ELSE UNCHANGED evidence /\ Raises
        /\ UNCHANGED <<world, trees, installed>>

-----------------------------------------------------------------------------
\* Linting.

LintProject ==
    /\ Doing("lint", "verify")
    /\ IF Lintable(gate.listed)
       THEN /\ evidence' = [evidence EXCEPT
                               !.linted = @ \cup (OwnUnits(gate.listed) \X {"verify"})]
            /\ Succeeds
       ELSE UNCHANGED evidence /\ Raises
    /\ UNCHANGED <<world, trees, installed>>

\* Mutation of LintAdapter: the header is given to the linter as well.
LintAdapterWithHeaders ==
    /\ Doing("lint", "dolphin-adapter")
    /\ IF DeferralValid
       THEN /\ evidence' = [evidence EXCEPT
                   !.linted = @ \cup (DOLPHIN_DEPENDENT_SOURCES \X {"dolphin-adapter"})]
            /\ Succeeds
       ELSE UNCHANGED evidence /\ Raises
    /\ UNCHANGED <<world, trees, installed>>

\* dolphin_dependent_translation_units.
LintAdapter ==
    LET units == DOLPHIN_DEPENDENT_SOURCES \cap TranslationUnits
    IN  /\ Doing("lint", "dolphin-adapter")
        /\ IF DeferralValid
           THEN /\ evidence' = [evidence EXCEPT
                                   !.linted = @ \cup (units \X {"dolphin-adapter"})]
                /\ Succeeds
           ELSE UNCHANGED evidence /\ Raises
        /\ UNCHANGED <<world, trees, installed>>

-----------------------------------------------------------------------------
\* Others, at any time.

\* Does the number of changes made while the gates run allow another one?
Meddle(kind) ==
    IF Running
    THEN meddling[kind] < Plan[kind] /\ meddling' = [meddling EXCEPT ![kind] = @ + 1]
    ELSE UNCHANGED meddling

Edit ==
    /\ Meddle("edits")
    /\ checkout' \in Plan.checkouts \ {checkout}
    /\ UNCHANGED <<campaign, host, dolphin, toolchain, cmake,
                   trees, installed, gate, evidence>>

MoveDolphin ==
    /\ Meddle("moves")
    /\ dolphin' \in Plan.dolphins \ {dolphin}
    /\ UNCHANGED <<campaign, host, checkout, toolchain, cmake,
                   trees, installed, gate, evidence>>

-----------------------------------------------------------------------------
\* Others, between invocations.

\* In the same place: where `clang++` is found elsewhere CMake starts the tree anew.
ChangeToolchain ==
    /\ ~Running
    /\ toolchain' \in Plan.compilers \ {toolchain}
    /\ UNCHANGED <<campaign, host, checkout, dolphin, cmake,
                   trees, installed, gate, meddling, evidence>>

UpgradeCMake ==
    /\ ~Running
    /\ cmake < Plan.cmakes
    /\ cmake' = cmake + 1
    /\ UNCHANGED <<campaign, host, checkout, dolphin, toolchain,
                   trees, installed, gate, meddling, evidence>>

\* Somebody configures a tree by hand, the first time because the gates do not
\* start without a compile database.
ConfigureByHand(tree) ==
    /\ ~Running
    /\ tree \in Plan.handled \ {"dolphin-runtime"}
    /\ \E tests_option \in Plan.tests_options :
         /\ Configurable(tree, tests_option)
         /\ trees' = [trees EXCEPT ![tree] = Configured(tree, tests_option)]
    /\ UNCHANGED <<world, installed, gate, meddling, evidence>>

\* ... with other options for Dolphin.
SetDolphinOptions(tree) ==
    /\ ~Running
    /\ tree \in Plan.handled \cap {"dolphin-runtime"} /\ dolphin # Absent
    /\ \E off \in Plan.hand_options :
         trees' = [trees EXCEPT ![tree] = [Configured(tree, @.tests_option) EXCEPT !.off = off]]
    /\ UNCHANGED <<world, installed, gate, meddling, evidence>>

DeleteTree(tree) ==
    /\ ~Running
    /\ tree \in Plan.handled
    /\ trees[tree] # NoTree
    /\ trees' = [trees EXCEPT ![tree] = NoTree]
    /\ UNCHANGED <<world, installed, gate, meddling, evidence>>

Next ==
    \/ \E runtime \in Plan.runtime, expected_os \in OperatingSystems \cup {"any"},
          expected_arch \in Architectures \cup {"any"} :
            Start(runtime, expected_os, expected_arch)
    \/ SelfTest \/ CheckStructure \/ CheckDependency \/ CheckContract \/ CheckCI
    \/ Format \/ ReadOptions \/ CommandFails
    \/ \E tree \in Trees :
            \/ Configure(tree) \/ ConfigureFails(tree)
            \/ Identify(tree)
            \/ Build(tree) \/ BuildFails(tree)
            \/ CTest(tree)
            \/ ConfigureByHand(tree) \/ SetDolphinOptions(tree) \/ DeleteTree(tree)
    \/ Install \/ InstallFails
    \/ Discover \/ Test
    \/ LintProject \/ LintAdapter
    \/ Edit \/ MoveDolphin \/ ChangeToolchain \/ UpgradeCMake

Spec == Init /\ [][Next]_vars

-----------------------------------------------------------------------------
\* Properties of an invocation that passes.

Passes == Running /\ gate'.status = "passed"

\* Whatever was configured, built or failed in the trees before, the gates
\* report on the repository as it is, if nobody edits it while they run: every
\* binary they accepted is of this checkout (project_verifier.py:46,
\* dolphin_runtime.py:83 and :130).
BuiltFromCheckout ==
    [][Passes /\ meddling.edits = 0 =>
        \A tree \in Trees :
            (tree = "verify" \/ gate.runtime) => trees'[tree].built.checkout = checkout]_vars

\* ... and the Dolphin binaries are of the compiler the host calls for, as the
\* CMake that built them identified it, in trees that may have been configured
\* by another compiler or another CMake (dolphin_runtime.py:36-47, :77-82 and
\* :124-129).
BuiltByHostCompiler ==
    [][Passes /\ gate.runtime =>
        \A tree \in Trees \ {"verify"} :
            trees'[tree].built.compiler = cmake_compiler_id(host)]_vars

\* The files that are in the repository from the start of the invocation to
\* its end, if it is edited once at most.
Stable == Content[meddling.began].files \cap here.files

\* No file is linted by neither gate, or by both, even one that joins or
\* leaves a target in the one edit made while the gates run: the project gate's
\* units have compile commands in its tree, whatever is edited, and the rest are
\* the adapter's (adapter_sources.py:3-8,
\* project_verifier.py:58-72).
EveryUnitLinted ==
    [][Passes =>
        \A unit \in TranslationUnits :
            LET linters == {tree \in Trees : <<unit, tree>> \in evidence'.linted}
            IN  /\ "verify" \in linters => unit \in trees["verify"].database
                /\ meddling.edits <= 1 /\ unit \in Stable
                   /\ (gate.runtime \/ unit \notin DOLPHIN_DEPENDENT_SOURCES)
                       => Cardinality(linters) = 1]_vars

\* Every first-party test ran, although CTest succeeds without tests, a tree
\* may have been configured without them, and a test may be dropped from
\* CMakeLists.txt by one edit while the gates run: a tree without the test has no
\* compile command for it either (project_verifier.py:47 and :66-72).
EveryTestRan ==
    [][Passes /\ meddling.edits <= 1 =>
        \A unit \in Stable \cap TestUnits :
            gate.runtime \/ unit \notin DOLPHIN_DEPENDENT_SOURCES
                => unit \in evidence'.ran]_vars

\* The library that is installed is the one that was tested, whatever is edited
\* meanwhile; and so are the headers of the repository, which are copied from the
\* checkout and not from the build, if it is not edited: an installation that
\* failed half-way, or an earlier one of another content, is made good
\* (project_verifier.py:46-48, CMakeLists.txt:86-88).
InstalledIsTested ==
    [][Passes =>
        /\ installed'.build = trees'["verify"].built /\ installed'.build.tested
        /\ meddling.edits = 0 =>
             \A file \in Headers \cap here.files :
                 installed'.headers[file] = installed'.build.checkout]_vars

\* The library and the headers of the repository that are installed, which no
\* compile database lists, hold none of the diagnostics the structure check
\* looks for, in a tree that another content may have been installed in, half
\* of it or all, by an invocation during which the repository was edited
\* (structure.py:19-43, project_verifier.py:28 and :48).
InstalledIsQuiet ==
    [][Passes /\ meddling.edits = 0 =>
        LET Quiet(content, file) ==
                \A token \in FORBIDDEN_PRODUCT_TEXT :
                    ~Occurs(token, Content[content].text[file])
            sources == {file \in Content[installed'.build.checkout].files : Owner[file] = "src"}
        IN  /\ \A file \in sources : Quiet(installed'.build.checkout, file)
            /\ \A file \in Headers \cap here.files : Quiet(installed'.headers[file], file)]_vars

\* Each test the host requires ran once and passed, however the binary was
\* sharded, repeated or cut short, and even if what its tests print hides the
\* line of a result (none prints a line of GoogleTest's own)
\* (dolphin_tests.py:59-88, dolphin_runtime.py:86-90).
RequiredTestsPassed ==
    [][Passes /\ gate.runtime => evidence'.passing = required_tests(host)]_vars

\* The Dolphin whose tests ran is the pinned revision, even if extern/dolphin
\* moves once at any moment of the invocation: nothing looks at it between the
\* project gate and the runtime build, but the adapter's configuration looks
\* again.  The adapter itself is of the pinned revision if nothing moves
\* (dependency.py:50-65, DolphinDependency.cmake:13-24).
DolphinAsPinned ==
    [][Passes /\ gate.runtime /\ meddling.edits = 0 =>
        LET Pinned(tree) == trees'[tree].built.dolphin = here.manifest.revision
        IN  /\ meddling.moves <= 1 => Pinned("dolphin-runtime")
            /\ meddling.moves = 0 => Pinned("dolphin-adapter")]_vars

\* Both Dolphin builds leave out at least what the manifest names for the host,
\* whatever their caches were left with (dolphin_runtime.py:54-59,
\* DolphinDependency.cmake:77-89).
SliceConfigured ==
    [][Passes /\ gate.runtime /\ meddling.edits = 0 =>
        \A tree \in Trees \ {"verify"} :
            /\ here.manifest.off \subseteq trees'[tree].built.off
            /\ host.os = "linux" => here.manifest.linux_off \subseteq trees'[tree].built.off]_vars

-----------------------------------------------------------------------------
\* Statements of the repository that the gates do not keep.

\* docs/project-state.md:35 counts the tests a host requires.
DocumentedCount ==
    IF host.arch = "arm64" THEN 28 ELSE IF host.os = "windows" THEN 30 ELSE 31

\* The inventory of the gate is the documented one: "31 tests on Linux/macOS
\* x64, 30 on Windows x64, and 28 on Linux/macOS arm64".
DocumentedInventory == Running => Cardinality(required_tests(host)) = DocumentedCount

\* "Local C++/Python structure and verification gate is reproducible"
\* (docs/project-state.md:33): a repository that is in order passes the gate's own
\* tests, whatever earlier invocations left, or did not leave, under build/.
GateReproducible ==
    Doing("selftest", "verify") /\ SelfTests /\ OptionsListed /\ DeferralValid
        => Lintable(here.files)
=============================================================================
