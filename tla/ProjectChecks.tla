----------------------------- MODULE ProjectChecks -----------------------------
(***************************************************************************)
(* The checkers the project gate runs before it builds: structure,         *)
(* Dolphin dependency, embedding contract and hosted workflow              *)
(* (structure.py, dependency.py, dolphin_contract.py, ci_contract.py and   *)
(* their check_*.py).                                                      *)
(*                                                                         *)
(* A text is the set of the words a checker could find in it, in lower     *)
(* case where the checker folds case; Within says which words hold another *)
(* one, since the checkers search for substrings.                          *)
(***************************************************************************)
EXTENDS Naturals, Sequences, FiniteSets

CONSTANTS
    Within,       \* pairs of a word and a longer word it is part of
    SOURCE_LIMIT, \* lines; 1200 in the code
    Absent        \* no such file, no checkout

Occurs(token, text) ==
    \E word \in text : word = token \/ <<token, word>> \in Within

Exit(errors) == IF errors = {} THEN 0 ELSE 1

-----------------------------------------------------------------------------
(***************************************************************************)
(* structure.py.  A source is a record of its owner (the directory it is   *)
(* under), suffix, number of lines and text; a tool of its suffix and      *)
(* whether Python compiles it.                                             *)
(***************************************************************************)
SOURCE_SUFFIXES == {".c", ".cc", ".cpp", ".cxx", ".h", ".hh", ".hpp"}

FORBIDDEN_PRODUCT_TEXT == {"getenv(", "fprintf(stderr", "std::cerr", "printf("}

inspect_sources(sources) ==
    {<<source, "limit">> : source \in {s \in sources : s.lines > SOURCE_LIMIT}}
        \cup {error \in sources \X FORBIDDEN_PRODUCT_TEXT :
                 error[1].owner \in {"include", "src"} /\ Occurs(error[2], error[1].text)}

\* Mutation of collect_sources: the files that are compiled, and no others.
collect_translation_units(sources) ==
    {source \in sources : source.suffix \in {".c", ".cc", ".cpp", ".cxx"}}

collect_sources(sources) ==
    {source \in sources :
        source.owner \in {"include", "src", "tests"} /\ source.suffix \in SOURCE_SUFFIXES}

inspect_tool_sources(tools) ==
    {tool \in tools : tool.suffix = ".sh" \/ (tool.suffix = ".py" /\ ~tool.compiles)}

inspect_tools(tools) == inspect_tool_sources({t \in tools : t.suffix \in {".py", ".sh"}})

check_structure(sources, tools) ==
    Exit(inspect_sources(collect_sources(sources)) \cup inspect_tools(tools))

StructureSelfTest ==
    LET Fixture(text) ==
            {[path |-> "fixture", owner |-> "src", suffix |-> ".cpp", lines |-> 1, text |-> text]}
        errors == inspect_sources(Fixture({"getenv("}))
    IN  /\ inspect_sources(Fixture({"void"})) = {}
        /\ Cardinality(errors) = 1 /\ \A error \in errors : error[2] = "getenv("
        /\ Cardinality(inspect_tool_sources(
               {[suffix |-> ".sh", compiles |-> FALSE],
                [suffix |-> ".py", compiles |-> FALSE]})) = 2

-----------------------------------------------------------------------------
(***************************************************************************)
(* dependency.py.  The manifest is dependencies.json, Absent when it       *)
(* cannot be read or lacks a field; the checkout is extern/dolphin as git  *)
(* shows it.  What is modified in its working tree shows in neither field. *)
(***************************************************************************)

\* DependencyStatus.errors.
DependencyErrors(status, specification) ==
    {field \in {"revision", "repository"} : status[field] # specification[field]}

\* load_specification returns.
SpecificationLoads(manifest) ==
    /\ manifest # Absent
    /\ manifest.revision # "" /\ manifest.repository # ""

check_dependency(dolphin, manifest) ==
    IF SpecificationLoads(manifest) /\ dolphin # Absent
    THEN Exit(DependencyErrors(dolphin, manifest)) ELSE 1

DependencySelfTest ==
    LET specification == [revision |-> "expected", repository |-> "fork"]
    IN  /\ DependencyErrors(specification, specification) = {}
        /\ DependencyErrors([specification EXCEPT !.revision = "wrong"], specification)
               = {"revision"}

-----------------------------------------------------------------------------
(***************************************************************************)
(* dolphin_contract.py: the words Dolphin's bridge must spell.  A surface  *)
(* gives the text of each bridge file.                                     *)
(***************************************************************************)
HeaderSymbols ==
    {"class RuntimeSession", "BootAuthenticatedImage", "ExecuteJitBlock",
     "ExecuteRefusedBlock", "ExecuteDiagnosticInterpreterBlock", "InstallNativeHook",
     "ExecuteOriginalOnce", "CallOriginalSynchronously", "InvalidateGuestCode",
     "ExecutionCounters"}
SourceSymbols == {"FallBackToInterpreter", "RunOriginalOnce"}

REQUIREMENTS == ({"header"} \X HeaderSymbols) \cup ({"source"} \X SourceSymbols)

CompleteSurface == [header |-> HeaderSymbols, source |-> SourceSymbols]

missing_requirements(surface) ==
    {requirement \in REQUIREMENTS :
        LET source == surface[requirement[1]]
        IN  source = Absent \/ ~Occurs(requirement[2], source)}

\* Without --require it only reports.
check_dolphin_contract(surface, require) ==
    IF require THEN Exit(missing_requirements(surface)) ELSE 0

ContractSelfTest ==
    /\ missing_requirements(CompleteSurface) = {}
    /\ missing_requirements([CompleteSurface EXCEPT !.header = @ \ {"ExecuteOriginalOnce"}])
           = {<<"header", "ExecuteOriginalOnce">>}

-----------------------------------------------------------------------------
(***************************************************************************)
(* ci_contract.py.  A workflow is its matrix entries, its uses of actions  *)
(* in order, and the settings that are in effect: it is taken to hold a    *)
(* token only where the token has its effect, not in a comment.  An action *)
(* is used `alone` when `uses:` begins its line and nothing follows it.    *)
(***************************************************************************)
RUNNERS ==
    {<<"ubuntu-26.04", "linux", "x64">>, <<"ubuntu-26.04-arm", "linux", "arm64">>,
     <<"windows-2022", "windows", "x64">>, <<"macos-15-intel", "macos", "x64">>,
     <<"macos-15", "macos", "arm64">>}

\* The pinned revisions, shortened.
ACTION_PINS ==
    <<"actions/checkout@3d3c42e", "actions/setup-python@5fda3b9", "astral-sh/setup-uv@20cfd1b">>

RequiredSettings ==
    {"permissions: contents: read", "fetch-depth: 0", "submodules: recursive",
     "persist-credentials: false", "python-version: 3.12", "timeout-minutes:",
     "tools/verify.py --runtime", "--expected-os", "--expected-arch"}

ForbiddenSettings == {"continue-on-error", "android", "pull_request_target"}

\* What re.findall finds.
ActionsFound(uses) ==
    LET found == SelectSeq(uses, LAMBDA use : use.alone)
    IN  [i \in DOMAIN found |-> found[i].action]

inspect_workflow(workflow) ==
    (RUNNERS \ workflow.matrix)
        \cup (IF ActionsFound(workflow.uses) = ACTION_PINS THEN {} ELSE {ACTION_PINS})
        \cup ((RequiredSettings \ workflow.settings) \X {"missing"})
        \cup ((ForbiddenSettings \cap workflow.settings) \X {"forbidden"})

check_ci(workflow) == IF workflow = Absent THEN 1 ELSE Exit(inspect_workflow(workflow))

CompleteWorkflow ==
    [matrix |-> RUNNERS,
     uses |-> [i \in DOMAIN ACTION_PINS |-> [action |-> ACTION_PINS[i], alone |-> TRUE]],
     settings |-> RequiredSettings]

CISelfTest ==
    /\ inspect_workflow(CompleteWorkflow) = {}
    /\ ACTION_PINS \in
           inspect_workflow([CompleteWorkflow EXCEPT !.uses[1].action = "actions/checkout@v4"])
    /\ <<"python-version: 3.12", "missing">> \in
           inspect_workflow([CompleteWorkflow EXCEPT
               !.settings = (@ \ {"python-version: 3.12"}) \cup {"python-version: 3.12.12"}])

-----------------------------------------------------------------------------
\* What `--selftest` finds out about each checker.
SelfTests == StructureSelfTest /\ DependencySelfTest /\ ContractSelfTest /\ CISelfTest
=============================================================================
