-------------------------- MODULE MCVerificationGates --------------------------
(***************************************************************************)
(* An instance of VerificationGates for TLC: a library source, its test, a *)
(* source that is new, the adapter's source, test and header, and a header *)
(* that is new.                                                            *)
(***************************************************************************)
EXTENDS VerificationGates, TLC

CONSTANTS library, library_test, new, adapter, adapter_test, header, extra,
          common, posix, x64, other,
          pinned, lost, doubled, frontend, backend

MCTests == {common, posix, x64, other}
MCCommon == {common}
MCPosix == {posix}
MCX64 == {x64}

\* As many tests as dolphin_tests.py requires: 28, 1 and 3.
CountedTests == 1..32
CountedCommon == 1..28
CountedPosix == {29}
CountedX64 == 30..32

MCSources == {library, new, adapter}
MCTestSources == {library_test, adapter_test}
MCHeaders == {header, extra}
MCFiles == MCSources \cup MCTestSources \cup MCHeaders
MCDeferred == {adapter, adapter_test, header}
MCOwner == [file \in MCFiles |->
              IF file \in MCTestSources THEN "tests"
              ELSE IF file \in MCHeaders THEN "include" ELSE "src"]
MCSuffix == [file \in MCFiles |-> IF file \in MCHeaders THEN ".h" ELSE ".cpp"]

MCWithin == {<<"printf(", "fprintf(stderr">>, <<"printf(", "snprintf(">>}
MCLimit == 3

\* The contents of the repository: as it is, and after an edit.
Sound ==
    [files |-> MCFiles \ {new, extra},
     gcnport |-> {library, library_test},
     adapter |-> {adapter, adapter_test},
     lines |-> [file \in MCFiles |-> MCLimit],
     text |-> [file \in MCFiles |-> {"void"}],
     tools |-> {[suffix |-> ".py", compiles |-> TRUE], [suffix |-> ".txt", compiles |-> FALSE]},
     manifest |-> [revision |-> pinned, repository |-> "fork",
                   off |-> {frontend}, linux_off |-> {backend}],
     workflow |-> CompleteWorkflow]

MCContent ==
    [sound     |-> Sound,
     extended  |-> [Sound EXCEPT !.files = @ \cup {new}, !.gcnport = @ \cup {new}],
     forgotten |-> [Sound EXCEPT !.files = @ \cup {new}],
     misnamed  |-> [Sound EXCEPT !.gcnport = @ \cup {new}],
     headless  |-> [Sound EXCEPT !.files = @ \ {header}],
     untested  |-> [Sound EXCEPT !.gcnport = {library}],
     unbuilt   |-> [Sound EXCEPT !.adapter = {adapter}],
     longer    |-> [Sound EXCEPT !.lines[library_test] = MCLimit + 1],
     noisy     |-> [Sound EXCEPT !.text[header] = {"snprintf("}],
     chatty    |-> [Sound EXCEPT !.files = @ \cup {extra}, !.text[extra] = {"std::cerr"}],
     scripted  |-> [Sound EXCEPT !.tools = @ \cup {[suffix |-> ".sh", compiles |-> FALSE]}],
     unpinned  |-> [Sound EXCEPT !.workflow.uses[1].action = "actions/checkout@v4"],
     unhosted  |-> [Sound EXCEPT !.workflow = Absent],
     unlisted  |-> [Sound EXCEPT !.manifest = Absent],
     losing    |-> [Sound EXCEPT !.manifest.revision = lost],
     doubling  |-> [Sound EXCEPT !.manifest.revision = doubled],
     fewer     |-> [Sound EXCEPT !.manifest.off = {backend}],
     none      |-> [Sound EXCEPT !.manifest.linux_off = {}]]

MCRevisions == {pinned, lost, doubled}
MCDolphinTests ==
    [revision \in MCRevisions |->
        [Counter(MCTests) EXCEPT ![posix] = IF revision = lost THEN 0 ELSE 1,
                                 ![common] = IF revision = doubled THEN 2 ELSE 1]]
CountedDolphinTests == [revision \in MCRevisions |-> Counter(CountedTests)]

MCSurface ==
    [revision \in MCRevisions |->
        IF revision = lost THEN [CompleteSurface EXCEPT !.header = @ \ {"ExecuteJitBlock"}]
        ELSE CompleteSurface]

At(revision) == [revision |-> revision, repository |-> "fork"]
MCOptions == {frontend, backend}

Host(os, arch) == [os |-> os, arch |-> arch, path |-> QualityTools, brew |-> {}]
LinuxX64 == Host("linux", "x64")
LinuxArm64 == Host("linux", "arm64")
MacArm64 == Host("macos", "arm64")
WindowsX64 == Host("windows", "x64")

\* With clang-tidy where Homebrew puts it, and machines that are not supported.
Desktops ==
    {LinuxX64, LinuxArm64, WindowsX64, Host("windows", "arm64"), Host("other", "x64"),
     [MacArm64 EXCEPT !.path = {"clang-format"}, !.brew = {"clang-tidy"}],
     [LinuxX64 EXCEPT !.path = {"clang-format"}, !.brew = {"clang-tidy"}]}

\* Nothing varies but the way the gates are called.
Plain ==
    [hosts |-> {LinuxArm64}, checkouts |-> {"sound"}, dolphins |-> {At(pinned)},
     compilers |-> {"Clang"}, cmakes |-> 1, runtime |-> {TRUE},
     handled |-> {"verify"}, tests_options |-> {TRUE}, hand_options |-> {}, edits |-> 0, moves |-> 0]

MCCampaigns ==
    [editing |->
        [Plain EXCEPT !.runtime = {FALSE}, !.edits = 1,
            !.checkouts = {"sound", "extended", "forgotten"}],
     dropping |->
        [Plain EXCEPT !.runtime = {FALSE}, !.edits = 1, !.tests_options = BOOLEAN,
            !.checkouts = {"extended", "untested"}],
     checking |->
        [Plain EXCEPT !.runtime = {FALSE}, !.hosts = Desktops,
            !.checkouts = {"sound", "misnamed", "headless", "longer", "noisy", "scripted",
                           "unpinned", "unhosted", "unlisted"}],
     quieting |->
        [Plain EXCEPT !.runtime = {FALSE}, !.edits = 1,
            !.checkouts = {"sound", "noisy", "chatty"}],
     linting |->
        [Plain EXCEPT !.edits = 1, !.checkouts = {"extended", "unbuilt"}],
     skipping |->
        [Plain EXCEPT !.handled = {"verify", "dolphin-adapter"},
            !.tests_options = BOOLEAN, !.checkouts = {"sound", "none"}],
     losing |->
        [Plain EXCEPT !.hosts = {LinuxArm64, WindowsX64},
            !.checkouts = {"sound", "losing"}, !.dolphins = {At(pinned), At(lost)}],
     doubling |->
        [Plain EXCEPT !.hosts = {LinuxX64},
            !.checkouts = {"sound", "doubling"}, !.dolphins = {At(pinned), At(doubled)}],
     compiling |->
        [Plain EXCEPT !.hosts = {MacArm64}, !.handled = {"verify", "dolphin-runtime"}, !.compilers = {"Clang", "AppleClang"},
            !.cmakes = 2],
     moving |->
        [Plain EXCEPT !.checkouts = {"sound", "losing", "unlisted"}, !.moves = 1,
            !.dolphins = {At(pinned), At(lost), [At(pinned) EXCEPT !.repository = "upstream"],
                          Absent}],
     slicing |->
        [Plain EXCEPT !.checkouts = {"sound", "fewer"},
            !.handled = {"verify", "dolphin-runtime"},
            !.hand_options = {{}}]]

\* Any supported host will do to count the tests.
CountingCampaigns ==
    [counting |-> [Plain EXCEPT !.hosts = {LinuxX64, LinuxArm64, WindowsX64, MacArm64}]]

\* A repository that is in order, and nothing else.
FreshCampaigns == [cloning |-> [Plain EXCEPT !.runtime = {FALSE}]]
=============================================================================
