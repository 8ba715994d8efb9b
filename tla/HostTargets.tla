------------------------------ MODULE HostTargets ------------------------------
(***************************************************************************)
(* The machine a gate runs on and what detect_host makes of it (host.py).  *)
(* A host is what `platform` names, in the names of the tables of          *)
(* detect_host, and where the formatter and the linter are found: on the   *)
(* path, or in Homebrew's llvm@18.                                         *)
(***************************************************************************)

OperatingSystems == {"linux", "windows", "macos"}
Architectures == {"x64", "arm64"}

SUPPORTED_TARGETS ==
    (OperatingSystems \X Architectures) \ {<<"windows", "arm64">>}

QualityTools == {"clang-format", "clang-tidy"}

\* "other" is what neither table names; `brew` is empty where there is none.
HostTypes == [os : OperatingSystems \cup {"other"},
              arch : Architectures \cup {"other"},
              path : SUBSET QualityTools,
              brew : SUBSET QualityTools]

\* _quality_tool returns.
QualityTool(name, host) ==
    name \in host.path \/ (host.os = "macos" /\ name \in host.brew)

\* Mutation of Detected: the caller's architecture is not compared.
DetectedByOs(host, expected_os, expected_arch) ==
    /\ <<host.os, host.arch>> \in SUPPORTED_TARGETS
    /\ expected_os \in {host.os, "any"}
    /\ \A name \in QualityTools : QualityTool(name, host)

\* Does detect_host return, given what the caller expects of the runner?
Detected(host, expected_os, expected_arch) ==
    /\ <<host.os, host.arch>> \in SUPPORTED_TARGETS
    /\ expected_os \in {host.os, "any"}
    /\ expected_arch \in {host.arch, "any"}
    /\ \A name \in QualityTools : QualityTool(name, host)

\* HostTarget.cmake_compiler_id.
cmake_compiler_id(host) == IF host.os = "macos" THEN "AppleClang" ELSE "Clang"

\* self_test.
HostSelfTest ==
    <<"linux", "arm64">> \in SUPPORTED_TARGETS /\ <<"windows", "arm64">> \notin SUPPORTED_TARGETS
=============================================================================
