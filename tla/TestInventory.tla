----------------------------- MODULE TestInventory -----------------------------
(***************************************************************************)
(* The required Dolphin tests of a host and what counts as evidence that   *)
(* they passed (dolphin_tests.py).  A text is what the regular expressions *)
(* take from it: a Counter of names is a function on Tests, a report the   *)
(* counters of its RUN and OK lines, whether it holds a FAILED or SKIPPED  *)
(* mark, and the numbers of its PASSED lines.                              *)
(***************************************************************************)
EXTENDS HostTargets, Naturals, FiniteSets, Sequences

CONSTANTS
    Tests,        \* every name a test binary can report
    COMMON_TESTS, \* required everywhere,
    POSIX_TESTS,  \* where the system is not Windows,
    X64_TESTS     \* where the machine is x64

ASSUME InventoryAssumption ==
    /\ IsFiniteSet(Tests)
    /\ COMMON_TESTS \cup POSIX_TESTS \cup X64_TESTS \subseteq Tests
    /\ COMMON_TESTS \cap POSIX_TESTS = {}
    /\ (COMMON_TESTS \cup POSIX_TESTS) \cap X64_TESTS = {}

-----------------------------------------------------------------------------
required_tests(host) ==
    COMMON_TESTS
        \cup {t \in POSIX_TESTS : host.os # "windows"}
        \cup {t \in X64_TESTS : host.arch = "x64"}

-----------------------------------------------------------------------------
\* Validation of a listing and of a report.

Counter(names) == [t \in Tests |-> IF t \in names THEN 1 ELSE 0]

\* validate_listing returns: names that are not required do not matter.
ValidListing(found, expected) == \A name \in expected : found[name] = 1

\* Mutation of ValidResult: no failure is a pass.
ValidResultWithoutFailure(report, expected) == ~report.refused

\* validate_result returns.
ValidResult(report, expected) ==
    /\ ~report.refused
    /\ report.run = Counter(expected)
    /\ report.ok = Counter(expected)
    /\ report.passed = <<Cardinality(expected)>>

-----------------------------------------------------------------------------
(***************************************************************************)
(* GoogleTest, external.  An iteration gives every selected test one       *)
(* outcome, or leaves it to another shard ("absent"); a test may also end  *)
(* the process with status 0 ("exits"), and then nothing follows.          *)
(* GTEST_REPEAT makes it two iterations.  A test that leaves a line of its *)
(* own open hides its OK line (hidden), which must begin a line; the marks *)
(* of failures are found anywhere, the PASSED line follows gtest's own.    *)
(***************************************************************************)
Outcomes == {"absent", "ok", "failed", "skipped", "exits"}

Iterations(selected) ==
    {outcome \in [selected -> Outcomes] :
        Cardinality({t \in selected : outcome[t] = "exits"}) <= 1}

Exits(outcome) == \E t \in DOMAIN outcome : outcome[t] = "exits"

Executions(selected) ==
    LET Whole == {outcome \in Iterations(selected) : ~Exits(outcome)}
    IN  {<<outcome>> : outcome \in Iterations(selected)}
            \cup {<<one, two>> : one \in Whole, two \in Iterations(selected)}

Times(execution, t, outcomes) ==
    Cardinality({i \in DOMAIN execution :
        t \in DOMAIN execution[i] /\ execution[i][t] \in outcomes})

ExitsZero(execution) == \A t \in Tests : Times(execution, t, {"failed"}) = 0

\* An iteration that a test ends has no PASSED line; it is the last.
Report(execution, hidden) ==
    [run |-> [t \in Tests |-> Times(execution, t, Outcomes \ {"absent"})],
     ok |-> [t \in Tests |->
                IF t \in hidden THEN 0 ELSE Times(execution, t, {"ok"})],
     refused |-> \E t \in Tests : Times(execution, t, {"failed", "skipped"}) > 0,
     passed |-> [i \in {i \in DOMAIN execution : ~Exits(execution[i])} |->
                    Cardinality({t \in DOMAIN execution[i] : execution[i][t] = "ok"})]]

\* The tests that passed and did nothing else, in the only iteration.
Passing(execution) ==
    {t \in Tests :
        Len(execution) = 1 /\ t \in DOMAIN execution[1] /\ execution[1][t] = "ok"}
=============================================================================
