------------------------ MODULE VerificationGatesSteps ------------------------
(***************************************************************************)
(* What a step of VerificationGates does: at which position of an          *)
(* invocation each command is, which types it keeps, and, by position, its *)
(* effect on the build trees.  VerificationGatesProofs rests on this.      *)
(***************************************************************************)
EXTENDS VerificationGates, SequenceTheorems, FiniteSetTheorems, TLAPS

-----------------------------------------------------------------------------
\* The verbs of a gate, on one tree.
LEMMA OnProperties ==
    ASSUME NEW S, NEW verbs \in Seq(S), NEW T, NEW tree \in T
    PROVE  /\ On(tree, verbs) \in Seq(S \X T)
           /\ Len(On(tree, verbs)) = Len(verbs)
           /\ \A i \in 1..Len(verbs) : On(tree, verbs)[i] = <<verbs[i], tree>>
<1>1. On(tree, verbs) = [i \in 1..Len(verbs) |-> <<verbs[i], tree>>]
  BY DEF On
<1>2. On(tree, verbs) \in [1..Len(verbs) -> S \X T]
  BY <1>1
<1>3. On(tree, verbs) \in Seq(S \X T)
  BY <1>2, SeqDef
<1> QED
  BY <1>1, <1>3, LenProperties

\* The commands of two gates, one after the other.
LEMMA ConcatAt ==
    ASSUME NEW S, NEW s \in Seq(S), NEW t \in Seq(S)
    PROVE  /\ s \o t \in Seq(S)
           /\ Len(s \o t) = Len(s) + Len(t)
           /\ \A i \in 1..Len(s) : (s \o t)[i] = s[i]
           /\ \A i \in 1..Len(t) : (s \o t)[Len(s) + i] = t[i]
  BY ConcatProperties

\* The verbs: a set that is small enough for the provers, where STRING is not.
Verbs == {"selftest", "structure", "dependency", "contract", "ci", "configure",
          "build", "ctest", "install", "format", "lint",
          "options", "identify", "discover", "test"}

\* The commands of verify_project, by position.
LEMMA ProjectGateAt ==
    /\ ProjectGate \in Seq(Verbs \X Trees)
    /\ Len(ProjectGate) = 11
    /\ ProjectGate[1] = <<"selftest", "verify">>
    /\ ProjectGate[2] = <<"structure", "verify">>
    /\ ProjectGate[3] = <<"dependency", "verify">>
    /\ ProjectGate[4] = <<"contract", "verify">>
    /\ ProjectGate[5] = <<"ci", "verify">>
    /\ ProjectGate[6] = <<"configure", "verify">>
    /\ ProjectGate[7] = <<"build", "verify">>
    /\ ProjectGate[8] = <<"ctest", "verify">>
    /\ ProjectGate[9] = <<"install", "verify">>
    /\ ProjectGate[10] = <<"format", "verify">>
    /\ ProjectGate[11] = <<"lint", "verify">>
<1> DEFINE verbs == <<"selftest", "structure", "dependency", "contract", "ci",
         "configure", "build", "ctest", "install", "format", "lint">>
<1>1. verbs \in Seq(Verbs) /\ Len(verbs) = 11
  BY DEF Verbs
<1>2. ProjectGate = On("verify", verbs)
  BY DEF ProjectGate
<1>3. "verify" \in Trees
  BY DEF Trees
<1>4. /\ ProjectGate \in Seq(Verbs \X Trees) /\ Len(ProjectGate) = 11
      /\ \A i \in 1..11 : ProjectGate[i] = <<verbs[i], "verify">>
  <2> HIDE DEF verbs
  <2> QED BY <1>1, <1>2, <1>3, OnProperties
<1> QED
  BY <1>4

\* The commands of verify_runtime and of the adapter gate, by position.
LEMMA RuntimeGateAt ==
    /\ RuntimeGate \in Seq(Verbs \X Trees)
    /\ Len(RuntimeGate) = 11
    /\ RuntimeGate[1] = <<"options", "dolphin-runtime">>
    /\ RuntimeGate[2] = <<"configure", "dolphin-runtime">>
    /\ RuntimeGate[3] = <<"identify", "dolphin-runtime">>
    /\ RuntimeGate[4] = <<"build", "dolphin-runtime">>
    /\ RuntimeGate[5] = <<"discover", "dolphin-runtime">>
    /\ RuntimeGate[6] = <<"test", "dolphin-runtime">>
    /\ RuntimeGate[7] = <<"configure", "dolphin-adapter">>
    /\ RuntimeGate[8] = <<"identify", "dolphin-adapter">>
    /\ RuntimeGate[9] = <<"build", "dolphin-adapter">>
    /\ RuntimeGate[10] = <<"ctest", "dolphin-adapter">>
    /\ RuntimeGate[11] = <<"lint", "dolphin-adapter">>
<1> DEFINE first == <<"options", "configure", "identify", "build", "discover", "test">>
           second == <<"configure", "identify", "build", "ctest", "lint">>
           one == On("dolphin-runtime", first)
           two == On("dolphin-adapter", second)
<1>1. first \in Seq(Verbs) /\ Len(first) = 6 /\ second \in Seq(Verbs) /\ Len(second) = 5
  BY DEF Verbs
<1>2. RuntimeGate = one \o two
  BY DEF RuntimeGate, AdapterGate
<1>3. "dolphin-runtime" \in Trees /\ "dolphin-adapter" \in Trees
  BY DEF Trees
<1>4. /\ one \in Seq(Verbs \X Trees) /\ Len(one) = 6
      /\ \A i \in 1..6 : one[i] = <<first[i], "dolphin-runtime">>
  <2> HIDE DEF first
  <2> QED BY <1>1, <1>3, OnProperties
<1>5. /\ two \in Seq(Verbs \X Trees) /\ Len(two) = 5
      /\ \A i \in 1..5 : two[i] = <<second[i], "dolphin-adapter">>
  <2> HIDE DEF second
  <2> QED BY <1>1, <1>3, OnProperties
<1>6. /\ RuntimeGate \in Seq(Verbs \X Trees) /\ Len(RuntimeGate) = 11
      /\ \A i \in 1..6 : RuntimeGate[i] = one[i]
      /\ \A i \in 1..5 : RuntimeGate[6 + i] = two[i]
  <2> DEFINE S == Verbs \X Trees
  <2>1. one \in Seq(S) /\ two \in Seq(S)
    BY <1>4, <1>5
  <2> HIDE DEF one, two, S
  <2>2. /\ one \o two \in Seq(S) /\ Len(one \o two) = Len(one) + Len(two)
        /\ \A i \in 1..Len(one) : (one \o two)[i] = one[i]
        /\ \A i \in 1..Len(two) : (one \o two)[Len(one) + i] = two[i]
    BY <2>1, ConcatAt
  <2>3. Len(one) = 6 /\ Len(two) = 5
    BY <1>4, <1>5
  <2> QED BY <1>2, <2>2, <2>3 DEF S
<1>7. /\ RuntimeGate[7] = <<second[1], "dolphin-adapter">>
      /\ RuntimeGate[8] = <<second[2], "dolphin-adapter">>
      /\ RuntimeGate[9] = <<second[3], "dolphin-adapter">>
      /\ RuntimeGate[10] = <<second[4], "dolphin-adapter">>
      /\ RuntimeGate[11] = <<second[5], "dolphin-adapter">>
  <2> HIDE DEF second, two
  <2>1. 6 + 1 = 7 /\ 6 + 2 = 8 /\ 6 + 3 = 9 /\ 6 + 4 = 10 /\ 6 + 5 = 11
    OBVIOUS
  <2> QED BY <1>5, <1>6, <2>1
<1>8. \A i \in 1..6 : RuntimeGate[i] = <<first[i], "dolphin-runtime">>
  <2> HIDE DEF first, one
  <2> QED BY <1>4, <1>6
<1> QED
  BY <1>6, <1>7, <1>8

\* All of them.
LEMMA WithRuntimeAt ==
    /\ WithRuntime \in Seq(Verbs \X Trees)
    /\ Len(WithRuntime) = 22
    /\ \A i \in 1..11 : WithRuntime[i] = ProjectGate[i]
    /\ \A i \in 1..11 : WithRuntime[11 + i] = RuntimeGate[i]
<1> DEFINE S == Verbs \X Trees
           Joined(s, t) == /\ s \o t \in Seq(S)
                           /\ Len(s \o t) = Len(s) + Len(t)
                           /\ \A i \in 1..Len(s) : (s \o t)[i] = s[i]
                           /\ \A i \in 1..Len(t) : (s \o t)[Len(s) + i] = t[i]
<1>1. \A s \in Seq(S), t \in Seq(S) : Joined(s, t)
  <2> HIDE DEF S
  <2> QED BY ConcatAt
<1>2. /\ ProjectGate \in Seq(S) /\ Len(ProjectGate) = 11
      /\ RuntimeGate \in Seq(S) /\ Len(RuntimeGate) = 11
  BY ProjectGateAt, RuntimeGateAt
<1>3. Joined(ProjectGate, RuntimeGate)
  <2> HIDE DEF S, Joined
  <2> QED BY <1>1, <1>2, Zenon
<1>4. 11 + 11 = 22
  OBVIOUS
<1> QED
  BY <1>2, <1>3, <1>4, Zenon DEF WithRuntime

\* The commands of an invocation with --runtime, of which the others are the
\* first eleven.
AllCommands ==
    <<<<"selftest", "verify">>, <<"structure", "verify">>, <<"dependency", "verify">>,
      <<"contract", "verify">>, <<"ci", "verify">>,
      <<"configure", "verify">>, <<"build", "verify">>, <<"ctest", "verify">>,
      <<"install", "verify">>, <<"format", "verify">>, <<"lint", "verify">>,
      <<"options", "dolphin-runtime">>, <<"configure", "dolphin-runtime">>,
      <<"identify", "dolphin-runtime">>, <<"build", "dolphin-runtime">>,
      <<"discover", "dolphin-runtime">>, <<"test", "dolphin-runtime">>,
      <<"configure", "dolphin-adapter">>, <<"identify", "dolphin-adapter">>,
      <<"build", "dolphin-adapter">>, <<"ctest", "dolphin-adapter">>,
      <<"lint", "dolphin-adapter">>>>

\* How many commands an invocation has, and which.
LEMMA CommandAt ==
    ASSUME NEW runtime \in BOOLEAN
    PROVE  /\ Len(Commands(runtime)) = IF runtime THEN 22 ELSE 11
           /\ \A step \in 1..Len(Commands(runtime)) :
                Commands(runtime)[step] = AllCommands[step]
<1>1. \A step \in 1..11 : ProjectGate[step] = AllCommands[step]
  <2>1. \A step \in 1..11 : \/ step = 1 \/ step = 2 \/ step = 3 \/ step = 4
                            \/ step = 5 \/ step = 6 \/ step = 7 \/ step = 8
                            \/ step = 9 \/ step = 10 \/ step = 11
    OBVIOUS
  <2>2. /\ ProjectGate[1] = AllCommands[1] /\ ProjectGate[2] = AllCommands[2]
        /\ ProjectGate[3] = AllCommands[3] /\ ProjectGate[4] = AllCommands[4]
        /\ ProjectGate[5] = AllCommands[5] /\ ProjectGate[6] = AllCommands[6]
        /\ ProjectGate[7] = AllCommands[7] /\ ProjectGate[8] = AllCommands[8]
        /\ ProjectGate[9] = AllCommands[9] /\ ProjectGate[10] = AllCommands[10]
        /\ ProjectGate[11] = AllCommands[11]
    BY ProjectGateAt DEF AllCommands
  <2> QED BY <2>1, <2>2, Zenon
<1>2. \A i \in 1..11 : RuntimeGate[i] = AllCommands[11 + i]
  <2>1. /\ RuntimeGate[1] = AllCommands[12] /\ RuntimeGate[2] = AllCommands[13]
        /\ RuntimeGate[3] = AllCommands[14] /\ RuntimeGate[4] = AllCommands[15]
        /\ RuntimeGate[5] = AllCommands[16] /\ RuntimeGate[6] = AllCommands[17]
        /\ RuntimeGate[7] = AllCommands[18] /\ RuntimeGate[8] = AllCommands[19]
        /\ RuntimeGate[9] = AllCommands[20] /\ RuntimeGate[10] = AllCommands[21]
        /\ RuntimeGate[11] = AllCommands[22]
    BY RuntimeGateAt DEF AllCommands
  <2>2. ASSUME NEW i \in 1..11 PROVE RuntimeGate[i] = AllCommands[11 + i]
    <3>1. CASE i <= 4
      BY <2>1, <3>1
    <3>2. CASE i \in 5..8
      BY <2>1, <3>2
    <3>3. CASE i > 8
      BY <2>1, <3>3
    <3> QED BY <3>1, <3>2, <3>3
  <2> QED BY <2>2
<1>3. CASE ~runtime
  BY <1>1, <1>3, ProjectGateAt DEF Commands
<1>4. CASE runtime
  <2>1. \A step \in 1..22 : WithRuntime[step] = AllCommands[step]
    <3> TAKE step \in 1..22
    <3>1. CASE step <= 11
      BY <1>1, <3>1, WithRuntimeAt
    <3>2. CASE step > 11
      <4>1. step - 11 \in 1..11 /\ 11 + (step - 11) = step
        BY <3>2
      <4>2. WithRuntime[11 + (step - 11)] = RuntimeGate[step - 11]
        BY <4>1, WithRuntimeAt
      <4> QED BY <1>2, <4>1, <4>2
    <3> QED BY <3>1, <3>2
  <2> QED BY <1>4, <2>1, WithRuntimeAt DEF Commands
<1> QED
  BY <1>3, <1>4

\* The positions at which a tree is configured and built.
ConfigureStep(tree) ==
    IF tree = "verify" THEN 6 ELSE IF tree = "dolphin-runtime" THEN 13 ELSE 18

BuildStep(tree) ==
    IF tree = "verify" THEN 7 ELSE IF tree = "dolphin-runtime" THEN 15 ELSE 20

\* A running gate is at one of its commands.
LEMMA StepIs ==
    ASSUME TypeOK, Running
    PROVE  /\ gate.step \in 1..22
           /\ gate.step \in 1..Len(Commands(gate.runtime))
           /\ gate.step > 11 => gate.runtime
           /\ \A verb, tree : Doing(verb, tree) => AllCommands[gate.step] = <<verb, tree>>
<1>1. /\ gate.runtime \in BOOLEAN /\ gate.step \in 0..Len(Commands(gate.runtime))
      /\ gate.step # 0
  BY DEF TypeOK, Running
<1>2. /\ Len(Commands(gate.runtime)) = IF gate.runtime THEN 22 ELSE 11
      /\ \A step \in 1..Len(Commands(gate.runtime)) :
            Commands(gate.runtime)[step] = AllCommands[step]
  BY <1>1, CommandAt
<1>3. /\ gate.step \in 1..22 /\ gate.step \in 1..Len(Commands(gate.runtime))
      /\ gate.step > 11 => gate.runtime
  <2> DEFINE n == Len(Commands(gate.runtime))
  <2>1. n = (IF gate.runtime THEN 22 ELSE 11) /\ gate.step \in 0..n
    BY <1>1, <1>2
  <2> HIDE DEF n
  <2>2. gate.step \in 1..22 /\ gate.step \in 1..n /\ (gate.step > 11 => gate.runtime)
    <3>1. CASE gate.runtime
      <4>1. n = 22 /\ gate.step \in 0..n /\ gate.step # 0
        BY <1>1, <2>1, <3>1
      <4> QED BY <3>1, <4>1
    <3>2. CASE ~gate.runtime
      <4>1. n = 11 /\ gate.step \in 0..n /\ gate.step # 0
        BY <1>1, <2>1, <3>2
      <4> QED BY <3>2, <4>1
    <3> QED BY <3>1, <3>2
  <2> QED BY <2>2 DEF n
<1> QED
  BY <1>2, <1>3 DEF Doing

\* The position of each command.
LEMMA DoingAt ==
    ASSUME TypeOK, NEW verb, NEW tree, Doing(verb, tree)
    PROVE  /\ Running
           /\ verb = "selftest" => gate.step = 1
           /\ verb = "structure" => gate.step = 2
           /\ verb = "dependency" => gate.step = 3
           /\ verb = "contract" => gate.step = 4
           /\ verb = "ci" => gate.step = 5
           /\ verb = "configure" => gate.step = ConfigureStep(tree)
           /\ verb = "build" => gate.step = BuildStep(tree)
           /\ verb = "ctest" => \/ tree = "verify" /\ gate.step = 8
                                \/ tree = "dolphin-adapter" /\ gate.step = 21
           /\ verb = "install" => gate.step = 9
           /\ verb = "format" => gate.step = 10
           /\ verb = "lint" => \/ tree = "verify" /\ gate.step = 11
                               \/ tree = "dolphin-adapter" /\ gate.step = 22
           /\ verb = "options" => gate.step = 12
           /\ verb = "identify" => tree # "verify" /\ gate.step = ConfigureStep(tree) + 1
           /\ verb = "discover" => gate.step = 16
           /\ verb = "test" => gate.step = 17
<1>1. Running
  BY DEF Doing
<1>2. gate.step \in 1..22 /\ AllCommands[gate.step] = <<verb, tree>>
  BY <1>1, StepIs
<1> DEFINE step == gate.step
<1>3. CASE step \in 1..7
  BY <1>1, <1>2, <1>3 DEF AllCommands, ConfigureStep, BuildStep
<1>4. CASE step \in 8..14
  BY <1>1, <1>2, <1>4 DEF AllCommands, ConfigureStep, BuildStep
<1>5. CASE step \in 15..22
  BY <1>1, <1>2, <1>5 DEF AllCommands, ConfigureStep, BuildStep
<1> QED
  BY <1>2, <1>3, <1>4, <1>5

-----------------------------------------------------------------------------
\* A campaign of GatesAssumption is what varies.
LEMMA PlanTyped ==
    ASSUME campaign \in DOMAIN Campaigns
    PROVE  IsCampaign(Plan)
  BY GatesAssumption DEF Plan

\* What a gate reads of the repository, the machine and Dolphin has its types.
LEMMA HereTyped ==
    ASSUME TypeOK
    PROVE  /\ checkout \in Checkouts
           /\ here.files \subseteq Files
           /\ here.gcnport \cup here.adapter \subseteq CompilableUnits
           /\ here.manifest \in {Absent} \cup Manifests
           /\ toolchain \in Compilers /\ toolchain # Absent
           /\ cmake \in 1..CMakes
           /\ dolphin \in Checkedout \cup {Absent}
<1>1. IsCampaign(Plan)
  BY PlanTyped DEF TypeOK
<1>2. checkout \in Checkouts /\ toolchain \in Compilers /\ dolphin \in Checkedout \cup {Absent}
  BY <1>1 DEF TypeOK, IsCampaign
<1>3. cmake \in 1..CMakes
  BY <1>1, GatesAssumption DEF TypeOK, IsCampaign
<1> QED
  BY <1>2, <1>3, GatesAssumption DEF here

\* This CMake has looked at the compiler of the tree.
CompilerKnown(tree) == trees[tree].identities[cmake] # Absent

\* What it knows it keeps.
LEMMA IdentityTyped ==
    ASSUME TypeOK, NEW tree \in Trees
    PROVE  /\ IdentityAfter(tree) \in Compilers /\ IdentityAfter(tree) # Absent
           /\ CompilerKnown(tree) => IdentityAfter(tree) = trees[tree].identities[cmake]
<1>1. cmake \in 1..CMakes /\ toolchain \in Compilers /\ toolchain # Absent
  BY HereTyped
<1>2. trees[tree].identities[cmake] \in Compilers \cup {Absent}
  <2>1. trees[tree] \in BuildTrees
    BY DEF TypeOK
  <2>2. trees[tree].identities \in [1..CMakes -> Compilers \cup {Absent}]
    BY <2>1 DEF BuildTrees
  <2> QED BY <1>1, <2>2
<1> QED
  BY <1>1, <1>2 DEF IdentityAfter, CompilerKnown

\* Configuring a tree keeps the type of it.
LEMMA ConfiguredTyped ==
    ASSUME TypeOK, NEW tree \in Trees, NEW tests_option \in BOOLEAN,
           Configurable(tree, tests_option) \/ tree = "dolphin-runtime"
    PROVE  LET after == Configured(tree, tests_option)
           IN  /\ after \in BuildTrees
               /\ after.identities[cmake] = IdentityAfter(tree)
               /\ CompilerKnown(tree) => after.identities = trees[tree].identities
               /\ after.off = trees[tree].off \cup SwitchedOff(tree)
               /\ after.database = CompileDatabase(tree, tests_option)
               /\ after.built = trees[tree].built
<1>1. trees[tree] \in BuildTrees
  BY DEF TypeOK
<1>2. SwitchedOff(tree) \in SUBSET DolphinOptions
  <2>1. CASE tree = "dolphin-runtime"
    BY <2>1 DEF SwitchedOff, TypeOK
  <2>2. CASE tree = "dolphin-adapter"
    <3>1. here.manifest \in Manifests
      BY <2>2, HereTyped DEF Configurable, RequiresCheckout
    <3> QED BY <2>2, <3>1 DEF SwitchedOff, Manifests
  <2>3. CASE tree = "verify"
    BY <2>3 DEF SwitchedOff
  <2> QED BY <2>1, <2>2, <2>3 DEF Trees
<1>3. CompileDatabase(tree, tests_option) \in SUBSET CompilableUnits
  BY HereTyped DEF CompileDatabase
<1> DEFINE identity == IdentityAfter(tree)
<1>4. /\ identity \in Compilers /\ cmake \in 1..CMakes
      /\ CompilerKnown(tree) => identity = trees[tree].identities[cmake]
  BY HereTyped, IdentityTyped
<1> HIDE DEF identity
<1> DEFINE identities == [trees[tree].identities EXCEPT ![cmake] = identity]
<1>5. /\ identities \in [1..CMakes -> Compilers \cup {Absent}] /\ identities[cmake] = identity
      /\ CompilerKnown(tree) => identities = trees[tree].identities
  BY <1>1, <1>4 DEF BuildTrees
<1> DEFINE off == trees[tree].off \cup SwitchedOff(tree)
           database == CompileDatabase(tree, tests_option)
           after == [trees[tree] EXCEPT !.identities[cmake] = identity,
                                        !.tests_option = tests_option,
                                        !.off = off, !.database = database]
<1>6. Configured(tree, tests_option) = after
  BY DEF Configured, identity
<1>7. off \in SUBSET DolphinOptions /\ database \in SUBSET CompilableUnits
  BY <1>1, <1>2, <1>3 DEF BuildTrees
<1> HIDE DEF off, database, identities
<1>8. /\ after.identities = identities /\ after.tests_option = tests_option
      /\ after.off = off /\ after.database = database /\ after.built = trees[tree].built
      /\ DOMAIN after = DOMAIN trees[tree]
  BY <1>1 DEF BuildTrees, identities
<1>9. after \in BuildTrees
  BY <1>1, <1>5, <1>7 DEF BuildTrees, identities
<1> HIDE DEF after
<1> QED
  BY <1>5, <1>6, <1>8, <1>9 DEF identity, identities, off, database

\* ... and so does building it.
LEMMA BuiltTyped ==
    ASSUME TypeOK, NEW tree \in Trees, Buildable(tree), CompilerKnown(tree)
    PROVE  LET after == Built(tree)
           IN  /\ after \in BuildTrees
               /\ after.identities = trees[tree].identities
               /\ after.database = CompileDatabase(tree, trees[tree].tests_option)
               /\ trees[tree].off \subseteq after.off
               /\ after.built \in Builds
               /\ after.built.compiler = trees[tree].identities[cmake]
               /\ after.built.checkout = checkout
               /\ after.built.off = after.off
               /\ after.built.dolphin = IF tree = "verify" THEN Absent ELSE dolphin.revision
<1> DEFINE option == trees[tree].tests_option
           generated == IF Outdated(tree) THEN Configured(tree, option) ELSE trees[tree]
<1>1. trees[tree] \in BuildTrees /\ option \in BOOLEAN
  BY DEF TypeOK, BuildTrees
<1>2. generated \in BuildTrees /\ generated.identities = trees[tree].identities
      /\ trees[tree].off \subseteq generated.off
      /\ generated.database = CompileDatabase(tree, option)
  <2>1. CASE Outdated(tree)
    <3>1. Configurable(tree, option)
      BY <2>1 DEF Buildable
    <3> HIDE DEF option
    <3>2. /\ Configured(tree, option) \in BuildTrees
          /\ Configured(tree, option).identities = trees[tree].identities
          /\ Configured(tree, option).off = trees[tree].off \cup SwitchedOff(tree)
          /\ Configured(tree, option).database = CompileDatabase(tree, option)
      BY <1>1, <3>1, ConfiguredTyped
    <3> QED BY <2>1, <3>2
  <2>2. CASE ~Outdated(tree)
    BY <1>1, <2>2 DEF Outdated
  <2> QED BY <2>1, <2>2
<1> DEFINE revision == IF tree = "verify" THEN Absent ELSE dolphin.revision
           build == [checkout |-> checkout, dolphin |-> revision,
                     compiler |-> generated.identities[cmake],
                     off |-> generated.off, tested |-> FALSE]
<1>3. revision \in Revisions \cup {Absent}
  BY HereTyped DEF Buildable, Checkedout
<1>4. Built(tree) = [generated EXCEPT !.built = build]
  BY DEF Built
<1> HIDE DEF generated, revision
<1>5. build \in Builds
  <2>1. generated.identities[cmake] \in Compilers
    BY <1>1, <1>2, HereTyped DEF CompilerKnown, BuildTrees
  <2> QED BY <1>2, <1>3, <2>1, HereTyped DEF Builds, BuildTrees
<1>6. build.compiler = trees[tree].identities[cmake] /\ build.checkout = checkout
      /\ build.off = generated.off /\ build.dolphin = revision
  BY <1>2
<1> HIDE DEF build
<1>7. /\ Built(tree) \in BuildTrees /\ Built(tree).built = build
      /\ Built(tree).identities = generated.identities /\ Built(tree).off = generated.off
      /\ Built(tree).database = generated.database
  BY <1>2, <1>4, <1>5 DEF BuildTrees
<1> QED
  BY <1>2, <1>5, <1>6, <1>7 DEF revision

\* What TypeOK says of the invocation.
GateTyped ==
    /\ gate \in [status : {"idle", "running", "passed", "raised"}, runtime : BOOLEAN,
                 step : 0..Len(Commands(gate.runtime)), options : SUBSET DolphinOptions,
                 listed : SUBSET Files]
    /\ gate.status = "running" <=> gate.step # 0
    /\ meddling \in [edits : 0..Plan.edits, moves : 0..Plan.moves, began : Checkouts \cup {Absent}]

\* ReadOptions, when it succeeds.
OptionsRead ==
    /\ gate.step = 12
    /\ OptionsListed
    /\ gate' = [gate EXCEPT !.step = @ + 1,
                            !.options = here.manifest.off \cup
                                IF host.os = "linux" THEN here.manifest.linux_off ELSE {}]
    /\ UNCHANGED meddling

\* Format, when it succeeds.
FilesListed ==
    /\ gate.step = 10
    /\ gate' = [gate EXCEPT !.step = @ + 1, !.listed = here.files]
    /\ UNCHANGED meddling

\* The invocations of n commands.
Gates(n) == [status : {"idle", "running", "passed", "raised"}, runtime : BOOLEAN,
             step : 0..n, options : SUBSET DolphinOptions, listed : SUBSET Files]

\* An invocation that ends has no position and no meddlers.
LEMMA EndsTyped ==
    ASSUME TypeOK, campaign' = campaign, NEW status \in {"passed", "raised"}, Ends(status)
    PROVE  GateTyped' /\ ~Running' /\ gate'.status = status
<1>1. IsCampaign(Plan) /\ Plan' = Plan
  BY PlanTyped DEF TypeOK, Plan
<1>2. /\ gate' = [gate EXCEPT !.status = status, !.step = 0, !.options = {}, !.listed = {}]
      /\ meddling' = NoMeddling
  BY DEF Ends
<1>3. gate.runtime \in BOOLEAN
  BY DEF TypeOK
<1>4. Len(Commands(gate.runtime)) \in Nat
  BY <1>3, CommandAt
<1> DEFINE n == Len(Commands(gate.runtime))
<1>5. /\ gate'.status = status /\ gate'.runtime = gate.runtime
      /\ gate'.step = 0 /\ gate'.options = {} /\ gate' \in Gates(n)
  <2>1. /\ gate \in Gates(n) /\ 0 \in 0..n
        /\ {} \in SUBSET DolphinOptions /\ {} \in SUBSET Files
    BY <1>4 DEF TypeOK, Gates
  <2> HIDE DEF n
  <2>2. /\ gate'.status = status /\ gate'.runtime = gate.runtime
        /\ gate'.step = 0 /\ gate'.options = {}
    BY <1>2, <2>1 DEF Gates
  <2>3. gate' \in Gates(n)
    BY <1>2, <2>1 DEF Gates
  <2> QED BY <2>2, <2>3
<1>6. meddling' \in [edits : 0..Plan.edits, moves : 0..Plan.moves,
                     began : Checkouts \cup {Absent}]
  BY <1>1, <1>2 DEF NoMeddling, IsCampaign
<1> QED
  BY <1>1, <1>5, <1>6 DEF GateTyped, Running, Gates

\* An advance by one command.
GoesOn ==
    /\ gate.step < Len(Commands(gate.runtime))
    /\ gate'.status = "running" /\ gate'.runtime = gate.runtime
    /\ gate'.step = gate.step + 1
    /\ UNCHANGED meddling

\* A command that succeeds ends the invocation or is followed by another.
LEMMA SucceedsTyped ==
    ASSUME TypeOK, campaign' = campaign, Running, Succeeds
    PROVE  /\ GateTyped'
           /\ \/ gate.step = Len(Commands(gate.runtime)) /\ gate'.status = "passed" /\ ~Running'
              \/ GoesOn /\ gate'.options = gate.options
<1>1. CASE gate.step = Len(Commands(gate.runtime))
  <2>1. Ends("passed")
    BY <1>1 DEF Succeeds
  <2> QED BY <1>1, <2>1, EndsTyped
<1>2. CASE gate.step # Len(Commands(gate.runtime))
  <2>1. gate' = [gate EXCEPT !.step = @ + 1] /\ meddling' = meddling
    BY <1>2 DEF Succeeds
  <2> DEFINE n == Len(Commands(gate.runtime))
  <2>2. gate.runtime \in BOOLEAN
    BY DEF TypeOK
  <2>3. n \in Nat /\ gate.step \in 0..n /\ gate.step # n
    BY <1>2, <2>2, CommandAt DEF TypeOK
  <2>4. /\ gate'.status = gate.status /\ gate'.runtime = gate.runtime
        /\ gate'.step = gate.step + 1 /\ gate'.options = gate.options
    BY <2>1 DEF TypeOK
  <2> HIDE DEF n
  <2>5. gate.step < n /\ gate'.step \in 0..n /\ gate'.step # 0
    BY <2>3, <2>4
  <2>6. gate' \in [status : {"idle", "running", "passed", "raised"}, runtime : BOOLEAN,
                    step : 0..n, options : SUBSET DolphinOptions, listed : SUBSET Files]
    BY <2>1, <2>5 DEF TypeOK
  <2>7. meddling' \in [edits : 0..Plan'.edits, moves : 0..Plan'.moves,
                       began : Checkouts \cup {Absent}]
    BY <2>1 DEF TypeOK, Plan
  <2>8. gate'.status = "running"
    BY <2>4 DEF Running
  <2> QED BY <2>1, <2>4, <2>5, <2>6, <2>7, <2>8 DEF GateTyped, GoesOn, n
<1> QED
  BY <1>1, <1>2

\* Reading the options, which keeps them for the commands that follow.
LEMMA OptionsTyped ==
    ASSUME TypeOK, campaign' = campaign, Running, OptionsRead
    PROVE  GateTyped' /\ GoesOn
<1> DEFINE n == Len(Commands(gate.runtime))
           options == here.manifest.off \cup
                          IF host.os = "linux" THEN here.manifest.linux_off ELSE {}
<1>1. gate.runtime \in BOOLEAN /\ gate.step \in 0..n /\ gate.step = 12
  BY DEF TypeOK, OptionsRead
<1>2. n = IF gate.runtime THEN 22 ELSE 11
  BY <1>1, CommandAt
<1> HIDE DEF n
<1>3. n = 22
  <2>1. CASE gate.runtime
    BY <1>2, <2>1
  <2>2. CASE ~gate.runtime
    <3>1. n = 11
      BY <1>2, <2>2
    <3> QED BY <1>1, <3>1
  <2> QED BY <2>1, <2>2
<1>4. options \in SUBSET DolphinOptions
  BY HereTyped DEF OptionsRead, OptionsListed, Manifests
<1> HIDE DEF options
<1>5. gate' = [gate EXCEPT !.step = @ + 1, !.options = options] /\ meddling' = meddling
  BY DEF OptionsRead, options
<1>6. gate \in Gates(n) /\ gate.step + 1 = 13 /\ 13 \in 0..n
  BY <1>1, <1>3 DEF TypeOK, Gates, n
<1>7. /\ gate'.status = gate.status /\ gate'.runtime = gate.runtime
      /\ gate'.step = 13 /\ gate' \in Gates(n)
  <2>1. gate' = [gate EXCEPT !.step = 13, !.options = options]
    BY <1>5, <1>6
  <2>2. gate'.status = gate.status /\ gate'.runtime = gate.runtime /\ gate'.step = 13
    BY <1>6, <2>1 DEF Gates
  <2>3. gate' \in Gates(n)
    BY <1>4, <1>6, <2>1 DEF Gates
  <2> QED BY <2>2, <2>3
<1>8. meddling' \in [edits : 0..Plan'.edits, moves : 0..Plan'.moves,
                       began : Checkouts \cup {Absent}]
  BY <1>5 DEF TypeOK, Plan
<1>9. gate'.status = "running"
  BY <1>7 DEF Running
<1>10. GateTyped'
  BY <1>7, <1>8, <1>9 DEF GateTyped, Gates, n
<1>11. gate.step < n /\ gate'.step = gate.step + 1
  BY <1>1, <1>3, <1>7
<1> QED
  BY <1>5, <1>7, <1>9, <1>10, <1>11 DEF GoesOn, n

\* Listing the files, which are kept for the linter.
LEMMA ListedTyped ==
    ASSUME TypeOK, campaign' = campaign, Running, FilesListed
    PROVE  GateTyped' /\ GoesOn /\ gate'.options = gate.options
<1> DEFINE n == Len(Commands(gate.runtime))
<1>1. gate.runtime \in BOOLEAN /\ gate.step = 10
  BY DEF TypeOK, FilesListed
<1>2. n \in {11, 22}
  BY <1>1, CommandAt
<1>3. here.files \in SUBSET Files
  BY HereTyped
<1> DEFINE files == here.files
<1> HIDE DEF n, files
<1>4. gate' = [gate EXCEPT !.step = 11, !.listed = files] /\ meddling' = meddling
  <2>1. gate' = [gate EXCEPT !.step = gate.step + 1, !.listed = files] /\ meddling' = meddling
    BY DEF FilesListed, files
  <2> QED BY <1>1, <2>1
<1>5. gate \in Gates(n) /\ 11 \in 0..n /\ 10 < n
  <2>1. gate \in Gates(n)
    BY DEF TypeOK, Gates, n
  <2> QED BY <1>2, <2>1
<1>6. /\ gate'.status = gate.status /\ gate'.runtime = gate.runtime
      /\ gate'.step = 11 /\ gate'.options = gate.options
  BY <1>4, <1>5 DEF Gates
<1>7. gate' \in Gates(n)
  BY <1>3, <1>4, <1>5 DEF Gates, files
<1>8. meddling' \in [edits : 0..Plan'.edits, moves : 0..Plan'.moves,
                       began : Checkouts \cup {Absent}]
  BY <1>4 DEF TypeOK, Plan
<1>9. gate'.status = "running"
  BY <1>6 DEF Running
<1>10. GateTyped'
  BY <1>6, <1>7, <1>8, <1>9 DEF GateTyped, Gates, n
<1> QED
  BY <1>1, <1>4, <1>5, <1>6, <1>9, <1>10 DEF GoesOn, n

\* What an invocation does next.
Work ==
    \/ SelfTest \/ CheckStructure \/ CheckDependency \/ CheckContract \/ CheckCI
    \/ Format \/ ReadOptions \/ CommandFails
    \/ \E tree \in Trees :
            \/ Configure(tree) \/ ConfigureFails(tree) \/ Identify(tree)
            \/ Build(tree) \/ BuildFails(tree) \/ CTest(tree)
    \/ Install \/ InstallFails \/ Discover \/ Test \/ LintProject \/ LintAdapter

\* A command fails, succeeds, or keeps what it has read.
Outcome == Raises \/ Succeeds \/ (ReadOptions /\ ~Raises) \/ Format

\* However a command ends, it has one of these outcomes.
LEMMA WorkEnds ==
    ASSUME Work
    PROVE  Running /\ UNCHANGED world /\ Outcome
<1>1. CASE SelfTest
  BY <1>1 DEF Outcome, SelfTest, Look, Doing
<1>2. CASE CheckStructure
  BY <1>2 DEF Outcome, CheckStructure, Look, Doing
<1>3. CASE CheckDependency
  BY <1>3 DEF Outcome, CheckDependency, Look, Doing
<1>4. CASE CheckContract
  BY <1>4 DEF Outcome, CheckContract, Look, Doing
<1>5. CASE CheckCI
  BY <1>5 DEF Outcome, CheckCI, Look, Doing
<1>6. CASE Format
  BY <1>6 DEF Outcome, Format, Doing
<1>7. CASE ReadOptions
  BY <1>7 DEF Outcome, ReadOptions, Doing
<1>8. CASE CommandFails
  BY <1>8 DEF Outcome, CommandFails, Doing
<1>9. ASSUME NEW tree \in Trees, Configure(tree)
      PROVE  Running /\ UNCHANGED world /\ Outcome
  BY <1>9 DEF Outcome, Configure, Doing
<1>10. ASSUME NEW tree \in Trees, ConfigureFails(tree)
      PROVE  Running /\ UNCHANGED world /\ Outcome
  BY <1>10 DEF Outcome, ConfigureFails, Doing
<1>11. ASSUME NEW tree \in Trees, Identify(tree)
      PROVE  Running /\ UNCHANGED world /\ Outcome
  BY <1>11 DEF Outcome, Identify, Doing
<1>12. ASSUME NEW tree \in Trees, Build(tree)
      PROVE  Running /\ UNCHANGED world /\ Outcome
  BY <1>12 DEF Outcome, Build, Doing
<1>13. ASSUME NEW tree \in Trees, BuildFails(tree)
      PROVE  Running /\ UNCHANGED world /\ Outcome
  BY <1>13 DEF Outcome, BuildFails, Doing
<1>14. ASSUME NEW tree \in Trees, CTest(tree)
      PROVE  Running /\ UNCHANGED world /\ Outcome
  BY <1>14 DEF Outcome, CTest, Doing
<1>15. CASE Install
  BY <1>15 DEF Outcome, Install, Doing
<1>16. CASE InstallFails
  BY <1>16 DEF Outcome, InstallFails, Doing
<1>17. CASE Discover
  BY <1>17 DEF Outcome, Discover, Doing
<1>18. CASE Test
  BY <1>18 DEF Outcome, Test, Doing
<1>19. CASE LintProject
  BY <1>19 DEF Outcome, LintProject, Doing
<1>20. CASE LintAdapter
  BY <1>20 DEF Outcome, LintAdapter, Doing
<1> QED
  BY <1>1, <1>2, <1>3, <1>4, <1>5, <1>6, <1>7, <1>8, <1>9, <1>10, <1>11, <1>12, <1>13, <1>14, <1>15, <1>16, <1>17, <1>18, <1>19, <1>20 DEF Work

\* A ReadOptions that does not fail is OptionsRead.
LEMMA OptionsAt ==
    ASSUME TypeOK, ReadOptions, ~Raises
    PROVE  OptionsRead
<1>1. gate.step = 12
  BY DoingAt DEF ReadOptions
<1> QED
  BY <1>1 DEF ReadOptions, OptionsRead

\* A Format that does not fail is FilesListed.
LEMMA ListedAt ==
    ASSUME TypeOK, Format
    PROVE  FilesListed
<1>1. gate.step = 10
  BY DoingAt DEF Format
<1> QED
  BY <1>1 DEF Format, FilesListed

\* A command runs in a running gate and leaves the world alone.
LEMMA WorkTyped ==
    ASSUME TypeOK, Work
    PROVE  GateTyped' /\ (Running' => GoesOn)
<1>1. /\ Running /\ campaign' = campaign
      /\ Raises \/ Succeeds \/ (ReadOptions /\ ~Raises) \/ Format
  BY WorkEnds DEF world, Outcome
<1>2. CASE Raises
  BY <1>1, <1>2, EndsTyped DEF Raises
<1>3. CASE Succeeds
  BY <1>1, <1>3, SucceedsTyped
<1>4. CASE ReadOptions /\ ~Raises
  BY <1>1, <1>4, OptionsAt, OptionsTyped
<1>5. CASE Format
  BY <1>1, <1>5, ListedAt, ListedTyped
<1> QED
  BY <1>1, <1>2, <1>3, <1>4, <1>5

\* A gate that raises does not go on.
LEMMA RaisesStops ==
    ASSUME Raises
    PROVE  ~Running'
  BY DEF Raises, Ends, Running

\* What the commands do to a tree.
Configuring(tree) ==
    /\ gate.step = ConfigureStep(tree)
    /\ Configurable(tree, trees[tree].tests_option)
    /\ trees' = [trees EXCEPT ![tree] = Configured(tree, trees[tree].tests_option)]

Building(tree) ==
    /\ gate.step = BuildStep(tree)
    /\ Buildable(tree)
    /\ trees' = [trees EXCEPT ![tree] = Built(tree)]

Testing(tree) ==
    /\ \/ tree = "verify" /\ gate.step = 8
       \/ tree = "dolphin-adapter" /\ gate.step = 21
    /\ trees[tree].built # Absent
    /\ trees' = [trees EXCEPT ![tree].built.tested = Selected(tree) # {}]

\* What a command has done when the invocation goes on.
Effects ==
    /\ \/ /\ UNCHANGED trees
          /\ gate.step \notin {6, 7, 8, 13, 15, 18, 20, 21}
       \/ \E tree \in Trees : Configuring(tree) \/ Building(tree) \/ Testing(tree)
    /\ gate.step = 2 => check_structure(Sources, here.tools) = 0
    /\ gate.step = 3 => check_dependency(dolphin, here.manifest) = 0
    /\ gate.step = 10 => FilesListed
    /\ gate.step = 12 => OptionsRead
    /\ gate.step # 12 /\ Running' => gate'.options = gate.options
    /\ gate.step = 14 => Identified("dolphin-runtime")
    /\ gate.step = 19 => Identified("dolphin-adapter")
    /\ installed' = IF gate.step = 9 THEN Copied(Headers \cap here.files) ELSE installed

\* The options survive every other command.
LEMMA OptionsKept ==
    ASSUME TypeOK, Succeeds
    PROVE  Running' => gate'.options = gate.options
  BY DEF Succeeds, Ends, Running, TypeOK

\* What a command that does not raise has done, by position.
LEMMA WorkEffects ==
    ASSUME TypeOK, Work, ~Raises
    PROVE  Running /\ UNCHANGED world /\ (Running' => GoesOn) /\ Effects
<1>1. Running /\ UNCHANGED world /\ (Running' => GoesOn) /\ ~Raises
  BY WorkEnds, WorkTyped
<1>2. CASE SelfTest
  <2>1. gate.step = 1
    BY <1>2, DoingAt DEF SelfTest, Look
  <2>2. Succeeds
    BY <1>1, <1>2 DEF SelfTest, Look
  <2>3. Running' => gate'.options = gate.options
    BY <1>1, <2>2, OptionsKept
  <2> QED BY <1>1, <1>2, <2>1, <2>3 DEF SelfTest, Look, Effects
<1>3. CASE CheckStructure
  <2>1. gate.step = 2
    BY <1>3, DoingAt DEF CheckStructure, Look
  <2>2. Succeeds
    BY <1>1, <1>3 DEF CheckStructure, Look
  <2>3. Running' => gate'.options = gate.options
    BY <1>1, <2>2, OptionsKept
  <2> QED BY <1>1, <1>3, <2>1, <2>3 DEF CheckStructure, Look, Effects
<1>4. CASE CheckDependency
  <2>1. gate.step = 3
    BY <1>4, DoingAt DEF CheckDependency, Look
  <2>2. Succeeds
    BY <1>1, <1>4 DEF CheckDependency, Look
  <2>3. Running' => gate'.options = gate.options
    BY <1>1, <2>2, OptionsKept
  <2> QED BY <1>1, <1>4, <2>1, <2>3 DEF CheckDependency, Look, Effects
<1>5. CASE CheckContract
  <2>1. gate.step = 4
    BY <1>5, DoingAt DEF CheckContract, Look
  <2>2. Succeeds
    BY <1>1, <1>5 DEF CheckContract, Look
  <2>3. Running' => gate'.options = gate.options
    BY <1>1, <2>2, OptionsKept
  <2> QED BY <1>1, <1>5, <2>1, <2>3 DEF CheckContract, Look, Effects
<1>6. CASE CheckCI
  <2>1. gate.step = 5
    BY <1>6, DoingAt DEF CheckCI, Look
  <2>2. Succeeds
    BY <1>1, <1>6 DEF CheckCI, Look
  <2>3. Running' => gate'.options = gate.options
    BY <1>1, <2>2, OptionsKept
  <2> QED BY <1>1, <1>6, <2>1, <2>3 DEF CheckCI, Look, Effects
<1>7. CASE Format
  <2>1. FilesListed
    BY <1>7, ListedAt
  <2>2. gate'.options = gate.options
    BY <1>1, <2>1, ListedTyped DEF world
  <2> QED BY <1>1, <1>7, <2>1, <2>2 DEF Format, Effects, FilesListed
<1>8. CASE ReadOptions
  <2>1. OptionsRead
    BY <1>1, <1>8, OptionsAt
  <2> QED BY <1>1, <1>8, <2>1 DEF ReadOptions, Effects, OptionsRead
<1>9. CASE CommandFails
  BY <1>1, <1>9, Zenon DEF CommandFails
<1>10. ASSUME NEW tree \in Trees, Configure(tree)
      PROVE  Effects
  <2>1. gate.step = ConfigureStep(tree)
    BY <1>10, DoingAt DEF Configure
  <2>2. Succeeds /\ installed' = installed
    BY <1>1, <1>10 DEF Configure
  <2>3. Running' => gate'.options = gate.options
    BY <1>1, <2>2, OptionsKept
  <2>4. gate.step \in {6, 13, 18} /\ Configuring(tree)
    BY <1>10, <2>1 DEF Configure, Configuring, ConfigureStep
  <2> QED BY <1>1, <2>1, <2>2, <2>3, <2>4 DEF Effects
<1>11. ASSUME NEW tree \in Trees, ConfigureFails(tree)
      PROVE  Effects
  BY <1>1, <1>11 DEF ConfigureFails
<1>12. ASSUME NEW tree \in Trees, Identify(tree)
      PROVE  Effects
  <2>1. tree # "verify" /\ gate.step = ConfigureStep(tree) + 1
    BY <1>12, DoingAt DEF Identify
  <2>2. Succeeds /\ installed' = installed
    BY <1>1, <1>12 DEF Identify
  <2>3. Running' => gate'.options = gate.options
    BY <1>1, <2>2, OptionsKept
  <2>4. UNCHANGED trees /\ gate.step \in {14, 19}
        /\ (gate.step = 14 => Identified("dolphin-runtime"))
        /\ (gate.step = 19 => Identified("dolphin-adapter"))
    BY <1>1, <1>12, <2>1 DEF Identify, ConfigureStep, Trees
  <2> QED BY <1>1, <2>1, <2>2, <2>3, <2>4 DEF Effects
<1>13. ASSUME NEW tree \in Trees, Build(tree)
      PROVE  Effects
  <2>1. gate.step = BuildStep(tree)
    BY <1>13, DoingAt DEF Build
  <2>2. Succeeds /\ installed' = installed
    BY <1>1, <1>13 DEF Build
  <2>3. Running' => gate'.options = gate.options
    BY <1>1, <2>2, OptionsKept
  <2>4. gate.step \in {7, 15, 20} /\ Building(tree)
    BY <1>13, <2>1 DEF Build, Building, BuildStep
  <2> QED BY <1>1, <2>1, <2>2, <2>3, <2>4 DEF Effects
<1>14. ASSUME NEW tree \in Trees, BuildFails(tree)
      PROVE  Effects
  BY <1>1, <1>14 DEF BuildFails
<1>15. ASSUME NEW tree \in Trees, CTest(tree)
      PROVE  Effects
  <2>1. \/ tree = "verify" /\ gate.step = 8
        \/ tree = "dolphin-adapter" /\ gate.step = 21
    BY <1>15, DoingAt DEF CTest
  <2>2. Succeeds /\ installed' = installed
    BY <1>1, <1>15 DEF CTest
  <2>3. Running' => gate'.options = gate.options
    BY <1>1, <2>2, OptionsKept
  <2>4. Testing(tree)
    BY <1>15, <2>1, Zenon DEF CTest, Testing
  <2> QED BY <1>1, <2>1, <2>2, <2>3, <2>4 DEF Effects
<1>16. CASE Install
  <2>1. gate.step = 9
    BY <1>16, DoingAt DEF Install
  <2>2. Succeeds
    BY <1>1, <1>16 DEF Install
  <2>3. Running' => gate'.options = gate.options
    BY <1>1, <2>2, OptionsKept
  <2> QED BY <1>1, <1>16, <2>1, <2>3 DEF Install, Effects
<1>17. CASE InstallFails
  BY <1>1, <1>17 DEF InstallFails
<1>18. CASE Discover
  <2>1. gate.step = 16
    BY <1>18, DoingAt DEF Discover
  <2>2. Succeeds
    BY <1>1, <1>18 DEF Discover
  <2>3. Running' => gate'.options = gate.options
    BY <1>1, <2>2, OptionsKept
  <2> QED BY <1>1, <1>18, <2>1, <2>3 DEF Discover, Effects
<1>19. CASE Test
  <2>1. gate.step = 17
    BY <1>19, DoingAt DEF Test
  <2>2. Succeeds
    BY <1>1, <1>19 DEF Test
  <2>3. Running' => gate'.options = gate.options
    BY <1>1, <2>2, OptionsKept
  <2> QED BY <1>1, <1>19, <2>1, <2>3 DEF Test, Effects
<1>20. CASE LintProject
  <2>1. gate.step \in {11, 22}
    BY <1>20, DoingAt DEF LintProject
  <2>2. Succeeds
    BY <1>1, <1>20 DEF LintProject
  <2>3. Running' => gate'.options = gate.options
    BY <1>1, <2>2, OptionsKept
  <2> QED BY <1>1, <1>20, <2>1, <2>3 DEF LintProject, Effects
<1>21. CASE LintAdapter
  <2>1. gate.step \in {11, 22}
    BY <1>21, DoingAt DEF LintAdapter
  <2>2. Succeeds
    BY <1>1, <1>21 DEF LintAdapter
  <2>3. Running' => gate'.options = gate.options
    BY <1>1, <2>2, OptionsKept
  <2> QED BY <1>1, <1>21, <2>1, <2>3 DEF LintAdapter, Effects
<1> QED
  BY <1>1, <1>2, <1>3, <1>4, <1>5, <1>6, <1>7, <1>8, <1>9, <1>10, <1>11, <1>12, <1>13, <1>14, <1>15, <1>16, <1>17, <1>18, <1>19, <1>20, <1>21 DEF Work

\* The steps that are not commands.
Starting ==
    \E runtime \in Plan.runtime, expected_os \in OperatingSystems \cup {"any"},
       expected_arch \in Architectures \cup {"any"} : Start(runtime, expected_os, expected_arch)

\* ... between invocations.
Reconfigured ==
    \E tree \in Trees : ConfigureByHand(tree) \/ SetDolphinOptions(tree) \/ DeleteTree(tree)

\* Every step is one of these.
LEMMA NextIs ==
    ASSUME [Next]_vars
    PROVE  \/ Starting \/ Work \/ Edit \/ MoveDolphin
           \/ ChangeToolchain \/ UpgradeCMake \/ Reconfigured
           \/ UNCHANGED vars
  BY DEF Next, Starting, Work, Reconfigured

\* What every step but those of an invocation keeps.
LEMMA StartingTyped ==
    ASSUME TypeOK, Starting
    PROVE  /\ ~Running /\ UNCHANGED <<world, trees, installed>>
           /\ GateTyped'
           /\ evidence' = NoEvidence
           /\ Running' => gate'.step = 1 /\ meddling'.began = checkout'
<1>1. IsCampaign(Plan) /\ Plan' = Plan
  BY PlanTyped DEF TypeOK, Plan, Starting, Start, world
<1>2. PICK runtime \in Plan.runtime, expected_os \in OperatingSystems \cup {"any"},
           expected_arch \in Architectures \cup {"any"} :
              Start(runtime, expected_os, expected_arch)
  BY DEF Starting
<1>3. runtime \in BOOLEAN
  BY <1>1 DEF IsCampaign
<1>4. 0 \in 0..Len(Commands(runtime)) /\ 1 \in 0..Len(Commands(runtime))
  <2> DEFINE n == Len(Commands(runtime))
  <2>1. n = IF runtime THEN 22 ELSE 11
    BY <1>3, CommandAt
  <2> HIDE DEF n
  <2>2. n = 22 \/ n = 11
    BY <2>1
  <2>3. 0 \in 0..n /\ 1 \in 0..n
    BY <2>2
  <2> QED BY <2>3 DEF n
<1>5. \/ /\ gate' = [status |-> "running", runtime |-> runtime, step |-> 1,
                      options |-> {}, listed |-> {}]
         /\ meddling' = [NoMeddling EXCEPT !.began = checkout]
      \/ /\ gate' = [status |-> "raised", runtime |-> runtime, step |-> 0,
                      options |-> {}, listed |-> {}]
         /\ meddling' = NoMeddling
  BY <1>2 DEF Start, NoGate
<1>6. gate' \in [status : {"idle", "running", "passed", "raised"}, runtime : BOOLEAN,
                 step : 0..Len(Commands(gate'.runtime)), options : SUBSET DolphinOptions,
                 listed : SUBSET Files]
  BY <1>3, <1>4, <1>5
<1>7. meddling' \in [edits : 0..Plan.edits, moves : 0..Plan.moves, began : Checkouts \cup {Absent}]
  BY <1>1, <1>5, HereTyped DEF NoMeddling, IsCampaign
<1>8. gate'.status = "running" <=> gate'.step # 0
  BY <1>5
<1>9. Running' => gate'.step = 1 /\ meddling'.began = checkout
  BY <1>5 DEF Running, NoMeddling
<1>10. GateTyped'
  BY <1>1, <1>6, <1>7, <1>8 DEF GateTyped
<1> QED
  BY <1>2, <1>9, <1>10 DEF Start, world

\* The changes that are counted, while a gate runs.
LEMMA MeddleTyped ==
    ASSUME TypeOK, NEW kind \in {"edits", "moves"}, Meddle(kind),
           campaign' = campaign, gate' = gate
    PROVE  /\ GateTyped'
           /\ Running => /\ kind = "edits" => /\ meddling'.edits = meddling.edits + 1
                                              /\ meddling'.moves = meddling.moves
                         /\ kind = "moves" => /\ meddling'.moves = meddling.moves + 1
                                              /\ meddling'.edits = meddling.edits
           /\ ~Running => meddling' = meddling
           /\ meddling'.began = meddling.began
<1>1. IsCampaign(Plan) /\ Plan' = Plan
  BY PlanTyped DEF TypeOK, Plan
<1>2. Plan.edits \in Nat /\ Plan.moves \in Nat
  BY <1>1 DEF IsCampaign
<1>3. meddling \in [edits : 0..Plan.edits, moves : 0..Plan.moves, began : Checkouts \cup {Absent}]
  BY DEF TypeOK
<1>4. CASE ~Running
  BY <1>1, <1>3, <1>4 DEF Meddle, GateTyped, TypeOK
<1>5. CASE Running
  <2>1. meddling[kind] < Plan[kind] /\ meddling' = [meddling EXCEPT ![kind] = @ + 1]
    BY <1>5 DEF Meddle
  <2>2. CASE kind = "edits"
    <3>1. meddling' = [meddling EXCEPT !.edits = meddling.edits + 1] /\ meddling.edits < Plan.edits
      BY <2>1, <2>2
    <3>2. meddling.edits + 1 \in 0..Plan.edits
      BY <1>2, <1>3, <3>1
    <3>3. meddling' \in [edits : 0..Plan.edits, moves : 0..Plan.moves,
                         began : Checkouts \cup {Absent}]
      BY <1>3, <3>1, <3>2
    <3>4. /\ meddling'.edits = meddling.edits + 1 /\ meddling'.moves = meddling.moves
          /\ meddling'.began = meddling.began
      BY <1>3, <3>1
    <3> QED BY <1>1, <1>5, <2>2, <3>3, <3>4 DEF GateTyped, TypeOK
  <2>3. CASE kind = "moves"
    <3>1. meddling' = [meddling EXCEPT !.moves = meddling.moves + 1] /\ meddling.moves < Plan.moves
      BY <2>1, <2>3
    <3>2. meddling.moves + 1 \in 0..Plan.moves
      BY <1>2, <1>3, <3>1
    <3>3. meddling' \in [edits : 0..Plan.edits, moves : 0..Plan.moves,
                         began : Checkouts \cup {Absent}]
      BY <1>3, <3>1, <3>2
    <3>4. /\ meddling'.moves = meddling.moves + 1 /\ meddling'.edits = meddling.edits
          /\ meddling'.began = meddling.began
      BY <1>3, <3>1
    <3> QED BY <1>1, <1>5, <2>3, <3>3, <3>4 DEF GateTyped, TypeOK
  <2> QED BY <2>2, <2>3
<1> QED
  BY <1>4, <1>5

\* The identity of the compiler is known once a tree has been configured.
CompilersKnown ==
    \A tree \in Trees : Running /\ gate.step > ConfigureStep(tree) => CompilerKnown(tree)

\* Every step keeps the types of the invocation.
LEMMA GateNext ==
    ASSUME TypeOK, [Next]_vars
    PROVE  GateTyped'
<1>1. CASE Starting
  BY <1>1, StartingTyped
<1>2. CASE Work
  BY <1>2, WorkTyped
<1>3. CASE Edit
  BY <1>3, MeddleTyped DEF Edit
<1>4. CASE MoveDolphin
  BY <1>4, MeddleTyped DEF MoveDolphin
<1>5. campaign' = campaign /\ gate' = gate /\ meddling' = meddling => GateTyped'
  BY DEF GateTyped, TypeOK, Plan
<1>6. CASE ChangeToolchain \/ UpgradeCMake
  BY <1>5, <1>6 DEF ChangeToolchain, UpgradeCMake
<1>7. CASE Reconfigured
  BY <1>5, <1>7 DEF Reconfigured, ConfigureByHand, SetDolphinOptions, DeleteTree, world
<1>8. CASE UNCHANGED vars
  BY <1>5, <1>8 DEF vars
<1> QED
  BY <1>1, <1>2, <1>3, <1>4, <1>6, <1>7, <1>8, NextIs

\* What TypeOK says of the world.
WorldTyped ==
    /\ campaign \in DOMAIN Campaigns
    /\ host \in Plan.hosts
    /\ checkout \in Plan.checkouts
    /\ dolphin \in Plan.dolphins
    /\ toolchain \in Plan.compilers
    /\ cmake \in 1..Plan.cmakes

\* Every step keeps the types of the world.
LEMMA WorldNext ==
    ASSUME TypeOK, [Next]_vars
    PROVE  WorldTyped'
<1>1. UNCHANGED world => WorldTyped'
  BY DEF world, WorldTyped, TypeOK, Plan
<1>2. CASE Starting
  BY <1>1, <1>2, StartingTyped
<1>3. CASE Work
  BY <1>1, <1>3, WorkEnds
<1>4. CASE Edit
  BY <1>4 DEF Edit, WorldTyped, TypeOK, Plan
<1>5. CASE MoveDolphin
  BY <1>5 DEF MoveDolphin, WorldTyped, TypeOK, Plan
<1>6. CASE ChangeToolchain
  BY <1>6 DEF ChangeToolchain, WorldTyped, TypeOK, Plan
<1>7. CASE UpgradeCMake
  <2>1. Plan.cmakes \in 1..CMakes /\ CMakes \in Nat
    BY PlanTyped, GatesAssumption DEF TypeOK, IsCampaign
  <2>2. cmake' \in 1..Plan.cmakes
    BY <1>7, <2>1 DEF UpgradeCMake, TypeOK
  <2> QED BY <1>7, <2>2 DEF UpgradeCMake, WorldTyped, TypeOK, Plan
<1>8. CASE Reconfigured
  BY <1>1, <1>8 DEF Reconfigured, ConfigureByHand, SetDolphinOptions, DeleteTree
<1>9. CASE UNCHANGED vars
  BY <1>1, <1>9 DEF vars, world
<1> QED
  BY <1>2, <1>3, <1>4, <1>5, <1>6, <1>7, <1>8, <1>9, NextIs

\* ... of the trees,
LEMMA TreesNext ==
    ASSUME TypeOK, CompilersKnown, [Next]_vars
    PROVE  trees' \in [Trees -> BuildTrees]
<1> DEFINE Typed == trees' \in [Trees -> BuildTrees]
<1>1. trees \in [Trees -> BuildTrees]
  BY DEF TypeOK
<1>2. ASSUME NEW tree \in Trees, NEW after \in BuildTrees, trees' = [trees EXCEPT ![tree] = after]
      PROVE  Typed
  BY <1>1, <1>2
<1>4. CASE SelfTest \/ CheckStructure \/ CheckDependency \/ CheckContract \/ CheckCI \/ Format
  <2>1. trees' = trees
    BY <1>4 DEF SelfTest, CheckStructure, CheckDependency, CheckContract, CheckCI,
                    Format, Look
  <2> QED BY <1>1, <2>1
<1>5. CASE ReadOptions \/ CommandFails \/ Install \/ InstallFails
  <2>1. trees' = trees
    BY <1>5, Zenon DEF ReadOptions, CommandFails, Install, InstallFails
  <2> QED BY <1>1, <2>1
<1>6. CASE Discover \/ Test \/ LintProject \/ LintAdapter
  <2>1. trees' = trees
    BY <1>6, Zenon DEF Discover, Test, LintProject, LintAdapter
  <2> QED BY <1>1, <2>1
<1>7. ASSUME NEW tree \in Trees, Configure(tree)
      PROVE  Typed
  <2>1. Configured(tree, trees[tree].tests_option) \in BuildTrees
    <3>1. trees[tree].tests_option \in BOOLEAN /\ Configurable(tree, trees[tree].tests_option)
      BY <1>1, <1>7 DEF Configure, BuildTrees
    <3> QED BY <3>1, ConfiguredTyped
  <2>2. trees' = [trees EXCEPT ![tree] = Configured(tree, trees[tree].tests_option)]
    BY <1>7 DEF Configure
  <2> QED BY <1>2, <2>1, <2>2
<1>8. ASSUME NEW tree \in Trees, ConfigureFails(tree)
      PROVE  Typed
  <2> DEFINE identity == IdentityAfter(tree)
  <2>1. identity \in Compilers /\ cmake \in 1..CMakes
    BY HereTyped, IdentityTyped
  <2>2. trees' = [trees EXCEPT ![tree].identities[cmake] = identity]
    BY <1>8 DEF ConfigureFails
  <2> HIDE DEF identity
  <2>3. trees[tree] \in BuildTrees
    BY <1>1
  <2>4. [trees[tree] EXCEPT !.identities[cmake] = identity] \in BuildTrees
    BY <2>1, <2>3 DEF BuildTrees
  <2>5. trees' = [trees EXCEPT ![tree] = [trees[tree] EXCEPT !.identities[cmake] = identity]]
    BY <2>2
  <2> QED BY <1>2, <2>4, <2>5
<1>9. ASSUME NEW tree \in Trees, Identify(tree)
      PROVE  Typed
  BY <1>1, <1>9 DEF Identify
<1>10. ASSUME NEW tree \in Trees, Build(tree) \/ BuildFails(tree)
      PROVE  Typed
  <2>1. CASE UNCHANGED trees
    BY <1>1, <2>1
  <2>2. CASE ~UNCHANGED trees
    <3>1. Doing("build", tree) /\ Buildable(tree) /\ trees' = [trees EXCEPT ![tree] = Built(tree)]
      BY <1>10, <2>2 DEF Build, BuildFails
    <3>2. Running /\ gate.step = BuildStep(tree)
      BY <3>1, DoingAt
    <3>3. CompilerKnown(tree)
      BY <3>2 DEF CompilersKnown, BuildStep, ConfigureStep
    <3>4. Built(tree) \in BuildTrees
      BY <3>1, <3>3, BuiltTyped
    <3> QED BY <1>2, <3>1, <3>4
  <2> QED BY <2>1, <2>2
<1>11. ASSUME NEW tree \in Trees, CTest(tree)
      PROVE  Typed
  <2> DEFINE tested == Selected(tree) # {}
  <2>1. /\ trees[tree] \in BuildTrees /\ trees[tree].built \in Builds
        /\ trees' = [trees EXCEPT ![tree].built.tested = tested]
    BY <1>1, <1>11 DEF CTest, BuildTrees
  <2>2. tested \in BOOLEAN
    OBVIOUS
  <2> HIDE DEF tested
  <2>3. [trees[tree].built EXCEPT !.tested = tested] \in Builds
    BY <2>1, <2>2 DEF Builds
  <2>4. [trees[tree] EXCEPT !.built = [trees[tree].built EXCEPT !.tested = tested]] \in BuildTrees
    BY <2>1, <2>3 DEF BuildTrees
  <2>5. trees' = [trees EXCEPT ![tree] =
                     [trees[tree] EXCEPT !.built = [trees[tree].built EXCEPT !.tested = tested]]]
    BY <2>1
  <2> QED BY <1>2, <2>4, <2>5
<1>12. ASSUME NEW tree \in Trees, ConfigureByHand(tree)
      PROVE  Typed
  <2>1. PICK tests_option \in Plan.tests_options :
           /\ Configurable(tree, tests_option)
           /\ trees' = [trees EXCEPT ![tree] = Configured(tree, tests_option)]
    BY <1>12 DEF ConfigureByHand
  <2>2. tests_option \in BOOLEAN
    BY PlanTyped DEF TypeOK, IsCampaign
  <2>3. Configured(tree, tests_option) \in BuildTrees
    BY <2>1, <2>2, ConfiguredTyped
  <2> QED BY <1>2, <2>1, <2>3
<1>13. ASSUME NEW tree \in Trees, SetDolphinOptions(tree)
      PROVE  Typed
  <2>1. PICK off \in Plan.hand_options :
           trees' = [trees EXCEPT ![tree] =
                        [Configured(tree, trees[tree].tests_option) EXCEPT !.off = off]]
    BY <1>13 DEF SetDolphinOptions
  <2>2. off \in SUBSET DolphinOptions
    BY PlanTyped DEF TypeOK, IsCampaign
  <2>3. Configured(tree, trees[tree].tests_option) \in BuildTrees
    <3>1. trees[tree].tests_option \in BOOLEAN /\ tree = "dolphin-runtime"
      BY <1>1, <1>13 DEF SetDolphinOptions, BuildTrees
    <3> QED BY <3>1, ConfiguredTyped
  <2>4. [Configured(tree, trees[tree].tests_option) EXCEPT !.off = off] \in BuildTrees
    BY <2>2, <2>3 DEF BuildTrees
  <2> QED BY <1>2, <2>1, <2>4
<1>14. ASSUME NEW tree \in Trees, DeleteTree(tree)
      PROVE  Typed
  <2>1. NoTree \in BuildTrees
    BY DEF NoTree, BuildTrees
  <2> QED BY <1>2, <1>14, <2>1 DEF DeleteTree
<1>15. CASE Starting
  <2>1. trees' = trees
    BY <1>15, StartingTyped
  <2> QED BY <1>1, <2>1
<1>16. CASE Edit \/ MoveDolphin \/ ChangeToolchain \/ UpgradeCMake \/ UNCHANGED vars
  <2>1. trees' = trees
    BY <1>16 DEF Edit, MoveDolphin, ChangeToolchain, UpgradeCMake, vars
  <2> QED BY <1>1, <2>1
<1> QED
  BY <1>4, <1>5, <1>6, <1>7, <1>8, <1>9, <1>10, <1>11, <1>12, <1>13, <1>14, <1>15, <1>16,
     NextIs DEF Work, Reconfigured

\* ... of what is installed,
LEMMA InstalledNext ==
    ASSUME TypeOK, [Next]_vars
    PROVE  installed' \in Installations
<1>1. /\ trees["verify"].built \in Builds \cup {Absent} /\ installed \in Installations
      /\ checkout \in Checkouts
  BY HereTyped DEF TypeOK, Trees, BuildTrees
<1>2. \A headers : Copied(headers) \in Installations
  BY <1>1 DEF Copied, Installations
<1>3. installed' = installed \/ \E headers : installed' = Copied(headers)
  <2>1. CASE Install \/ InstallFails
    BY <2>1, Zenon DEF Install, InstallFails
  <2>2. CASE SelfTest \/ CheckStructure \/ CheckDependency \/ CheckContract \/ CheckCI \/ Format
    BY <2>2 DEF SelfTest, CheckStructure, CheckDependency, CheckContract, CheckCI, Format, Look
  <2>3. CASE ReadOptions \/ CommandFails
    BY <2>3, Zenon DEF ReadOptions, CommandFails
  <2>4. CASE Discover \/ Test \/ LintProject \/ LintAdapter
    BY <2>4, Zenon DEF Discover, Test, LintProject, LintAdapter
  <2>5. ASSUME NEW tree \in Trees,
               \/ Configure(tree) \/ ConfigureFails(tree) \/ Identify(tree)
               \/ Build(tree) \/ BuildFails(tree) \/ CTest(tree)
        PROVE  installed' = installed
    BY <2>5, Zenon DEF Configure, ConfigureFails, Identify, Build, BuildFails, CTest
  <2>6. CASE Starting
    BY <2>6, StartingTyped
  <2>7. CASE Reconfigured
    BY <2>7 DEF Reconfigured, ConfigureByHand, SetDolphinOptions, DeleteTree
  <2>8. CASE Edit \/ MoveDolphin \/ ChangeToolchain \/ UpgradeCMake \/ UNCHANGED vars
    BY <2>8 DEF Edit, MoveDolphin, ChangeToolchain, UpgradeCMake, vars
  <2> QED BY <2>1, <2>2, <2>3, <2>4, <2>5, <2>6, <2>7, <2>8, NextIs DEF Work
<1> QED
  BY <1>1, <1>2, <1>3

\* What TypeOK says of the evidence.
EvidenceTyped ==
    evidence \in [linted : SUBSET (TranslationUnits \X Trees),
                  ran : SUBSET TestUnits, passing : SUBSET Tests]

\* ... and of the evidence.
LEMMA EvidenceNext ==
    ASSUME TypeOK, [Next]_vars
    PROVE  EvidenceTyped'
<1> DEFINE Type == [linted : SUBSET (TranslationUnits \X Trees),
                    ran : SUBSET TestUnits, passing : SUBSET Tests]
<1>1. evidence \in Type
  BY DEF TypeOK
<1>2. CASE Starting
  BY <1>2, StartingTyped DEF NoEvidence, EvidenceTyped
<1>3. CASE LintProject
  <2>1. OwnUnits(gate.listed) \X {"verify"} \in SUBSET (TranslationUnits \X Trees)
    BY DEF OwnUnits, Trees
  <2>2. \/ evidence' = evidence
        \/ evidence' = [evidence EXCEPT !.linted = @ \cup (OwnUnits(gate.listed) \X {"verify"})]
    BY <1>3 DEF LintProject
  <2> QED BY <1>1, <2>1, <2>2 DEF EvidenceTyped
<1>4. CASE LintAdapter
  <2> DEFINE units == DOLPHIN_DEPENDENT_SOURCES \cap TranslationUnits
  <2>1. units \X {"dolphin-adapter"} \in SUBSET (TranslationUnits \X Trees)
    BY DEF Trees
  <2>2. \/ evidence' = evidence
        \/ evidence' = [evidence EXCEPT !.linted = @ \cup (units \X {"dolphin-adapter"})]
    BY <1>4 DEF LintAdapter
  <2> HIDE DEF units
  <2> QED BY <1>1, <2>1, <2>2 DEF EvidenceTyped
<1>5. ASSUME NEW tree \in Trees, CTest(tree)
      PROVE  EvidenceTyped'
  <2>1. Selected(tree) \in SUBSET TestUnits
    BY DEF Selected
  <2>2. evidence' = [evidence EXCEPT !.ran = @ \cup Selected(tree)]
    BY <1>5 DEF CTest
  <2> QED BY <1>1, <2>1, <2>2 DEF EvidenceTyped
<1>6. CASE Test
  <2>1. \/ evidence' = evidence
        \/ \E execution : evidence' = [evidence EXCEPT !.passing = Passing(execution)]
    BY <1>6, Zenon DEF Test
  <2>2. \A execution : Passing(execution) \in SUBSET Tests
    BY DEF Passing
  <2>3. CASE evidence' = evidence
    BY <1>1, <2>3 DEF EvidenceTyped
  <2>4. CASE \E execution : evidence' = [evidence EXCEPT !.passing = Passing(execution)]
    BY <1>1, <2>2, <2>4 DEF EvidenceTyped
  <2> QED BY <2>1, <2>3, <2>4
<1>7. evidence' = evidence => EvidenceTyped'
  BY <1>1 DEF EvidenceTyped
<1>8. CASE SelfTest \/ CheckStructure \/ CheckDependency \/ CheckContract \/ CheckCI \/ Format
  BY <1>7, <1>8 DEF SelfTest, CheckStructure, CheckDependency, CheckContract, CheckCI,
                    Format, Look
<1>9. CASE ReadOptions \/ CommandFails \/ Install \/ InstallFails \/ Discover
  BY <1>7, <1>9, Zenon DEF ReadOptions, CommandFails, Install, InstallFails, Discover
<1>10. ASSUME NEW tree \in Trees,
              \/ Configure(tree) \/ ConfigureFails(tree) \/ Identify(tree)
              \/ Build(tree) \/ BuildFails(tree)
       PROVE  EvidenceTyped'
  BY <1>7, <1>10, Zenon DEF Configure, ConfigureFails, Identify, Build, BuildFails
<1>11. CASE Reconfigured
  BY <1>7, <1>11 DEF Reconfigured, ConfigureByHand, SetDolphinOptions, DeleteTree
<1>12. CASE Edit \/ MoveDolphin \/ ChangeToolchain \/ UpgradeCMake \/ UNCHANGED vars
  BY <1>7, <1>12 DEF Edit, MoveDolphin, ChangeToolchain, UpgradeCMake, vars
<1> QED
  BY <1>2, <1>3, <1>4, <1>5, <1>6, <1>8, <1>9, <1>10, <1>11, <1>12, NextIs DEF Work

\* So TypeOK is inductive.
LEMMA TypeNext ==
    ASSUME TypeOK, CompilersKnown, [Next]_vars
    PROVE  TypeOK'
<1>1. WorldTyped' /\ GateTyped' /\ EvidenceTyped'
      /\ trees' \in [Trees -> BuildTrees] /\ installed' \in Installations
  BY WorldNext, GateNext, EvidenceNext, TreesNext, InstalledNext
<1> QED
  BY <1>1, Zenon DEF TypeOK, WorldTyped, GateTyped, EvidenceTyped

\* It holds at the start.
LEMMA TypeInit ==
    ASSUME Init
    PROVE  TypeOK
<1>1. IsCampaign(Plan)
  BY PlanTyped DEF Init
<1>2. NoTree \in BuildTrees
  BY DEF NoTree, BuildTrees
<1>3. trees \in [Trees -> BuildTrees]
  BY <1>2 DEF Init
<1>4. 1 \in 1..Plan.cmakes
  BY <1>1, GatesAssumption DEF IsCampaign
<1>5. 0 \in 0..Len(Commands(FALSE))
  <2>1. Commands(FALSE) = ProjectGate
    BY DEF Commands
  <2>2. Len(ProjectGate) = 11
    BY ProjectGateAt
  <2>3. Len(Commands(FALSE)) = 11
    BY <2>1, <2>2, Zenon
  <2> DEFINE n == Len(Commands(FALSE))
  <2>4. n = 11
    BY <2>3
  <2> HIDE DEF n
  <2>5. 0 \in 0..n
    BY <2>4
  <2> QED BY <2>5 DEF n
<1>6. gate \in [status : {"idle", "running", "passed", "raised"}, runtime : BOOLEAN,
                step : 0..Len(Commands(gate.runtime)), options : SUBSET DolphinOptions,
                listed : SUBSET Files]
      /\ (gate.status = "running" <=> gate.step # 0)
  BY <1>5 DEF Init, NoGate
<1>7. meddling \in [edits : 0..Plan.edits, moves : 0..Plan.moves,
                    began : Checkouts \cup {Absent}]
  BY <1>1 DEF Init, NoMeddling, IsCampaign
<1>8. evidence \in [linted : SUBSET (TranslationUnits \X Trees),
                    ran : SUBSET TestUnits, passing : SUBSET Tests]
  BY DEF Init, NoEvidence
<1>9. installed \in Installations
  BY DEF Init, NothingInstalled, Installations
<1> QED
  BY <1>3, <1>4, <1>6, <1>7, <1>8, <1>9 DEF Init, TypeOK

\* A step of a running gate starts it, is a command, or is somebody's change.
LEMMA StepShape ==
    ASSUME TypeOK, [Next]_vars, Running'
    PROVE  \/ /\ ~Running /\ gate'.step = 1
              /\ evidence' = NoEvidence /\ meddling'.began = checkout'
           \/ Running /\ UNCHANGED world /\ GoesOn /\ Effects /\ Work /\ ~Raises
           \/ /\ Running /\ UNCHANGED <<campaign, host, toolchain, cmake, trees, installed, gate>>
              /\ UNCHANGED evidence /\ meddling'.began = meddling.began
              /\ \/ meddling'.edits = meddling.edits + 1 /\ checkout' \in Checkouts
                 \/ /\ UNCHANGED checkout
                    /\ meddling'.edits = meddling.edits /\ meddling'.moves = meddling.moves + 1
           \/ Running /\ UNCHANGED vars
<1>1. CASE Starting
  BY <1>1, StartingTyped
<1>2. CASE Work
  BY <1>2, WorkEffects, RaisesStops
<1>3. CASE Edit
  <2>1. Running /\ Meddle("edits")
    BY <1>3 DEF Edit, Running
  <2>2. meddling'.edits = meddling.edits + 1 /\ meddling'.began = meddling.began
    BY <1>3, <2>1, MeddleTyped DEF Edit
  <2>3. checkout' \in Checkouts
    BY <1>3, PlanTyped DEF Edit, TypeOK, IsCampaign
  <2> QED BY <1>3, <2>1, <2>2, <2>3 DEF Edit
<1>4. CASE MoveDolphin
  <2>1. Running /\ Meddle("moves")
    BY <1>4 DEF MoveDolphin, Running
  <2>2. /\ meddling'.moves = meddling.moves + 1 /\ meddling'.edits = meddling.edits
        /\ meddling'.began = meddling.began
    BY <1>4, <2>1, MeddleTyped DEF MoveDolphin
  <2> QED BY <1>4, <2>1, <2>2 DEF MoveDolphin
<1>5. gate' = gate => Running
  BY DEF Running
<1>6. CASE ChangeToolchain \/ UpgradeCMake
  BY <1>5, <1>6 DEF ChangeToolchain, UpgradeCMake
<1>7. CASE Reconfigured
  BY <1>5, <1>7 DEF Reconfigured, ConfigureByHand, SetDolphinOptions, DeleteTree
<1>8. CASE UNCHANGED vars
  BY <1>5, <1>8 DEF vars
<1> QED
  BY <1>1, <1>2, <1>3, <1>4, <1>6, <1>7, <1>8, NextIs

\* What a command has done to a tree, by position.
LEMMA TreeEffects ==
    ASSUME TypeOK, CompilersKnown, Running, Effects, NEW tree \in Trees
    PROVE  LET old == trees[tree]
               new == trees'[tree]
           IN  /\ gate.step = ConfigureStep(tree) =>
                    /\ Configurable(tree, old.tests_option)
                    /\ new.identities[cmake] # Absent
                    /\ new.off = old.off \cup SwitchedOff(tree)
                    /\ new.built = old.built
               /\ gate.step = BuildStep(tree) =>
                    /\ Buildable(tree)
                    /\ new.identities = old.identities
                    /\ new.database = CompileDatabase(tree, old.tests_option)
                    /\ old.off \subseteq new.off
                    /\ new.built \in Builds
                    /\ new.built.compiler = old.identities[cmake]
                    /\ new.built.checkout = checkout
                    /\ new.built.off = new.off
                    /\ new.built.dolphin = IF tree = "verify" THEN Absent ELSE dolphin.revision
               /\ gate.step \notin {ConfigureStep(tree), BuildStep(tree)} =>
                    /\ new.identities = old.identities
                    /\ new.off = old.off
                    /\ new.database = old.database
                    /\ old.built \in Builds =>
                         /\ new.built \in Builds
                         /\ new.built.compiler = old.built.compiler
                         /\ new.built.checkout = old.built.checkout
                         /\ new.built.off = old.built.off
                         /\ new.built.dolphin = old.built.dolphin
               /\ gate.step > 8 /\ tree = "verify" => new.built = old.built
               /\ gate.step = 8 /\ tree = "verify" /\ old.built \in Builds =>
                    new.built.tested = (Selected(tree) # {})
<1>1. trees \in [Trees -> BuildTrees]
  BY DEF TypeOK
<1>2. CASE UNCHANGED trees /\ gate.step \notin {6, 7, 8, 13, 15, 18, 20, 21}
  BY <1>1, <1>2 DEF ConfigureStep, BuildStep
<1>3. ASSUME NEW other \in Trees, other # tree,
             Configuring(other) \/ Building(other) \/ Testing(other)
      PROVE  /\ trees'[tree] = trees[tree]
             /\ gate.step \notin {ConfigureStep(tree), BuildStep(tree)}
             /\ tree = "verify" => gate.step # 8
  BY <1>1, <1>3 DEF Configuring, Building, Testing, ConfigureStep, BuildStep, Trees
<1>4. CASE Configuring(tree)
  <2>1. trees[tree].tests_option \in BOOLEAN /\ Configurable(tree, trees[tree].tests_option)
    BY <1>1, <1>4 DEF BuildTrees, Configuring
  <2>2. /\ trees'[tree] = Configured(tree, trees[tree].tests_option)
        /\ gate.step = ConfigureStep(tree) /\ gate.step # BuildStep(tree)
        /\ tree = "verify" => gate.step = 6
    BY <1>1, <1>4 DEF Configuring, ConfigureStep, BuildStep
  <2> DEFINE after == Configured(tree, trees[tree].tests_option)
  <2>3. /\ after.identities[cmake] # Absent
        /\ after.off = trees[tree].off \cup SwitchedOff(tree)
        /\ after.built = trees[tree].built
    BY <2>1, ConfiguredTyped, IdentityTyped
  <2> HIDE DEF after
  <2> QED BY <2>1, <2>2, <2>3 DEF after
<1>5. CASE Building(tree)
  <2>1. /\ Buildable(tree) /\ trees'[tree] = Built(tree)
        /\ gate.step = BuildStep(tree) /\ gate.step # ConfigureStep(tree)
        /\ gate.step > ConfigureStep(tree)
        /\ tree = "verify" => gate.step = 7
    BY <1>1, <1>5 DEF Building, ConfigureStep, BuildStep
  <2>2. CompilerKnown(tree)
    BY <2>1 DEF CompilersKnown
  <2> DEFINE after == Built(tree)
  <2>3. /\ after.identities = trees[tree].identities
        /\ after.database = CompileDatabase(tree, trees[tree].tests_option)
        /\ trees[tree].off \subseteq after.off
        /\ after.built \in Builds
        /\ after.built.compiler = trees[tree].identities[cmake]
        /\ after.built.checkout = checkout
        /\ after.built.off = after.off
        /\ after.built.dolphin = IF tree = "verify" THEN Absent ELSE dolphin.revision
    BY <2>1, <2>2, BuiltTyped
  <2> HIDE DEF after
  <2> QED BY <2>1, <2>3 DEF after
<1>6. CASE Testing(tree)
  <2> DEFINE tested == Selected(tree) # {}
  <2>1. tested \in BOOLEAN /\ trees' = [trees EXCEPT ![tree].built.tested = tested]
    BY <1>6 DEF Testing
  <2> HIDE DEF tested
  <2>2. /\ trees[tree] \in BuildTrees /\ trees[tree].built \in Builds
        /\ trees'[tree] = [trees[tree] EXCEPT !.built = [trees[tree].built EXCEPT !.tested = tested]]
    BY <1>1, <1>6, <2>1 DEF Testing, BuildTrees
  <2>3. /\ trees'[tree].identities = trees[tree].identities
        /\ trees'[tree].off = trees[tree].off
        /\ trees'[tree].database = trees[tree].database
        /\ trees'[tree].built = [trees[tree].built EXCEPT !.tested = tested]
    BY <2>2 DEF BuildTrees
  <2> DEFINE built == [trees[tree].built EXCEPT !.tested = tested]
  <2>4. built \in Builds /\ built.compiler = trees[tree].built.compiler
        /\ built.checkout = trees[tree].built.checkout
        /\ built.off = trees[tree].built.off
        /\ built.dolphin = trees[tree].built.dolphin
        /\ built.tested = tested
    BY <2>1, <2>2 DEF Builds
  <2> HIDE DEF built
  <2>5. /\ gate.step \notin {ConfigureStep(tree), BuildStep(tree)}
        /\ tree = "verify" => gate.step = 8
    BY <1>6 DEF Testing, ConfigureStep, BuildStep
  <2> QED BY <2>3, <2>4, <2>5 DEF built, tested
<1> QED
  BY <1>2, <1>3, <1>4, <1>5, <1>6 DEF Effects

\* A command that configures or builds finds the compiler; nothing forgets it.
LEMMA CompilersNext ==
    ASSUME TypeOK, CompilersKnown, [Next]_vars
    PROVE  CompilersKnown'
<1> SUFFICES ASSUME Running', NEW tree \in Trees, gate'.step > ConfigureStep(tree)
             PROVE  trees'[tree].identities[cmake'] # Absent
  BY DEF CompilersKnown, CompilerKnown
<1>1. CASE ~Running /\ gate'.step = 1
  BY <1>1 DEF ConfigureStep
<1>2. CASE Running /\ UNCHANGED world /\ GoesOn /\ Effects
  <2>1. gate'.step = gate.step + 1 /\ gate.step \in Nat /\ UNCHANGED cmake
    BY <1>2, StepIs DEF GoesOn, world
  <2>2. gate.step >= ConfigureStep(tree)
    BY <2>1 DEF ConfigureStep
  <2>3. CASE gate.step = ConfigureStep(tree)
    BY <1>2, <2>1, <2>3, TreeEffects
  <2>4. CASE gate.step # ConfigureStep(tree)
    <3>1. gate.step > ConfigureStep(tree)
      BY <2>1, <2>2, <2>4 DEF ConfigureStep
    <3>2. trees[tree].identities[cmake] # Absent
      BY <1>2, <3>1 DEF CompilersKnown, CompilerKnown
    <3>3. trees'[tree].identities = trees[tree].identities
      BY <1>2, <2>4, TreeEffects
    <3> QED BY <2>1, <3>2, <3>3
  <2> QED BY <2>3, <2>4
<1>3. CASE Running /\ UNCHANGED <<campaign, host, toolchain, cmake, trees, installed, gate>>
  BY <1>3 DEF CompilersKnown, CompilerKnown
<1>4. CASE Running /\ UNCHANGED vars
  BY <1>4 DEF CompilersKnown, CompilerKnown, vars
<1> QED
  BY <1>1, <1>2, <1>3, <1>4, StepShape
===============================================================================
