------------------------ MODULE VerificationGatesProofs ------------------------
(***************************************************************************)
(* That an invocation that passes has shown what it claims, for every      *)
(* repository, host, compiler, Dolphin and campaign.  A command leaves a   *)
(* fact behind ("the tree is built from the repository as it is"), which   *)
(* the commands after it and everybody else's changes keep, or end.  Each  *)
(* part of the invariant is one such fact: what holds once the gate is     *)
(* past a position.  The theorems read them off at the last command.       *)
(***************************************************************************)
EXTENDS VerificationGatesSteps

-----------------------------------------------------------------------------
\* An invocation passes at its last command.
LEMMA PassesAt ==
    ASSUME TypeOK, [Next]_vars, Passes
    PROVE  /\ Running /\ UNCHANGED <<world, trees, installed>>
           /\ Work /\ ~Raises /\ gate.runtime \in BOOLEAN
           /\ gate.step = IF gate.runtime THEN 22 ELSE 11
<1>1. Running /\ gate'.status = "passed"
  BY DEF Passes
<1>2. Work /\ ~Raises
  <2>1. gate' # gate
    BY <1>1 DEF Running
  <2>2. CASE Starting
    BY <1>1, <2>2, StartingTyped
  <2>3. ~(Edit \/ MoveDolphin \/ ChangeToolchain \/ UpgradeCMake \/ UNCHANGED vars)
    BY <2>1 DEF Edit, MoveDolphin, ChangeToolchain, UpgradeCMake, vars
  <2>4. ~Reconfigured
    BY <2>1 DEF Reconfigured, ConfigureByHand, SetDolphinOptions, DeleteTree
  <2>5. ~Raises
    <3> SUFFICES ASSUME Raises PROVE FALSE
      OBVIOUS
    <3>1. gate'.status = "raised"
      BY EndsTyped, WorkEnds, <2>2, <2>3, <2>4, NextIs DEF Raises, world
    <3> QED BY <1>1, <3>1
  <2> QED BY <2>2, <2>3, <2>4, <2>5, NextIs
<1>3. UNCHANGED world /\ Effects
  BY <1>2, WorkEffects
<1>4. gate.step = Len(Commands(gate.runtime))
  <2>1. Succeeds \/ ReadOptions \/ Format
    BY <1>2, WorkEnds DEF Outcome
  <2>2. ~ReadOptions
    <3> SUFFICES ASSUME ReadOptions PROVE FALSE
      OBVIOUS
    <3>1. OptionsRead
      BY <1>2, OptionsAt
    <3>2. gate'.status = "running"
      BY <1>1, <3>1, OptionsTyped, <1>3 DEF GoesOn, world
    <3> QED BY <1>1, <3>2
  <2>3. ~Format
    <3> SUFFICES ASSUME Format PROVE FALSE
      OBVIOUS
    <3>1. FilesListed
      BY ListedAt
    <3>2. gate'.status = "running"
      BY <1>1, <3>1, ListedTyped, <1>3 DEF GoesOn, world
    <3> QED BY <1>1, <3>2
  <2>4. CASE GoesOn
    BY <1>1, <2>4 DEF GoesOn
  <2> QED BY <1>1, <1>3, <2>1, <2>2, <2>3, <2>4, SucceedsTyped DEF world
<1>5. gate.step = IF gate.runtime THEN 22 ELSE 11
  <2>1. gate.runtime \in BOOLEAN
    BY DEF TypeOK
  <2>2. Len(Commands(gate.runtime)) = IF gate.runtime THEN 22 ELSE 11
    BY <2>1, CommandAt
  <2> QED BY <1>4, <2>2, Zenon
<1>6. gate.step \in {11, 22}
  BY <1>5
<1>7. UNCHANGED <<trees, installed>>
  BY <1>3, <1>6 DEF Effects, Configuring, Building, Testing, ConfigureStep, BuildStep
<1>8. gate.runtime \in BOOLEAN
  BY DEF TypeOK
<1> QED
  BY <1>1, <1>2, <1>3, <1>5, <1>7, <1>8

\* The one identity of a tree that is identified is that of the CMake which is
\* installed, and the compiler the host calls for.
LEMMA IdentifiedIs ==
    ASSUME TypeOK, NEW tree \in Trees, CompilerKnown(tree), Identified(tree)
    PROVE  trees[tree].identities[cmake] = cmake_compiler_id(host)
<1> DEFINE known == {version \in 1..CMakes : trees[tree].identities[version] # Absent}
<1>1. IsFiniteSet(known)
  <2>1. CMakes \in Int
    BY GatesAssumption
  <2>2. IsFiniteSet(1..CMakes)
    BY <2>1, FS_Interval
  <2> QED BY <2>2, FS_Subset
<1>2. Cardinality(known) = 1
  BY DEF Identified, OneIdentity
<1>3. PICK version : known = {version}
  <2> HIDE DEF known
  <2> QED BY <1>1, <1>2, FS_Singleton
<1>4. cmake \in known
  BY HereTyped DEF CompilerKnown
<1>5. cmake_compiler_id(host) \in Identities(tree)
  BY DEF Identified
<1>6. PICK other \in 1..CMakes : /\ cmake_compiler_id(host) = trees[tree].identities[other]
                                 /\ cmake_compiler_id(host) # Absent
  BY <1>5 DEF Identities
<1>7. other \in known
  BY <1>6
<1>8. other = cmake
  <2> HIDE DEF known
  <2> QED BY <1>3, <1>4, <1>7
<1> QED
  BY <1>6, <1>8

\* The Dolphin trees that are identified in this invocation.
HostIdentified ==
    \A tree \in Trees \ {"verify"} : Running /\ gate.step > ConfigureStep(tree) + 1 =>
        trees[tree].identities[cmake] = cmake_compiler_id(host)

\* Neither a build nor a test identifies the compiler anew, and nobody installs
\* another CMake or changes the host while a gate runs.
LEMMA HostIdentifiedNext ==
    ASSUME TypeOK, CompilersKnown, HostIdentified, [Next]_vars
    PROVE  HostIdentified'
<1> SUFFICES ASSUME Running', NEW tree \in Trees \ {"verify"},
                    gate'.step > ConfigureStep(tree) + 1
             PROVE  trees'[tree].identities[cmake'] = cmake_compiler_id(host')
  BY DEF HostIdentified
<1>1. CASE ~Running /\ gate'.step = 1
  BY <1>1 DEF ConfigureStep
<1>2. CASE Running /\ UNCHANGED world /\ GoesOn /\ Effects
  <2>1. gate'.step = gate.step + 1 /\ gate.step \in Nat /\ UNCHANGED <<host, cmake>>
    BY <1>2, StepIs DEF GoesOn, world
  <2>2. gate.step > ConfigureStep(tree)
    BY <2>1 DEF ConfigureStep
  <2>3. trees'[tree].identities = trees[tree].identities
    <3>1. gate.step # ConfigureStep(tree) /\ tree \in Trees
      BY <2>2 DEF ConfigureStep
    <3> QED BY <1>2, <3>1, TreeEffects
  <2>4. trees[tree].identities[cmake] = cmake_compiler_id(host)
    <3>1. CASE gate.step = ConfigureStep(tree) + 1
      <4>1. Identified(tree)
        BY <1>2, <3>1 DEF Effects, Trees, ConfigureStep
      <4>2. CompilerKnown(tree)
        BY <1>2, <2>2 DEF CompilersKnown
      <4> QED BY <4>1, <4>2, IdentifiedIs
    <3>2. CASE gate.step # ConfigureStep(tree) + 1
      <4>1. gate.step > ConfigureStep(tree) + 1
        BY <2>1, <3>2 DEF ConfigureStep
      <4> QED BY <1>2, <4>1 DEF HostIdentified
    <3> QED BY <3>1, <3>2
  <2>5. cmake_compiler_id(host') = cmake_compiler_id(host)
    BY <2>1
  <2> QED BY <2>1, <2>3, <2>4, <2>5
<1>3. CASE Running /\ UNCHANGED <<campaign, host, toolchain, cmake, trees, installed, gate>>
  BY <1>3 DEF HostIdentified
<1>4. CASE Running /\ UNCHANGED vars
  BY <1>4 DEF HostIdentified, vars
<1> QED
  BY <1>1, <1>2, <1>3, <1>4, StepShape

\* What was built in this invocation.
BuiltNow ==
    \A tree \in Trees : Running /\ gate.step > BuildStep(tree) =>
        /\ trees[tree].built \in Builds
        /\ trees[tree].built.compiler = trees[tree].identities[cmake]
        /\ meddling.edits = 0 => trees[tree].built.checkout = checkout

\* Only a build builds, and it builds the repository as it is.
LEMMA BuiltNext ==
    ASSUME TypeOK, CompilersKnown, BuiltNow, [Next]_vars
    PROVE  BuiltNow'
<1> SUFFICES ASSUME Running', NEW tree \in Trees, gate'.step > BuildStep(tree)
             PROVE  /\ trees'[tree].built \in Builds
                    /\ trees'[tree].built.compiler = trees'[tree].identities[cmake']
                    /\ meddling'.edits = 0 => trees'[tree].built.checkout = checkout'
  BY DEF BuiltNow
<1>1. CASE ~Running /\ gate'.step = 1
  BY <1>1 DEF BuildStep
<1>2. CASE Running /\ UNCHANGED world /\ GoesOn /\ Effects
  <2>1. /\ gate'.step = gate.step + 1 /\ gate.step \in Nat
        /\ UNCHANGED <<checkout, cmake, meddling>>
    BY <1>2, StepIs DEF GoesOn, world
  <2>2. CASE gate.step = BuildStep(tree)
    BY <1>2, <2>1, <2>2, TreeEffects
  <2>3. CASE gate.step # BuildStep(tree)
    <3>1. gate.step > BuildStep(tree)
      BY <2>1, <2>3 DEF BuildStep
    <3>2. /\ trees[tree].built \in Builds
          /\ trees[tree].built.compiler = trees[tree].identities[cmake]
          /\ meddling.edits = 0 => trees[tree].built.checkout = checkout
      BY <1>2, <3>1 DEF BuiltNow
    <3>3. gate.step \notin {ConfigureStep(tree), BuildStep(tree)}
      BY <3>1 DEF ConfigureStep, BuildStep
    <3>4. /\ trees'[tree].built \in Builds
          /\ trees'[tree].identities = trees[tree].identities
          /\ trees'[tree].built.compiler = trees[tree].built.compiler
          /\ trees'[tree].built.checkout = trees[tree].built.checkout
      BY <1>2, <3>2, <3>3, TreeEffects
    <3> QED BY <2>1, <3>2, <3>4
  <2> QED BY <2>2, <2>3
<1>3. CASE /\ Running /\ UNCHANGED <<campaign, host, toolchain, cmake, trees, installed, gate>>
           /\ \/ meddling'.edits = meddling.edits + 1
              \/ /\ UNCHANGED checkout
                 /\ meddling'.edits = meddling.edits /\ meddling'.moves = meddling.moves + 1
  <2>1. /\ trees[tree].built \in Builds
        /\ trees[tree].built.compiler = trees[tree].identities[cmake]
        /\ meddling.edits = 0 => trees[tree].built.checkout = checkout
    BY <1>3 DEF BuiltNow
  <2>2. meddling.edits \in Nat
    BY DEF TypeOK
  <2> QED BY <1>3, <2>1, <2>2
<1>4. CASE Running /\ UNCHANGED vars
  BY <1>4 DEF BuiltNow, vars
<1> QED
  BY <1>1, <1>2, <1>3, <1>4, StepShape

\* What the structure check found.
StructureChecked ==
    Running /\ gate.step > 2 /\ meddling.edits = 0 => check_structure(Sources, here.tools) = 0

\* An edit takes away what was found.
LEMMA StructureNext ==
    ASSUME TypeOK, StructureChecked, [Next]_vars
    PROVE  StructureChecked'
<1> SUFFICES ASSUME Running', gate'.step > 2, meddling'.edits = 0
             PROVE  check_structure(Sources', here'.tools) = 0
  BY DEF StructureChecked
<1>1. UNCHANGED checkout => Sources' = Sources /\ here' = here
  BY DEF Sources, here
<1>2. CASE ~Running /\ gate'.step = 1
  BY <1>2
<1>3. CASE Running /\ UNCHANGED world /\ GoesOn /\ Effects
  <2>1. gate'.step = gate.step + 1 /\ gate.step \in Nat /\ UNCHANGED <<checkout, meddling>>
    BY <1>3, StepIs DEF GoesOn, world
  <2>2. check_structure(Sources, here.tools) = 0
    BY <1>3, <2>1 DEF Effects, StructureChecked
  <2> QED BY <1>1, <2>1, <2>2
<1>4. CASE /\ Running /\ UNCHANGED <<campaign, host, toolchain, cmake, trees, installed, gate>>
           /\ \/ meddling'.edits = meddling.edits + 1
              \/ /\ UNCHANGED checkout
                 /\ meddling'.edits = meddling.edits /\ meddling'.moves = meddling.moves + 1
  <2>1. meddling.edits \in Nat
    BY DEF TypeOK
  <2>2. UNCHANGED checkout /\ meddling.edits = 0
    BY <1>4, <2>1
  <2> QED BY <1>1, <1>4, <2>2 DEF StructureChecked
<1>5. CASE Running /\ UNCHANGED vars
  BY <1>1, <1>5 DEF StructureChecked, vars
<1> QED
  BY <1>2, <1>3, <1>4, <1>5, StepShape

\* What was installed in this invocation: the build that was tested, and the
\* headers of the repository.
InstalledNow ==
    Running /\ gate.step > 9 =>
        /\ installed.build = trees["verify"].built
        /\ meddling.edits = 0 =>
             \A file \in Headers \cap here.files : installed.headers[file] = checkout

\* Nothing builds the project's tree after it is installed.
LEMMA InstalledIsBuilt ==
    ASSUME TypeOK, CompilersKnown, InstalledNow, [Next]_vars
    PROVE  InstalledNow'
<1> SUFFICES ASSUME Running', gate'.step > 9
             PROVE  /\ installed'.build = trees'["verify"].built
                    /\ meddling'.edits = 0 =>
                         \A file \in Headers \cap here'.files :
                             installed'.headers[file] = checkout'
  BY DEF InstalledNow
<1>1. CASE ~Running /\ gate'.step = 1
  BY <1>1
<1>2. CASE Running /\ UNCHANGED world /\ GoesOn /\ Effects
  <2>1. /\ gate'.step = gate.step + 1 /\ gate.step \in Nat
        /\ checkout' = checkout /\ meddling' = meddling
    BY <1>2, StepIs DEF GoesOn, world
  <2>2. here' = here
    BY <2>1 DEF here
  <2>3. trees'["verify"].built = trees["verify"].built
    BY <1>2, <2>1, TreeEffects DEF Trees
  <2>4. CASE gate.step = 9
    <3>1. installed' = Copied(Headers \cap here.files)
      BY <1>2, <2>4 DEF Effects
    <3> QED BY <2>1, <2>2, <2>3, <3>1 DEF Copied
  <2>5. CASE gate.step # 9
    BY <1>2, <2>1, <2>2, <2>3, <2>5 DEF Effects, InstalledNow
  <2> QED BY <2>4, <2>5
<1>3. CASE /\ Running /\ UNCHANGED <<campaign, host, toolchain, cmake, trees, installed, gate>>
           /\ \/ meddling'.edits = meddling.edits + 1
              \/ /\ UNCHANGED checkout
                 /\ meddling'.edits = meddling.edits /\ meddling'.moves = meddling.moves + 1
  <2>1. meddling.edits \in Nat
    BY DEF TypeOK
  <2>2. meddling'.edits = 0 => meddling.edits = 0 /\ checkout' = checkout /\ here' = here
    BY <1>3, <2>1 DEF here
  <2> QED BY <1>3, <2>2 DEF InstalledNow
<1>4. CASE Running /\ UNCHANGED vars
  BY <1>4 DEF InstalledNow, vars, here
<1> QED
  BY <1>1, <1>2, <1>3, <1>4, StepShape

\* What the manifest names for the host.
Slice == here.manifest.off \cup IF host.os = "linux" THEN here.manifest.linux_off ELSE {}

\* The options the runtime gate read are those of the manifest.
OptionsKnown ==
    Running /\ gate.step > 12 /\ meddling.edits = 0 => gate.options = Slice

\* ... until the next edit.
LEMMA OptionsNext ==
    ASSUME TypeOK, OptionsKnown, [Next]_vars
    PROVE  OptionsKnown'
<1> SUFFICES ASSUME Running', gate'.step > 12, meddling'.edits = 0
             PROVE  gate'.options = Slice'
  BY DEF OptionsKnown
<1>1. UNCHANGED <<checkout, host>> => Slice' = Slice
  BY DEF Slice, here
<1>2. CASE ~Running /\ gate'.step = 1
  BY <1>2
<1>3. CASE Running /\ UNCHANGED world /\ GoesOn /\ Effects
  <2>1. gate'.step = gate.step + 1 /\ gate.step \in Nat /\ UNCHANGED <<checkout, host, meddling>>
    BY <1>3, StepIs DEF GoesOn, world
  <2>2. CASE gate.step = 12
    <3>1. gate' = [gate EXCEPT !.step = @ + 1, !.options = Slice]
      BY <1>3, <2>2 DEF Effects, OptionsRead, Slice
    <3>2. gate'.options = Slice
      BY <3>1 DEF TypeOK
    <3> QED BY <1>1, <2>1, <3>2
  <2>3. CASE gate.step # 12
    BY <1>1, <1>3, <2>1, <2>3 DEF Effects, OptionsKnown
  <2> QED BY <2>2, <2>3
<1>4. CASE /\ Running /\ UNCHANGED <<campaign, host, toolchain, cmake, trees, installed, gate>>
           /\ \/ meddling'.edits = meddling.edits + 1
              \/ /\ UNCHANGED checkout
                 /\ meddling'.edits = meddling.edits /\ meddling'.moves = meddling.moves + 1
  <2>1. meddling.edits \in Nat
    BY DEF TypeOK
  <2>2. UNCHANGED <<checkout, host>> /\ meddling.edits = 0
    BY <1>4, <2>1
  <2> QED BY <1>1, <1>4, <2>2 DEF OptionsKnown
<1>5. CASE Running /\ UNCHANGED vars
  BY <1>1, <1>5 DEF OptionsKnown, vars
<1> QED
  BY <1>2, <1>3, <1>4, <1>5, StepShape

\* The options that are off in the trees of this invocation.
SliceOff ==
    \A tree \in Trees \ {"verify"} : Running /\ meddling.edits = 0 =>
        /\ gate.step > ConfigureStep(tree) => Slice \subseteq trees[tree].off
        /\ gate.step > BuildStep(tree) => /\ trees[tree].built \in Builds
                                          /\ Slice \subseteq trees[tree].built.off

\* Neither a configuration nor a build switches an option on.
LEMMA SliceNext ==
    ASSUME TypeOK, CompilersKnown, OptionsKnown, SliceOff, [Next]_vars
    PROVE  SliceOff'
<1> SUFFICES ASSUME Running', meddling'.edits = 0, NEW tree \in Trees \ {"verify"}
             PROVE  /\ gate'.step > ConfigureStep(tree) => Slice' \subseteq trees'[tree].off
                    /\ gate'.step > BuildStep(tree) =>
                          /\ trees'[tree].built \in Builds
                          /\ Slice' \subseteq trees'[tree].built.off
  BY DEF SliceOff
<1>1. UNCHANGED <<checkout, host>> => Slice' = Slice
  BY DEF Slice, here
<1>2. CASE ~Running /\ gate'.step = 1
  BY <1>2 DEF ConfigureStep, BuildStep
<1>3. CASE Running /\ UNCHANGED world /\ GoesOn /\ Effects
  <2>1. /\ gate'.step = gate.step + 1 /\ gate.step \in Nat
        /\ UNCHANGED <<checkout, host>> /\ meddling.edits = 0
    BY <1>3, StepIs DEF GoesOn, world
  <2>2. Slice' = Slice
    BY <1>1, <2>1
  <2>3. BuildStep(tree) \in Nat /\ ConfigureStep(tree) \in Nat
        /\ ConfigureStep(tree) < BuildStep(tree)
    BY DEF ConfigureStep, BuildStep
  <2>4. /\ gate.step > ConfigureStep(tree) => Slice \subseteq trees[tree].off
        /\ gate.step > BuildStep(tree) => /\ trees[tree].built \in Builds
                                          /\ Slice \subseteq trees[tree].built.off
    BY <1>3, <2>1 DEF SliceOff
  <2>5. CASE gate.step = ConfigureStep(tree)
    <3>1. SwitchedOff(tree) = Slice
      <4>1. CASE tree = "dolphin-runtime"
        <5>1. gate.step = 13
          BY <2>5, <4>1 DEF ConfigureStep
        <5>2. gate.options = Slice
          BY <1>3, <2>1, <5>1 DEF OptionsKnown
        <5> QED BY <4>1, <5>2 DEF SwitchedOff
      <4>2. CASE tree = "dolphin-adapter"
        BY <4>2 DEF SwitchedOff, Slice
      <4> QED BY <4>1, <4>2 DEF Trees
    <3>2. trees'[tree].off = trees[tree].off \cup SwitchedOff(tree)
      BY <1>3, <2>5, TreeEffects
    <3> QED BY <2>1, <2>2, <2>3, <2>5, <3>1, <3>2
  <2>6. CASE gate.step = BuildStep(tree)
    <3>1. /\ trees[tree].off \subseteq trees'[tree].off
          /\ trees'[tree].built \in Builds /\ trees'[tree].built.off = trees'[tree].off
      BY <1>3, <2>6, TreeEffects
    <3> QED BY <2>1, <2>2, <2>3, <2>4, <2>6, <3>1
  <2>7. CASE gate.step \notin {ConfigureStep(tree), BuildStep(tree)}
    <3>1. /\ trees'[tree].off = trees[tree].off
          /\ trees[tree].built \in Builds =>
                /\ trees'[tree].built \in Builds
                /\ trees'[tree].built.off = trees[tree].built.off
      BY <1>3, <2>7, TreeEffects
    <3>2. /\ gate'.step > ConfigureStep(tree) => gate.step > ConfigureStep(tree)
          /\ gate'.step > BuildStep(tree) => gate.step > BuildStep(tree)
      BY <2>1, <2>3, <2>7
    <3> QED BY <2>2, <2>4, <3>1, <3>2
  <2> QED BY <2>5, <2>6, <2>7
<1>4. CASE /\ Running /\ UNCHANGED <<campaign, host, toolchain, cmake, trees, installed, gate>>
           /\ \/ meddling'.edits = meddling.edits + 1
              \/ /\ UNCHANGED checkout
                 /\ meddling'.edits = meddling.edits /\ meddling'.moves = meddling.moves + 1
  <2>1. meddling.edits \in Nat
    BY DEF TypeOK
  <2>2. UNCHANGED <<checkout, host>> /\ meddling.edits = 0
    BY <1>4, <2>1
  <2> QED BY <1>1, <1>4, <2>2 DEF SliceOff
<1>5. CASE Running /\ UNCHANGED vars
  BY <1>1, <1>5 DEF SliceOff, vars
<1> QED
  BY <1>2, <1>3, <1>4, <1>5, StepShape

\* How often a test had one of some outcomes.
LEMMA TimesIs ==
    ASSUME NEW execution, NEW t, NEW outcomes,
           DOMAIN execution \subseteq {1, 2}
    PROVE  LET indices == {i \in DOMAIN execution :
                              t \in DOMAIN execution[i] /\ execution[i][t] \in outcomes}
           IN  /\ IsFiniteSet(indices)
               /\ Times(execution, t, outcomes) = Cardinality(indices)
               /\ Times(execution, t, outcomes) = 0 <=> indices = {}
<1> DEFINE indices == {i \in DOMAIN execution :
                          t \in DOMAIN execution[i] /\ execution[i][t] \in outcomes}
<1>1. IsFiniteSet({1, 2})
  <2>1. {1, 2} = {1} \cup {2} /\ IsFiniteSet({1})
    BY FS_Singleton
  <2> QED BY <2>1, FS_AddElement
<1>2. IsFiniteSet(indices)
  <2>1. indices \subseteq {1, 2}
    OBVIOUS
  <2> HIDE DEF indices
  <2> QED BY <1>1, <2>1, FS_Subset
<1>3. Cardinality(indices) = 0 <=> indices = {}
  BY <1>2, FS_EmptySet
<1> QED BY <1>2, <1>3 DEF Times

\* A test of which one outcome is reported, an OK, had no other.
LEMMA OneOk ==
    ASSUME NEW execution, DOMAIN execution \subseteq {1, 2}, NEW t,
           Times(execution, t, Outcomes \ {"absent"}) = 1, Times(execution, t, {"ok"}) = 1,
           NEW i \in DOMAIN execution, t \in DOMAIN execution[i],
           execution[i][t] \in Outcomes \ {"absent"}
    PROVE  execution[i][t] = "ok"
<1> DEFINE Indices(outcomes) ==
        {j \in DOMAIN execution : t \in DOMAIN execution[j] /\ execution[j][t] \in outcomes}
<1>1. /\ IsFiniteSet(Indices(Outcomes \ {"absent"}))
      /\ Cardinality(Indices(Outcomes \ {"absent"})) = 1 /\ Cardinality(Indices({"ok"})) = 1
  BY TimesIs
<1>2. Indices({"ok"}) \subseteq Indices(Outcomes \ {"absent"})
  BY DEF Outcomes
<1>3. Indices({"ok"}) = Indices(Outcomes \ {"absent"})
  <2> HIDE DEF Indices
  <2> QED BY <1>1, <1>2, FS_Subset
<1> QED BY <1>3

\* An execution is one iteration, or two.
LEMMA ExecutionShape ==
    ASSUME NEW selected, NEW execution \in Executions(selected)
    PROVE  /\ DOMAIN execution \in {{1}, {1, 2}}
           /\ DOMAIN execution = {1} <=> Len(execution) = 1
           /\ \A i \in DOMAIN execution : execution[i] \in [selected -> Outcomes]
<1>1. ASSUME NEW outcome \in Iterations(selected), execution = <<outcome>>
      PROVE  /\ DOMAIN execution = {1} /\ Len(execution) = 1
             /\ execution[1] \in [selected -> Outcomes]
  BY <1>1 DEF Iterations
<1>2. ASSUME NEW one \in Iterations(selected), NEW two \in Iterations(selected),
             execution = <<one, two>>
      PROVE  /\ DOMAIN execution = {1, 2} /\ Len(execution) = 2
             /\ execution[1] \in [selected -> Outcomes]
             /\ execution[2] \in [selected -> Outcomes]
  BY <1>2 DEF Iterations
<1>3. \/ \E outcome \in Iterations(selected) : execution = <<outcome>>
      \/ \E one, two \in Iterations(selected) : execution = <<one, two>>
  <2> DEFINE Whole == {outcome \in Iterations(selected) : ~Exits(outcome)}
  <2>1. execution \in {<<outcome>> : outcome \in Iterations(selected)}
            \cup {<<one, two>> : one \in Whole, two \in Iterations(selected)}
    BY DEF Executions
  <2>2. Whole \subseteq Iterations(selected)
    OBVIOUS
  <2> HIDE DEF Whole
  <2> QED BY <2>1, <2>2
<1> QED BY <1>1, <1>2, <1>3

\* One iteration, in which the required tests passed and no other ran.
OnlyPassed(execution, expected) ==
    /\ Len(execution) = 1
    /\ expected \subseteq DOMAIN execution[1]
    /\ \A t \in DOMAIN execution[1] :
           execution[1][t] = IF t \in expected THEN "ok" ELSE "absent"

\* A report that validate_result accepts is of one iteration, in which each
\* required test passed and nothing else ran: a second iteration has a PASSED
\* line of its own, and a test that ended the process has no OK line.
LEMMA ValidIsPassing ==
    ASSUME NEW expected \in SUBSET Tests, NEW selected \in SUBSET Tests,
           NEW execution \in Executions(selected), NEW hidden,
           ValidResult(Report(execution, hidden), expected)
    PROVE  Passing(execution) = expected /\ OnlyPassed(execution, expected)
<1>1. /\ DOMAIN execution \in {{1}, {1, 2}}
      /\ DOMAIN execution = {1} <=> Len(execution) = 1
      /\ \A i \in DOMAIN execution : execution[i] \in [selected -> Outcomes]
  BY ExecutionShape
<1>2. ASSUME NEW t \in Tests
      PROVE  /\ Times(execution, t, Outcomes \ {"absent"}) = IF t \in expected THEN 1 ELSE 0
             /\ t \in expected => Times(execution, t, {"ok"}) = 1
  <2>1. /\ Report(execution, hidden).run = Counter(expected)
        /\ Report(execution, hidden).ok = Counter(expected)
    BY DEF ValidResult
  <2>2. /\ Report(execution, hidden).run[t] = IF t \in expected THEN 1 ELSE 0
        /\ Report(execution, hidden).ok[t] = IF t \in expected THEN 1 ELSE 0
    BY <2>1 DEF Counter
  <2>3. /\ Report(execution, hidden).run[t] = Times(execution, t, Outcomes \ {"absent"})
        /\ Report(execution, hidden).ok[t] =
               IF t \in hidden THEN 0 ELSE Times(execution, t, {"ok"})
    BY DEF Report
  <2> QED BY <2>2, <2>3
<1>3. ASSUME NEW i \in DOMAIN execution, NEW t \in selected
      PROVE  /\ execution[i][t] \in Outcomes
             /\ t \in expected /\ execution[i][t] # "absent" => execution[i][t] = "ok"
             /\ t \notin expected => execution[i][t] = "absent"
  <2>1. execution[i][t] \in Outcomes /\ t \in DOMAIN execution[i] /\ t \in Tests
    BY <1>1
  <2>2. CASE t \in expected
    <3>1. ASSUME execution[i][t] # "absent"
          PROVE  execution[i][t] = "ok"
      <4>1. execution[i][t] \in Outcomes \ {"absent"} /\ DOMAIN execution \subseteq {1, 2}
        BY <1>1, <2>1, <3>1
      <4>2. /\ Times(execution, t, Outcomes \ {"absent"}) = 1
            /\ Times(execution, t, {"ok"}) = 1
        BY <1>2, <2>1, <2>2
      <4> QED BY <2>1, <4>1, <4>2, OneOk
    <3> QED BY <2>1, <2>2, <3>1
  <2>3. CASE t \notin expected
    <3>1. Times(execution, t, Outcomes \ {"absent"}) = 0 /\ DOMAIN execution \subseteq {1, 2}
      BY <1>1, <1>2, <2>1, <2>3
    <3>2. {j \in DOMAIN execution : /\ t \in DOMAIN execution[j]
                                   /\ execution[j][t] \in Outcomes \ {"absent"}} = {}
      BY <3>1, TimesIs
    <3> QED BY <2>1, <2>3, <3>2
  <2> QED BY <2>1, <2>2, <2>3
<1>4. \A i \in DOMAIN execution : ~Exits(execution[i])
  BY <1>1, <1>3 DEF Exits
<1>5. DOMAIN execution = {1} /\ Len(execution) = 1
  <2>1. DOMAIN Report(execution, hidden).passed = DOMAIN execution
    BY <1>4 DEF Report
  <2>2. Report(execution, hidden).passed = <<Cardinality(expected)>>
    BY DEF ValidResult
  <2>3. DOMAIN execution = {1}
    BY <2>1, <2>2
  <2> QED BY <1>1, <2>3
<1>6. ASSUME NEW t \in expected
      PROVE  t \in DOMAIN execution[1] /\ execution[1][t] = "ok"
  <2>1. Times(execution, t, {"ok"}) # 0
    BY <1>2
  <2>2. {j \in DOMAIN execution : /\ t \in DOMAIN execution[j]
                                 /\ execution[j][t] \in {"ok"}} # {}
    <3>1. DOMAIN execution \subseteq {1, 2}
      BY <1>5
    <3> QED BY <2>1, <3>1, TimesIs
  <2> QED BY <1>5, <2>2
<1>7. ASSUME NEW t \in DOMAIN execution[1], t \notin expected
      PROVE  execution[1][t] = "absent"
  BY <1>1, <1>3, <1>5, <1>7
<1>8. Passing(execution) = expected
  BY <1>5, <1>6, <1>7 DEF Passing
<1>9. OnlyPassed(execution, expected)
  BY <1>5, <1>6, <1>7 DEF OnlyPassed
<1> QED BY <1>8, <1>9

\* In an execution in which the required tests passed and no other ran, each of
\* them has one outcome and the others have none.
LEMMA TimesWhenPassed ==
    ASSUME NEW execution, NEW expected, OnlyPassed(execution, expected),
           DOMAIN execution = {1}, NEW t, NEW outcomes \in SUBSET (Outcomes \ {"absent"})
    PROVE  Times(execution, t, outcomes) =
               IF t \in expected /\ "ok" \in outcomes THEN 1 ELSE 0
<1> DEFINE indices == {i \in DOMAIN execution :
                          t \in DOMAIN execution[i] /\ execution[i][t] \in outcomes}
<1>1. "absent" \notin outcomes
  OBVIOUS
<1>2. CASE t \in expected /\ "ok" \in outcomes
  <2>1. indices = {1}
    BY <1>2 DEF OnlyPassed
  <2>2. Cardinality({1}) = 1
    BY FS_Singleton
  <2> QED BY <1>2, <2>1, <2>2 DEF Times
<1>3. CASE ~(t \in expected /\ "ok" \in outcomes)
  <2>1. indices = {}
    BY <1>1, <1>3 DEF OnlyPassed
  <2>2. Cardinality({}) = 0
    BY FS_EmptySet
  <2> QED BY <1>3, <2>1, <2>2 DEF Times
<1> QED BY <1>2, <1>3

\* A report of such an execution is accepted, if no test hides a line of the others.
LEMMA PassingIsValid ==
    ASSUME NEW expected \in SUBSET Tests, NEW selected \in SUBSET Tests,
           NEW execution \in Executions(selected), NEW hidden, hidden \cap expected = {},
           OnlyPassed(execution, expected)
    PROVE  ValidResult(Report(execution, hidden), expected)
<1>1. DOMAIN execution = {1}
  BY ExecutionShape DEF OnlyPassed
<1>2. \A t : /\ Times(execution, t, Outcomes \ {"absent"}) = IF t \in expected THEN 1 ELSE 0
             /\ Times(execution, t, {"ok"}) = IF t \in expected THEN 1 ELSE 0
             /\ Times(execution, t, {"failed", "skipped"}) = 0
  <2>1. /\ {"ok"} \subseteq Outcomes \ {"absent"}
        /\ {"failed", "skipped"} \subseteq Outcomes \ {"absent"}
        /\ "ok" \in Outcomes \ {"absent"} /\ "ok" \notin {"failed", "skipped"}
    BY DEF Outcomes
  <2> QED BY <1>1, <2>1, TimesWhenPassed
<1>3. ~Report(execution, hidden).refused
  BY <1>2 DEF Report
<1>4. Report(execution, hidden).run = Counter(expected)
  BY <1>2 DEF Report, Counter
<1>5. Report(execution, hidden).ok = Counter(expected)
  <2>1. \A t \in Tests :
            (IF t \in hidden THEN 0 ELSE Times(execution, t, {"ok"}))
                = IF t \in expected THEN 1 ELSE 0
    BY <1>2
  <2> QED BY <2>1 DEF Report, Counter
<1>6. Report(execution, hidden).passed = <<Cardinality(expected)>>
  <2>1. ~Exits(execution[1])
    BY DEF Exits, OnlyPassed
  <2>2. {i \in DOMAIN execution : ~Exits(execution[i])} = {1}
    BY <1>1, <2>1
  <2>3. {t \in DOMAIN execution[1] : execution[1][t] = "ok"} = expected
    BY DEF OnlyPassed
  <2>4. Report(execution, hidden).passed = [i \in {1} |-> Cardinality(expected)]
    BY <2>2, <2>3 DEF Report
  <2> QED BY <2>4
<1> QED BY <1>3, <1>4, <1>5, <1>6 DEF ValidResult

\* What validate_result accepts is exactly a run in which each required test passed
\* once and nothing else ran, for every inventory, sharding, repetition, skip and
\* early exit: nothing less is taken for evidence, and no such run is refused
\* unless a required test hides an OK line.
THEOREM EvidenceIsExact ==
    ASSUME NEW expected \in SUBSET Tests, NEW selected \in SUBSET Tests,
           NEW execution \in Executions(selected), NEW hidden, hidden \cap expected = {}
    PROVE  ValidResult(Report(execution, hidden), expected)
               <=> OnlyPassed(execution, expected)
  BY ValidIsPassing, PassingIsValid

-----------------------------------------------------------------------------
\* The units verify_project leaves to the adapter gate.
AdapterUnits == DOLPHIN_DEPENDENT_SOURCES \cap TranslationUnits

\* What a command adds to the evidence.
RanEffect ==
    evidence'.ran = evidence.ran
        \cup (IF gate.step = 8 THEN Selected("verify")
              ELSE IF gate.step = 21 THEN Selected("dolphin-adapter") ELSE {})

LintEffect ==
    /\ evidence'.linted = evidence.linted
           \cup (IF gate.step = 11 THEN OwnUnits(gate.listed) \X {"verify"}
                 ELSE IF gate.step = 22 THEN AdapterUnits \X {"dolphin-adapter"} ELSE {})
    /\ gate.step = 11 => Unlinted(gate.listed) = {}

PassEffect ==
    evidence'.passing = IF gate.step = 17 THEN required_tests(host) ELSE evidence.passing

\* Every command that does not raise adds this to the evidence, and no more.
LEMMA EvidenceEffects ==
    ASSUME TypeOK, Work, ~Raises
    PROVE  RanEffect /\ LintEffect /\ PassEffect
<1>1. evidence \in [linted : SUBSET (TranslationUnits \X Trees),
                    ran : SUBSET TestUnits, passing : SUBSET Tests]
  BY DEF TypeOK
<1>2. ASSUME evidence' = evidence, gate.step \notin {8, 11, 17, 21, 22}
      PROVE  RanEffect /\ LintEffect /\ PassEffect
  BY <1>2 DEF RanEffect, LintEffect, PassEffect
<1>3. CASE SelfTest
  <2>1. gate.step = 1
    BY <1>3, DoingAt DEF SelfTest, Look
  <2>2. evidence' = evidence
    BY <1>3 DEF SelfTest, Look
  <2> QED BY <1>2, <2>1, <2>2
<1>4. CASE CheckStructure
  <2>1. gate.step = 2
    BY <1>4, DoingAt DEF CheckStructure, Look
  <2>2. evidence' = evidence
    BY <1>4 DEF CheckStructure, Look
  <2> QED BY <1>2, <2>1, <2>2
<1>5. CASE CheckDependency
  <2>1. gate.step = 3
    BY <1>5, DoingAt DEF CheckDependency, Look
  <2>2. evidence' = evidence
    BY <1>5 DEF CheckDependency, Look
  <2> QED BY <1>2, <2>1, <2>2
<1>6. CASE CheckContract
  <2>1. gate.step = 4
    BY <1>6, DoingAt DEF CheckContract, Look
  <2>2. evidence' = evidence
    BY <1>6 DEF CheckContract, Look
  <2> QED BY <1>2, <2>1, <2>2
<1>7. CASE CheckCI
  <2>1. gate.step = 5
    BY <1>7, DoingAt DEF CheckCI, Look
  <2>2. evidence' = evidence
    BY <1>7 DEF CheckCI, Look
  <2> QED BY <1>2, <2>1, <2>2
<1>8. CASE Format
  <2>1. gate.step = 10
    BY <1>8, DoingAt DEF Format
  <2>2. evidence' = evidence
    BY <1>8 DEF Format
  <2> QED BY <1>2, <2>1, <2>2
<1>9. CASE ReadOptions
  <2>1. gate.step = 12
    BY <1>9, DoingAt DEF ReadOptions
  <2>2. evidence' = evidence
    BY <1>9 DEF ReadOptions
  <2> QED BY <1>2, <2>1, <2>2
<1>10. CASE Install
  <2>1. gate.step = 9
    BY <1>10, DoingAt DEF Install
  <2>2. evidence' = evidence
    BY <1>10 DEF Install
  <2> QED BY <1>2, <2>1, <2>2
<1>11. CASE Discover
  <2>1. gate.step = 16
    BY <1>11, DoingAt DEF Discover
  <2>2. evidence' = evidence
    BY <1>11 DEF Discover
  <2> QED BY <1>2, <2>1, <2>2
<1>12. ASSUME NEW tree \in Trees, Configure(tree)
      PROVE  RanEffect /\ LintEffect /\ PassEffect
  <2>1. gate.step \in {6, 13, 18}
    BY <1>12, DoingAt DEF Configure, ConfigureStep
  <2>2. evidence' = evidence
    BY <1>12 DEF Configure
  <2> QED BY <1>2, <2>1, <2>2
<1>13. ASSUME NEW tree \in Trees, Identify(tree)
      PROVE  RanEffect /\ LintEffect /\ PassEffect
  <2>1. gate.step \in {14, 19}
    BY <1>13, DoingAt DEF Identify, ConfigureStep
  <2>2. evidence' = evidence
    BY <1>13 DEF Identify
  <2> QED BY <1>2, <2>1, <2>2
<1>14. ASSUME NEW tree \in Trees, Build(tree)
      PROVE  RanEffect /\ LintEffect /\ PassEffect
  <2>1. gate.step \in {7, 15, 20}
    BY <1>14, DoingAt DEF Build, BuildStep
  <2>2. evidence' = evidence
    BY <1>14 DEF Build
  <2> QED BY <1>2, <2>1, <2>2
<1>15. ASSUME NEW tree \in Trees, CTest(tree)
      PROVE  RanEffect /\ LintEffect /\ PassEffect
  <2>1. \/ tree = "verify" /\ gate.step = 8
        \/ tree = "dolphin-adapter" /\ gate.step = 21
    BY <1>15, DoingAt DEF CTest
  <2>2. evidence' = [evidence EXCEPT !.ran = @ \cup Selected(tree)]
    BY <1>15 DEF CTest
  <2>3. evidence'.ran = evidence.ran \cup Selected(tree) /\ evidence'.linted = evidence.linted
        /\ evidence'.passing = evidence.passing
    BY <1>1, <2>2
  <2> QED BY <2>1, <2>3 DEF RanEffect, LintEffect, PassEffect
<1>16. CASE Test
  <2>1. gate.step = 17
    BY <1>16, DoingAt, Zenon DEF Test
  <2> DEFINE listed == {t \in Tests :
                           DolphinTests[trees["dolphin-runtime"].built.dolphin][t] > 0}
             selected == listed \cap required_tests(host)
  <2>2. PICK execution \in Executions(selected), hidden \in SUBSET required_tests(host) :
            /\ ValidResult(Report(execution, hidden), required_tests(host))
            /\ evidence' = [evidence EXCEPT !.passing = Passing(execution)]
    BY <1>16, Zenon DEF Test
  <2>3. Passing(execution) = required_tests(host)
    <3>1. required_tests(host) \in SUBSET Tests /\ selected \in SUBSET Tests
      BY InventoryAssumption DEF required_tests
    <3> HIDE DEF selected
    <3> QED BY <2>2, <3>1, ValidIsPassing
  <2>4. /\ evidence'.ran = evidence.ran /\ evidence'.linted = evidence.linted
        /\ evidence'.passing = required_tests(host)
    BY <1>1, <2>2, <2>3
  <2> QED BY <2>1, <2>4 DEF RanEffect, LintEffect, PassEffect
<1>17. CASE LintProject
  <2>1. gate.step = 11
    BY <1>17, DoingAt DEF LintProject
  <2>2. /\ evidence' = [evidence EXCEPT !.linted = @ \cup (OwnUnits(gate.listed) \X {"verify"})]
        /\ Unlinted(gate.listed) = {}
    BY <1>17 DEF LintProject, Lintable
  <2>3. /\ evidence'.linted = evidence.linted \cup (OwnUnits(gate.listed) \X {"verify"})
        /\ evidence'.ran = evidence.ran /\ evidence'.passing = evidence.passing
    BY <1>1, <2>2
  <2> QED BY <2>1, <2>2, <2>3 DEF RanEffect, LintEffect, PassEffect
<1>18. CASE LintAdapter
  <2>1. gate.step = 22
    BY <1>18, DoingAt DEF LintAdapter
  <2>2. evidence' = [evidence EXCEPT !.linted = @ \cup (AdapterUnits \X {"dolphin-adapter"})]
    BY <1>18 DEF LintAdapter, AdapterUnits
  <2>3. /\ evidence'.linted = evidence.linted \cup (AdapterUnits \X {"dolphin-adapter"})
        /\ evidence'.ran = evidence.ran /\ evidence'.passing = evidence.passing
    BY <1>1, <2>2
  <2> QED BY <2>1, <2>3 DEF RanEffect, LintEffect, PassEffect
<1>19. ~(CommandFails \/ InstallFails \/ \E tree \in Trees : ConfigureFails(tree) \/ BuildFails(tree))
  BY Zenon DEF CommandFails, InstallFails, ConfigureFails, BuildFails
<1> QED
  BY <1>3, <1>4, <1>5, <1>6, <1>7, <1>8, <1>9, <1>10, <1>11, <1>12, <1>13, <1>14, <1>15, <1>16, <1>17, <1>18, <1>19 DEF Work

\* A tree that is built keeps its commands and its content.
LEMMA TreeKept ==
    ASSUME TypeOK, CompilersKnown, BuiltNow, Running, Effects,
           NEW tree \in Trees, gate.step > BuildStep(tree)
    PROVE  /\ trees'[tree].database = trees[tree].database
           /\ trees'[tree].built.checkout = trees[tree].built.checkout
<1>1. trees[tree].built \in Builds
  BY DEF BuiltNow
<1>2. gate.step \notin {ConfigureStep(tree), BuildStep(tree)}
  BY DEF BuildStep, ConfigureStep
<1> QED BY <1>1, <1>2, TreeEffects

\* The content the invocation began with.
BeganHere == Running => /\ meddling.began \in Checkouts
                        /\ meddling.edits = 0 => meddling.began = checkout

\* The first edit moves away from it.
LEMMA BeganNext ==
    ASSUME TypeOK, BeganHere, [Next]_vars
    PROVE  BeganHere'
<1> SUFFICES ASSUME Running'
             PROVE  /\ meddling'.began \in Checkouts
                    /\ meddling'.edits = 0 => meddling'.began = checkout'
  BY DEF BeganHere
<1>1. CASE ~Running /\ gate'.step = 1 /\ evidence' = NoEvidence /\ meddling'.began = checkout'
  <2>1. checkout' \in Plan'.checkouts /\ campaign' \in DOMAIN Campaigns
    BY WorldNext DEF WorldTyped
  <2>2. IsCampaign(Plan')
    BY <2>1, GatesAssumption DEF Plan
  <2> QED BY <1>1, <2>1, <2>2 DEF IsCampaign
<1>2. CASE Running /\ UNCHANGED world /\ GoesOn
  BY <1>2 DEF world, GoesOn, BeganHere
<1>3. CASE /\ Running /\ meddling'.began = meddling.began
           /\ \/ meddling'.edits = meddling.edits + 1
              \/ UNCHANGED checkout /\ meddling'.edits = meddling.edits
  <2>1. meddling.edits \in Nat
    BY DEF TypeOK
  <2> QED BY <1>3, <2>1 DEF BeganHere
<1>4. CASE Running /\ UNCHANGED vars
  BY <1>4 DEF BeganHere, vars
<1> QED
  BY <1>1, <1>2, <1>3, <1>4, StepShape

\* The files that are listed to be linted, until they are.
FilesKnown ==
    Running /\ gate.step = 11 =>
        /\ \E c \in Checkouts : gate.listed = Content[c].files
        /\ meddling.edits <= 1 => Stable \subseteq gate.listed

\* A file that stays when the repository is first edited was there before.
LEMMA FilesNext ==
    ASSUME TypeOK, BeganHere, FilesKnown, [Next]_vars
    PROVE  FilesKnown'
<1> SUFFICES ASSUME Running', gate'.step = 11
             PROVE  /\ \E c \in Checkouts : gate'.listed = Content[c].files
                    /\ meddling'.edits <= 1 => Stable' \subseteq gate'.listed
  BY DEF FilesKnown
<1>1. CASE ~Running /\ gate'.step = 1
  BY <1>1
<1>2. CASE Running /\ UNCHANGED world /\ GoesOn /\ Effects
  <2>1. gate.step = 10 /\ UNCHANGED <<checkout, meddling>>
    BY <1>2, StepIs DEF GoesOn, world
  <2>2. gate'.listed = Content[checkout].files
    <3>1. FilesListed
      BY <1>2, <2>1 DEF Effects
    <3> QED BY <3>1 DEF FilesListed, TypeOK, here
  <2>3. Stable' \subseteq Content[checkout].files
    BY <2>1 DEF Stable, here
  <2>4. checkout \in Checkouts
    BY HereTyped
  <2> QED BY <2>2, <2>3, <2>4
<1>3. CASE /\ Running /\ UNCHANGED gate /\ meddling'.began = meddling.began
           /\ meddling'.edits = meddling.edits + 1
  <2>1. ASSUME meddling'.edits <= 1
        PROVE  Stable' \subseteq Stable /\ meddling.edits <= 1
    <3>1. meddling.edits = 0
      BY <1>3, <2>1 DEF TypeOK
    <3>2. meddling.began = checkout
      BY <1>3, <3>1 DEF BeganHere
    <3> QED BY <1>3, <3>1, <3>2 DEF Stable, here
  <2> QED BY <1>3, <2>1 DEF FilesKnown
<1>4. CASE /\ Running /\ UNCHANGED <<gate, checkout>> /\ meddling'.began = meddling.began
           /\ meddling'.edits = meddling.edits
  BY <1>4 DEF FilesKnown, Stable, here
<1>5. CASE Running /\ UNCHANGED vars
  BY <1>5 DEF FilesKnown, Stable, here, vars
<1> QED
  BY <1>1, <1>2, <1>3, <1>4, <1>5, StepShape

\* The project's tree, once it is built: its commands are of the content that
\* was built.
DatabaseNow ==
    Running /\ gate.step > 7 =>
        trees["verify"].database \subseteq Content[trees["verify"].built.checkout].gcnport

\* Nothing configures the project's tree again once it is built.
LEMMA DatabaseNext ==
    ASSUME TypeOK, CompilersKnown, BuiltNow, DatabaseNow, [Next]_vars
    PROVE  DatabaseNow'
<1> DEFINE tree == "verify"
<1> SUFFICES ASSUME Running', gate'.step > 7
             PROVE  trees'[tree].database \subseteq Content[trees'[tree].built.checkout].gcnport
  BY DEF DatabaseNow
<1>1. CASE ~Running /\ gate'.step = 1
  BY <1>1
<1>2. CASE Running /\ UNCHANGED world /\ GoesOn /\ Effects
  <2>1. /\ gate'.step = gate.step + 1 /\ gate.step \in Nat
        /\ BuildStep(tree) = 7 /\ ConfigureStep(tree) = 6 /\ tree \in Trees
    BY <1>2, StepIs DEF GoesOn, BuildStep, ConfigureStep, Trees
  <2>2. CASE gate.step = 7
    <3>1. /\ trees'[tree].database = CompileDatabase(tree, trees[tree].tests_option)
          /\ trees'[tree].built.checkout = checkout
      BY <1>2, <2>1, <2>2, TreeEffects
    <3> QED BY <3>1 DEF CompileDatabase, here
  <2>3. CASE gate.step > 7
    <3>1. trees[tree].built \in Builds
      BY <1>2, <2>1, <2>3 DEF BuiltNow
    <3>2. /\ trees'[tree].database = trees[tree].database
          /\ trees'[tree].built.checkout = trees[tree].built.checkout
      BY <1>2, <2>1, <2>3, <3>1, TreeEffects
    <3> QED BY <1>2, <2>3, <3>2 DEF DatabaseNow
  <2> QED BY <2>1, <2>2, <2>3
<1>3. CASE Running /\ UNCHANGED <<campaign, host, toolchain, cmake, trees, installed, gate>>
  BY <1>3 DEF DatabaseNow
<1>4. CASE Running /\ UNCHANGED vars
  BY <1>4 DEF DatabaseNow, vars
<1> QED
  BY <1>1, <1>2, <1>3, <1>4, StepShape

\* The adapter's tree, once it is built: its test is part of it.
AdapterHasTest ==
    Running /\ gate.step > 20 => Selected("dolphin-adapter") # {}

\* Ninja did not find the target otherwise.
LEMMA AdapterTestNext ==
    ASSUME TypeOK, CompilersKnown, BuiltNow, AdapterHasTest, [Next]_vars
    PROVE  AdapterHasTest'
<1> DEFINE tree == "dolphin-adapter"
<1> SUFFICES ASSUME Running', gate'.step > 20
             PROVE  Selected(tree)' # {}
  BY DEF AdapterHasTest
<1>1. CASE ~Running /\ gate'.step = 1
  BY <1>1
<1>2. CASE Running /\ UNCHANGED world /\ GoesOn /\ Effects
  <2>1. /\ gate'.step = gate.step + 1 /\ gate.step \in Nat
        /\ BuildStep(tree) = 20 /\ ConfigureStep(tree) = 18 /\ tree \in Trees
    BY <1>2, StepIs DEF GoesOn, BuildStep, ConfigureStep, Trees
  <2>2. CASE gate.step = 20
    <3>1. /\ Buildable(tree)
          /\ trees'[tree].database = CompileDatabase(tree, trees[tree].tests_option)
          /\ trees'[tree].built.checkout = checkout
      BY <1>2, <2>1, <2>2, TreeEffects
    <3>2. TestUnits \cap here.adapter \cap trees'[tree].database # {}
      BY <3>1 DEF Buildable, TargetExists
    <3>3. Selected(tree)' = here.adapter \cap TestUnits \cap trees'[tree].database
      BY <3>1 DEF Selected, here
    <3> QED BY <3>2, <3>3
  <2>3. CASE gate.step > 20
    <3>1. trees[tree].built \in Builds
      BY <1>2, <2>1, <2>3 DEF BuiltNow
    <3>2. /\ trees'[tree].database = trees[tree].database
          /\ trees'[tree].built.checkout = trees[tree].built.checkout
      BY <1>2, <2>1, <2>3, <3>1, TreeEffects
    <3> QED BY <1>2, <2>3, <3>2 DEF AdapterHasTest, Selected
  <2> QED BY <2>1, <2>2, <2>3
<1>3. CASE Running /\ UNCHANGED <<campaign, host, toolchain, cmake, trees, installed, gate>>
  BY <1>3 DEF AdapterHasTest, Selected
<1>4. CASE Running /\ UNCHANGED vars
  BY <1>4 DEF AdapterHasTest, vars, Selected
<1> QED
  BY <1>1, <1>2, <1>3, <1>4, StepShape

\* What the two runs of CTest ran, and what they say of the build.
TestsRan ==
    Running =>
        /\ gate.step > 8 => /\ Selected("verify") \subseteq evidence.ran
                            /\ trees["verify"].built.tested = (Selected("verify") # {})
        /\ gate.step > 21 => Selected("dolphin-adapter") \subseteq evidence.ran

\* What CTest selects does not change with the later commands.
LEMMA SelectedKept ==
    ASSUME TypeOK, CompilersKnown, BuiltNow, Running, Effects
    PROVE  /\ gate.step >= 8 => Selected("verify")' = Selected("verify")
           /\ gate.step >= 21 => Selected("dolphin-adapter")' = Selected("dolphin-adapter")
<1>1. gate.step >= 8 => gate.step > BuildStep("verify") /\ "verify" \in Trees
  BY StepIs DEF BuildStep, Trees
<1>2. gate.step >= 21 =>
         gate.step > BuildStep("dolphin-adapter") /\ "dolphin-adapter" \in Trees
  BY StepIs DEF BuildStep, Trees
<1> QED
  BY <1>1, <1>2, TreeKept DEF Selected

\* A build that came later would have to be tested again; none does.
LEMMA TestsNext ==
    ASSUME TypeOK, CompilersKnown, BuiltNow, TestsRan, [Next]_vars
    PROVE  TestsRan'
<1> SUFFICES ASSUME Running'
             PROVE  /\ gate'.step > 8 =>
                          /\ Selected("verify")' \subseteq evidence'.ran
                          /\ trees'["verify"].built.tested = (Selected("verify")' # {})
                    /\ gate'.step > 21 => Selected("dolphin-adapter")' \subseteq evidence'.ran
  BY DEF TestsRan
<1>1. CASE ~Running /\ gate'.step = 1
  BY <1>1
<1>2. CASE Running /\ UNCHANGED world /\ GoesOn /\ Effects /\ Work /\ ~Raises
  <2>1. gate'.step = gate.step + 1 /\ gate.step \in Nat
    BY <1>2, StepIs DEF GoesOn
  <2>2. /\ gate.step >= 8 => Selected("verify")' = Selected("verify")
        /\ gate.step >= 21 => Selected("dolphin-adapter")' = Selected("dolphin-adapter")
    BY <1>2, SelectedKept
  <2>3. RanEffect
    BY <1>2, EvidenceEffects
  <2>4. /\ gate.step >= 8 => Selected("verify") \subseteq evidence'.ran
        /\ gate.step >= 21 => Selected("dolphin-adapter") \subseteq evidence'.ran
    BY <1>2, <2>1, <2>3 DEF RanEffect, TestsRan
  <2>5. gate.step >= 8 => trees'["verify"].built.tested = (Selected("verify") # {})
    <3>1. gate.step >= 8 => trees["verify"].built \in Builds /\ "verify" \in Trees
      BY <1>2, <2>1 DEF BuiltNow, BuildStep, Trees
    <3>2. CASE gate.step = 8
      BY <1>2, <3>1, <3>2, TreeEffects
    <3>3. CASE gate.step > 8
      <4>1. trees'["verify"].built = trees["verify"].built
        BY <1>2, <3>1, <3>3, <2>1, TreeEffects
      <4> QED BY <1>2, <3>3, <4>1 DEF TestsRan
    <3> QED BY <2>1, <3>2, <3>3
  <2> QED BY <2>1, <2>2, <2>4, <2>5
<1>3. CASE Running /\ UNCHANGED <<trees, gate, evidence>>
  BY <1>3 DEF TestsRan, Selected
<1>4. CASE Running /\ UNCHANGED vars
  BY <1>4 DEF TestsRan, vars, Selected
<1> QED
  BY <1>1, <1>2, <1>3, <1>4, StepShape
\* What the runtime gate saw pass is what the host requires.
PassedRequired ==
    Running /\ gate.step > 17 => evidence.passing = required_tests(host)

\* Only the test command changes what passed.
LEMMA PassedNext ==
    ASSUME TypeOK, PassedRequired, [Next]_vars
    PROVE  PassedRequired'
<1> SUFFICES ASSUME Running', gate'.step > 17
             PROVE  evidence'.passing = required_tests(host')
  BY DEF PassedRequired, required_tests
<1>1. CASE ~Running /\ gate'.step = 1
  BY <1>1
<1>2. CASE Running /\ UNCHANGED world /\ GoesOn /\ Effects /\ Work /\ ~Raises
  <2>1. gate'.step = gate.step + 1 /\ gate.step \in Nat /\ host' = host
    BY <1>2, StepIs DEF GoesOn, world
  <2>2. PassEffect
    BY <1>2, EvidenceEffects
  <2> QED BY <1>2, <2>1, <2>2 DEF PassEffect, PassedRequired
<1>3. CASE Running /\ UNCHANGED <<gate, host, evidence>>
  BY <1>3 DEF PassedRequired
<1>4. CASE Running /\ UNCHANGED vars
  BY <1>4 DEF PassedRequired, vars
<1> QED
  BY <1>1, <1>2, <1>3, <1>4, StepShape

\* ... the project's tree after position 7.
LEMMA VerifyKept ==
    ASSUME TypeOK, CompilersKnown, BuiltNow, Running, Effects, gate.step > 7
    PROVE  /\ trees'["verify"].database = trees["verify"].database
           /\ Selected("verify")' = Selected("verify")
<1>1. "verify" \in Trees /\ gate.step > BuildStep("verify")
  BY DEF Trees, BuildStep
<1> QED BY <1>1, TreeKept DEF Selected

\* What the project gate lints: units that its tree compiles.
LintersKnown ==
    Running =>
        /\ gate.step <= 11 => evidence.linted = {}
        /\ evidence.linted \subseteq
               (trees["verify"].database \ DOLPHIN_DEPENDENT_SOURCES) \X {"verify"}

\* Only the two lint commands lint.
LEMMA LintersNext ==
    ASSUME TypeOK, CompilersKnown, BuiltNow, LintersKnown, [Next]_vars
    PROVE  LintersKnown'
<1> SUFFICES ASSUME Running'
             PROVE  /\ gate'.step <= 11 => evidence'.linted = {}
                    /\ evidence'.linted \subseteq
                         (trees'["verify"].database \ DOLPHIN_DEPENDENT_SOURCES) \X {"verify"}
  BY DEF LintersKnown
<1>1. CASE ~Running /\ gate'.step = 1 /\ evidence' = NoEvidence
  BY <1>1 DEF NoEvidence
<1>2. CASE Running /\ UNCHANGED world /\ GoesOn /\ Effects /\ Work /\ ~Raises
  <2>1. gate'.step = gate.step + 1 /\ gate.step \in Nat /\ gate.step # 22
    <3>1. gate.runtime \in BOOLEAN
      BY DEF TypeOK
    <3> DEFINE last == Len(Commands(gate.runtime))
    <3>2. last = IF gate.runtime THEN 22 ELSE 11
      BY <3>1, CommandAt
    <3>3. gate.step # 22
      <4>1. gate.step < last
        BY <1>2 DEF GoesOn
      <4> HIDE DEF last
      <4> QED BY <3>1, <3>2, <4>1
    <3> QED BY <1>2, <3>3, StepIs DEF GoesOn
  <2>2. LintEffect
    BY <1>2, EvidenceEffects
  <2>3. CASE gate.step < 11
    BY <1>2, <2>1, <2>2, <2>3 DEF LintEffect, LintersKnown
  <2>4. CASE gate.step = 11
    <3>1. /\ evidence'.linted = OwnUnits(gate.listed) \X {"verify"}
          /\ OwnUnits(gate.listed) \subseteq trees["verify"].database
      BY <1>2, <2>2, <2>4 DEF LintEffect, LintersKnown, Unlinted, Compiled
    <3>2. OwnUnits(gate.listed) \cap DOLPHIN_DEPENDENT_SOURCES = {}
      BY DEF OwnUnits
    <3>3. trees'["verify"].database = trees["verify"].database
      BY <1>2, <2>4, VerifyKept
    <3> QED BY <2>1, <2>4, <3>1, <3>2, <3>3
  <2>5. CASE gate.step > 11
    <3>1. evidence'.linted = evidence.linted
      BY <2>1, <2>2, <2>5 DEF LintEffect
    <3>2. trees'["verify"].database = trees["verify"].database
      BY <1>2, <2>1, <2>5, VerifyKept
    <3> QED BY <1>2, <2>1, <2>5, <3>1, <3>2 DEF LintersKnown
  <2> QED BY <2>1, <2>3, <2>4, <2>5
<1>3. CASE Running /\ UNCHANGED <<trees, gate, evidence>>
  BY <1>3 DEF LintersKnown
<1>4. CASE Running /\ UNCHANGED vars
  BY <1>4 DEF LintersKnown, vars
<1> QED
  BY <1>1, <1>2, <1>3, <1>4, StepShape

\* The project gate linted each unit of its own that stays in the repository.
OwnStable == (Stable \cap TranslationUnits) \ DOLPHIN_DEPENDENT_SOURCES

\* It linted each of them, unless the repository is edited once too often.
OwnLinted ==
    Running /\ gate.step > 11 /\ meddling.edits <= 1 =>
        OwnStable \X {"verify"} \subseteq evidence.linted

\* A unit that is stable after the first edit was in the repository before.
LEMMA OwnLintedNext ==
    ASSUME TypeOK, BeganHere, FilesKnown, OwnLinted, [Next]_vars
    PROVE  OwnLinted'
<1> SUFFICES ASSUME Running', gate'.step > 11, meddling'.edits <= 1
             PROVE  OwnStable' \X {"verify"} \subseteq evidence'.linted
  BY DEF OwnLinted
<1>1. CASE ~Running /\ gate'.step = 1
  BY <1>1
<1>2. CASE Running /\ UNCHANGED world /\ GoesOn /\ Effects /\ Work /\ ~Raises
  <2>1. /\ gate'.step = gate.step + 1 /\ gate.step \in Nat
        /\ UNCHANGED <<checkout, meddling>>
    BY <1>2, StepIs DEF GoesOn, world
  <2>2. OwnStable' = OwnStable
    BY <2>1 DEF OwnStable, Stable, here
  <2>3. LintEffect
    BY <1>2, EvidenceEffects
  <2>4. CASE gate.step = 11
    <3>1. OwnStable \subseteq OwnUnits(gate.listed)
      BY <1>2, <2>1, <2>4 DEF FilesKnown, OwnStable, OwnUnits
    <3> QED BY <2>2, <2>3, <2>4, <3>1 DEF LintEffect
  <2>5. CASE gate.step > 11
    <3>1. OwnStable \X {"verify"} \subseteq evidence.linted
      BY <1>2, <2>1, <2>5 DEF OwnLinted
    <3> QED BY <2>2, <2>3, <3>1 DEF LintEffect
  <2> QED BY <2>1, <2>4, <2>5
<1>3. CASE /\ Running /\ UNCHANGED <<gate, evidence>> /\ meddling'.began = meddling.began
           /\ meddling'.edits = meddling.edits + 1
  <2>1. meddling.edits = 0
    BY <1>3 DEF TypeOK
  <2>2. meddling.began = checkout
    BY <1>3, <2>1 DEF BeganHere
  <2>3. OwnStable' \subseteq OwnStable
    BY <1>3, <2>2 DEF OwnStable, Stable, here
  <2> QED BY <1>3, <2>1, <2>3 DEF OwnLinted
<1>4. CASE /\ Running /\ UNCHANGED <<gate, evidence, checkout>> /\ meddling'.began = meddling.began
           /\ meddling'.edits = meddling.edits
  BY <1>4 DEF OwnLinted, OwnStable, Stable, here
<1>5. CASE Running /\ UNCHANGED vars
  BY <1>5 DEF OwnLinted, OwnStable, Stable, here, vars
<1> QED
  BY <1>1, <1>2, <1>3, <1>4, <1>5, StepShape

\* The project's tree compiles all units of its own of some content.
OwnCompiled ==
    Running /\ gate.step > 11 =>
        \E c \in Checkouts :
            (Content[c].files \cap TranslationUnits) \ DOLPHIN_DEPENDENT_SOURCES
                \subseteq trees["verify"].database

\* The lint demands a compile command of each unit of the files it was given.
LEMMA OwnCompiledNow ==
    ASSUME FilesKnown, Running, gate.step = 11, Unlinted(gate.listed) = {}
    PROVE  \E c \in Checkouts :
               (Content[c].files \cap TranslationUnits) \ DOLPHIN_DEPENDENT_SOURCES
                   \subseteq trees["verify"].database
<1>1. PICK c \in Checkouts : gate.listed = Content[c].files
  BY DEF FilesKnown
<1>2. OwnUnits(gate.listed) \subseteq trees["verify"].database
  BY DEF Unlinted, Compiled
<1> QED BY <1>1, <1>2 DEF OwnUnits

\* Nothing compiles the project's tree after the lint.
LEMMA OwnCompiledNext ==
    ASSUME TypeOK, CompilersKnown, BuiltNow, FilesKnown, OwnCompiled, [Next]_vars
    PROVE  OwnCompiled'
<1> SUFFICES ASSUME Running', gate'.step > 11
             PROVE  \E c \in Checkouts :
                        (Content[c].files \cap TranslationUnits) \ DOLPHIN_DEPENDENT_SOURCES
                            \subseteq trees'["verify"].database
  BY DEF OwnCompiled
<1>1. CASE ~Running /\ gate'.step = 1
  BY <1>1
<1>2. CASE Running /\ UNCHANGED world /\ GoesOn /\ Effects /\ Work /\ ~Raises
  <2>1. gate'.step = gate.step + 1 /\ gate.step \in Nat
    BY <1>2, StepIs DEF GoesOn
  <2>2. trees'["verify"].database = trees["verify"].database
    BY <1>2, <2>1, VerifyKept
  <2>3. CASE gate.step = 11
    <3>1. Unlinted(gate.listed) = {}
      BY <1>2, <2>3, EvidenceEffects DEF LintEffect
    <3> QED BY <1>2, <2>2, <2>3, <3>1, OwnCompiledNow
  <2>4. CASE gate.step > 11
    BY <1>2, <2>2, <2>4 DEF OwnCompiled
  <2> QED BY <2>1, <2>3, <2>4
<1>3. CASE Running /\ UNCHANGED <<trees, gate>>
  BY <1>3 DEF OwnCompiled
<1>4. CASE Running /\ UNCHANGED vars
  BY <1>4 DEF OwnCompiled, vars
<1> QED
  BY <1>1, <1>2, <1>3, <1>4, StepShape

\* What the dependency check found, until Dolphin moves.
DependencyChecked ==
    Running /\ gate.step > 3 /\ meddling.edits = 0 /\ meddling.moves = 0 => RequiresCheckout

\* check_dependency accepts the pinned revision only.
LEMMA CheckedIsPinned ==
    ASSUME check_dependency(dolphin, here.manifest) = 0
    PROVE  RequiresCheckout
<1>1. /\ here.manifest # Absent /\ dolphin # Absent
      /\ Exit(DependencyErrors(dolphin, here.manifest)) = 0
  <2>1. check_dependency(dolphin, here.manifest) = 1
          \/ /\ SpecificationLoads(here.manifest) /\ dolphin # Absent
             /\ check_dependency(dolphin, here.manifest)
                  = Exit(DependencyErrors(dolphin, here.manifest))
    BY Zenon DEF check_dependency
  <2>2. check_dependency(dolphin, here.manifest) # 1
    <3>1. 0 # 1
      OBVIOUS
    <3> QED BY <3>1
  <2> QED BY <2>1, <2>2 DEF SpecificationLoads
<1>2. DependencyErrors(dolphin, here.manifest) = {}
  BY <1>1 DEF Exit
<1>3. dolphin.revision = here.manifest.revision
  <2>1. dolphin["revision"] = here.manifest["revision"]
    BY <1>2 DEF DependencyErrors
  <2> QED BY <2>1
<1> QED
  BY <1>1, <1>3 DEF RequiresCheckout

\* Only a move of extern/dolphin or an edit undoes what it found.
LEMMA DependencyNext ==
    ASSUME TypeOK, DependencyChecked, [Next]_vars
    PROVE  DependencyChecked'
<1> SUFFICES ASSUME Running', gate'.step > 3, meddling'.edits = 0, meddling'.moves = 0
             PROVE  RequiresCheckout'
  BY DEF DependencyChecked
<1>1. UNCHANGED <<checkout, dolphin>> => RequiresCheckout' = RequiresCheckout
  BY DEF RequiresCheckout, here
<1>2. CASE ~Running /\ gate'.step = 1
  BY <1>2
<1>3. CASE Running /\ UNCHANGED world /\ GoesOn /\ Effects
  <2>1. /\ gate'.step = gate.step + 1 /\ gate.step \in Nat
        /\ UNCHANGED <<checkout, dolphin, meddling>>
    BY <1>3, StepIs DEF GoesOn, world
  <2>2. CASE gate.step = 3
    BY <1>1, <1>3, <2>1, <2>2, CheckedIsPinned DEF Effects
  <2>3. CASE gate.step > 3
    BY <1>1, <1>3, <2>1, <2>3 DEF DependencyChecked
  <2> QED BY <2>1, <2>2, <2>3
<1>4. CASE \/ meddling'.edits = meddling.edits + 1
           \/ meddling'.moves = meddling.moves + 1
  <2>1. meddling.edits \in Nat /\ meddling.moves \in Nat
    BY DEF TypeOK
  <2> QED BY <1>4, <2>1
<1>5. CASE Running /\ UNCHANGED vars
  BY <1>1, <1>5 DEF DependencyChecked, vars
<1> QED
  BY <1>2, <1>3, <1>4, <1>5, StepShape

\* The revision of Dolphin a tree is built from.
Revision(tree) == trees[tree].built.dolphin

\* The runtime tree is built from the pinned Dolphin, or the one move that may
\* have happened took extern/dolphin away from it, and then the adapter's
\* configuration will object.
RuntimePinned ==
    Running /\ gate.step > 15 /\ meddling.edits = 0 /\ meddling.moves <= 1 =>
        \/ Revision("dolphin-runtime") = here.manifest.revision
        \/ gate.step <= 18 /\ meddling.moves = 1 /\ ~RequiresCheckout

\* The adapter's tree is built last; no command looks after it.
AdapterPinned ==
    Running /\ gate.step > 20 /\ meddling.edits = 0 /\ meddling.moves = 0 =>
        Revision("dolphin-adapter") = here.manifest.revision

\* The move either comes after the build, or the adapter's configuration objects.
LEMMA RuntimePinnedNext ==
    ASSUME TypeOK, CompilersKnown, BuiltNow, DependencyChecked, RuntimePinned, [Next]_vars
    PROVE  RuntimePinned'
<1> DEFINE tree == "dolphin-runtime"
<1> SUFFICES ASSUME Running', gate'.step > 15, meddling'.edits = 0, meddling'.moves <= 1
             PROVE  \/ Revision(tree)' = here'.manifest.revision
                    \/ gate'.step <= 18 /\ meddling'.moves = 1 /\ ~RequiresCheckout'
  BY DEF RuntimePinned
<1>1. meddling.edits \in Nat /\ meddling.moves \in Nat /\ tree \in Trees
  BY DEF TypeOK, Trees
<1>2. CASE ~Running /\ gate'.step = 1
  BY <1>2
<1>3. CASE Running /\ UNCHANGED world /\ GoesOn /\ Effects
  <2>1. /\ gate'.step = gate.step + 1 /\ gate.step \in Nat
        /\ UNCHANGED <<checkout, dolphin, meddling>>
    BY <1>3, StepIs DEF GoesOn, world
  <2>2. here' = here /\ RequiresCheckout' = RequiresCheckout
    BY <2>1 DEF here, RequiresCheckout
  <2>3. CASE gate.step = 15
    <3>1. gate.step = BuildStep(tree)
      BY <2>3 DEF BuildStep
    <3>2. Buildable(tree) /\ trees'[tree].built.dolphin = dolphin.revision
      BY <1>1, <1>3, <3>1, TreeEffects
    <3>3. CASE RequiresCheckout
      BY <2>2, <3>2, <3>3 DEF RequiresCheckout, Revision
    <3>4. CASE ~RequiresCheckout
      <4>1. meddling.moves # 0
        BY <1>3, <2>1, <2>3, <3>4 DEF DependencyChecked
      <4> QED BY <1>1, <2>1, <2>2, <2>3, <3>4, <4>1
    <3> QED BY <3>3, <3>4
  <2>4. CASE gate.step > 15
    <3>1. gate.step \notin {ConfigureStep(tree), BuildStep(tree)} /\ gate.step > BuildStep(tree)
      BY <2>4 DEF ConfigureStep, BuildStep
    <3>2. trees[tree].built \in Builds
      BY <1>1, <1>3, <3>1 DEF BuiltNow
    <3>3. Revision(tree)' = Revision(tree)
      BY <1>1, <1>3, <3>1, <3>2, TreeEffects DEF Revision
    <3>4. \/ Revision(tree) = here.manifest.revision
          \/ gate.step <= 18 /\ meddling.moves = 1 /\ ~RequiresCheckout
      BY <1>3, <2>1, <2>4 DEF RuntimePinned
    <3>5. CASE gate.step = 18
      <4>1. gate.step = ConfigureStep("dolphin-adapter") /\ "dolphin-adapter" \in Trees
        BY <3>5 DEF ConfigureStep, Trees
      <4>2. RequiresCheckout
        BY <1>3, <4>1, TreeEffects DEF Configurable
      <4> QED BY <2>2, <3>3, <3>4, <4>2
    <3>6. CASE gate.step # 18
      <4>1. gate.step <= 18 => gate'.step <= 18
        BY <2>1, <3>6
      <4> QED BY <2>1, <2>2, <3>3, <3>4, <4>1
    <3> QED BY <3>5, <3>6
  <2> QED BY <2>1, <2>3, <2>4
<1>4. CASE /\ Running /\ UNCHANGED <<campaign, host, toolchain, cmake, trees, installed, gate>>
           /\ \/ meddling'.edits = meddling.edits + 1
              \/ /\ UNCHANGED checkout
                 /\ meddling'.edits = meddling.edits /\ meddling'.moves = meddling.moves + 1
  <2>1. UNCHANGED <<checkout, trees, gate>> /\ meddling.edits = 0 /\ meddling.moves = 0
    BY <1>1, <1>4
  <2>2. Revision(tree) = here.manifest.revision
    BY <1>4, <2>1 DEF RuntimePinned
  <2> QED BY <2>1, <2>2 DEF Revision, here
<1>5. CASE Running /\ UNCHANGED vars
  BY <1>5 DEF RuntimePinned, vars, Revision, here, RequiresCheckout
<1> QED
  BY <1>2, <1>3, <1>4, <1>5, StepShape

\* Nothing moved since the dependency check.
LEMMA AdapterPinnedNext ==
    ASSUME TypeOK, CompilersKnown, BuiltNow, DependencyChecked, AdapterPinned, [Next]_vars
    PROVE  AdapterPinned'
<1> DEFINE tree == "dolphin-adapter"
<1> SUFFICES ASSUME Running', gate'.step > 20, meddling'.edits = 0, meddling'.moves = 0
             PROVE  Revision(tree)' = here'.manifest.revision
  BY DEF AdapterPinned
<1>1. meddling.edits \in Nat /\ meddling.moves \in Nat /\ tree \in Trees
  BY DEF TypeOK, Trees
<1>2. CASE ~Running /\ gate'.step = 1
  BY <1>2
<1>3. CASE Running /\ UNCHANGED world /\ GoesOn /\ Effects
  <2>1. /\ gate'.step = gate.step + 1 /\ gate.step \in Nat
        /\ UNCHANGED <<checkout, dolphin, meddling>>
    BY <1>3, StepIs DEF GoesOn, world
  <2>2. here' = here
    BY <2>1 DEF here
  <2>3. CASE gate.step = 20
    <3>1. gate.step = BuildStep(tree)
      BY <2>3 DEF BuildStep
    <3>2. trees'[tree].built.dolphin = dolphin.revision
      BY <1>1, <1>3, <3>1, TreeEffects
    <3>3. RequiresCheckout
      BY <1>3, <2>1, <2>3 DEF DependencyChecked
    <3> QED BY <2>2, <3>2, <3>3 DEF RequiresCheckout, Revision
  <2>4. CASE gate.step > 20
    <3>1. gate.step \notin {ConfigureStep(tree), BuildStep(tree)} /\ gate.step > BuildStep(tree)
      BY <2>4 DEF ConfigureStep, BuildStep
    <3>2. trees[tree].built \in Builds
      BY <1>1, <1>3, <3>1 DEF BuiltNow
    <3>3. Revision(tree)' = Revision(tree)
      BY <1>1, <1>3, <3>1, <3>2, TreeEffects DEF Revision
    <3> QED BY <1>3, <2>1, <2>2, <2>4, <3>3 DEF AdapterPinned
  <2> QED BY <2>1, <2>3, <2>4
<1>4. CASE \/ meddling'.edits = meddling.edits + 1
           \/ meddling'.moves = meddling.moves + 1
  BY <1>1, <1>4
<1>5. CASE Running /\ UNCHANGED vars
  BY <1>5 DEF AdapterPinned, vars, Revision, here
<1> QED
  BY <1>2, <1>3, <1>4, <1>5, StepShape

-----------------------------------------------------------------------------
\* The inductive invariant: the types, and for each command what is known once
\* the gate is past it.
IInv ==
    /\ TypeOK /\ CompilersKnown /\ HostIdentified /\ BuiltNow
    /\ StructureChecked /\ InstalledNow
    /\ OptionsKnown /\ SliceOff
    /\ DependencyChecked /\ RuntimePinned /\ AdapterPinned
    /\ DatabaseNow /\ AdapterHasTest /\ TestsRan /\ PassedRequired
    /\ BeganHere /\ FilesKnown /\ LintersKnown /\ OwnLinted /\ OwnCompiled

\* Every step keeps it.
LEMMA Invariance == Spec => []IInv
<1>1. ASSUME Init
      PROVE  IInv
  <2>1. TypeOK
    BY <1>1, TypeInit
  <2>2. ~Running
    BY <1>1 DEF Init, NoGate, Running
  <2> QED BY <2>1, <2>2 DEF IInv, CompilersKnown, HostIdentified, BuiltNow, StructureChecked,
             InstalledNow, OptionsKnown, SliceOff, DependencyChecked, RuntimePinned, AdapterPinned,
             DatabaseNow, AdapterHasTest, TestsRan, PassedRequired, BeganHere, FilesKnown, LintersKnown, OwnLinted, OwnCompiled
<1>2. ASSUME IInv, [Next]_vars
      PROVE  IInv'
  <2>1. /\ TypeOK /\ CompilersKnown /\ HostIdentified /\ BuiltNow
        /\ StructureChecked /\ InstalledNow
        /\ OptionsKnown /\ SliceOff
        /\ DependencyChecked /\ RuntimePinned /\ AdapterPinned
        /\ DatabaseNow /\ AdapterHasTest /\ TestsRan /\ PassedRequired
        /\ BeganHere /\ FilesKnown /\ LintersKnown /\ OwnLinted /\ OwnCompiled
    BY <1>2 DEF IInv
  <2>2. TypeOK' /\ CompilersKnown' /\ HostIdentified' /\ BuiltNow'
    BY <1>2, <2>1, TypeNext, CompilersNext, HostIdentifiedNext, BuiltNext
  <2>3. StructureChecked' /\ InstalledNow'
    BY <1>2, <2>1, StructureNext, InstalledIsBuilt
  <2>4. OptionsKnown' /\ SliceOff'
    BY <1>2, <2>1, OptionsNext, SliceNext
  <2>5. DependencyChecked' /\ RuntimePinned' /\ AdapterPinned'
    BY <1>2, <2>1, DependencyNext, RuntimePinnedNext, AdapterPinnedNext
  <2>6. DatabaseNow' /\ AdapterHasTest' /\ TestsRan' /\ PassedRequired'
    BY <1>2, <2>1, DatabaseNext, AdapterTestNext, TestsNext, PassedNext
  <2>7. BeganHere' /\ FilesKnown' /\ LintersKnown' /\ OwnLinted' /\ OwnCompiled'
    BY <1>2, <2>1, BeganNext, FilesNext, LintersNext, OwnLintedNext, OwnCompiledNext
  <2> QED BY <2>2, <2>3, <2>4, <2>5, <2>6, <2>7 DEF IInv
<1> QED
  BY <1>1, <1>2, PTL DEF Spec

\* The state of the gates has its types, whatever is edited, moved or
\* configured by hand, and whatever fails (all of project_verifier.py and
\* dolphin_runtime.py).
THEOREM TypeCorrect == Spec => []TypeOK
<1>1. IInv => TypeOK
  BY DEF IInv
<1> QED
  BY <1>1, Invariance, PTL

\* Every binary a passing invocation accepted was built from the repository as
\* it is, in trees of any history, if nobody edited it meanwhile.
THEOREM BuildsAreFresh == Spec => BuiltFromCheckout
<1>1. ASSUME IInv, [Next]_vars, Passes, meddling.edits = 0,
             NEW tree \in Trees, tree = "verify" \/ gate.runtime
      PROVE  trees'[tree].built.checkout = checkout
  <2>1. /\ Running /\ trees' = trees
        /\ gate.step = IF gate.runtime THEN 22 ELSE 11
    BY <1>1, PassesAt DEF IInv
  <2>2. gate.step > BuildStep(tree)
    BY <1>1, <2>1 DEF BuildStep
  <2> QED BY <1>1, <2>1, <2>2 DEF IInv, BuiltNow
<1>2. IInv /\ [Next]_vars =>
        [Passes /\ meddling.edits = 0 =>
            \A tree \in Trees :
                (tree = "verify" \/ gate.runtime) => trees'[tree].built.checkout = checkout]_vars
  BY <1>1
<1> QED
  BY <1>2, Invariance, PTL DEF Spec, BuiltFromCheckout

\* The Dolphin binaries of a passing invocation are of the compiler the host
\* calls for, as CMake identified it, whatever configured their trees before.
THEOREM BuildsAreTheHosts == Spec => BuiltByHostCompiler
<1>1. ASSUME IInv, [Next]_vars, Passes, gate.runtime, NEW tree \in Trees \ {"verify"}
      PROVE  trees'[tree].built.compiler = cmake_compiler_id(host)
  <2>1. /\ Running /\ trees' = trees
        /\ gate.step = IF gate.runtime THEN 22 ELSE 11
    BY <1>1, PassesAt DEF IInv
  <2>2. gate.step > BuildStep(tree) /\ gate.step > ConfigureStep(tree) + 1
    BY <1>1, <2>1 DEF BuildStep, ConfigureStep
  <2> QED BY <1>1, <2>1, <2>2 DEF IInv, BuiltNow, HostIdentified
<1>2. IInv /\ [Next]_vars =>
        [Passes /\ gate.runtime =>
            \A tree \in Trees \ {"verify"} :
                trees'[tree].built.compiler = cmake_compiler_id(host)]_vars
  BY <1>1
<1> QED
  BY <1>2, Invariance, PTL DEF Spec, BuiltByHostCompiler

\* Both Dolphin builds of a passing invocation leave out at least what the
\* manifest names for the host.
THEOREM SlicesAreOff == Spec => SliceConfigured
<1>1. ASSUME IInv, [Next]_vars, Passes, gate.runtime, meddling.edits = 0,
             NEW tree \in Trees \ {"verify"}
      PROVE  /\ here.manifest.off \subseteq trees'[tree].built.off
             /\ host.os = "linux" => here.manifest.linux_off \subseteq trees'[tree].built.off
  <2>1. /\ Running /\ trees' = trees
        /\ gate.step = IF gate.runtime THEN 22 ELSE 11
    BY <1>1, PassesAt DEF IInv
  <2>2. gate.step > BuildStep(tree)
    BY <1>1, <2>1 DEF BuildStep
  <2>3. Slice \subseteq trees[tree].built.off
    BY <1>1, <2>1, <2>2 DEF IInv, SliceOff
  <2> QED BY <2>1, <2>3 DEF Slice
<1>2. IInv /\ [Next]_vars =>
        [Passes /\ gate.runtime /\ meddling.edits = 0 =>
            \A tree \in Trees \ {"verify"} :
                /\ here.manifest.off \subseteq trees'[tree].built.off
                /\ host.os = "linux" => here.manifest.linux_off \subseteq trees'[tree].built.off]_vars
  BY <1>1
<1> QED
  BY <1>2, Invariance, PTL DEF Spec, SliceConfigured

\* The Dolphin whose tests a passing invocation ran is the pinned one, even if
\* extern/dolphin moved once meanwhile.
THEOREM DolphinIsPinned == Spec => DolphinAsPinned
<1>1. ASSUME IInv, [Next]_vars, Passes, gate.runtime, meddling.edits = 0
      PROVE  /\ meddling.moves <= 1 =>
                    trees'["dolphin-runtime"].built.dolphin = here.manifest.revision
             /\ meddling.moves = 0 =>
                    trees'["dolphin-adapter"].built.dolphin = here.manifest.revision
  <2>1. /\ Running /\ trees' = trees
        /\ gate.step = IF gate.runtime THEN 22 ELSE 11
    BY <1>1, PassesAt DEF IInv
  <2>2. gate.step = 22
    BY <1>1, <2>1
  <2>3. meddling.moves <= 1 => Revision("dolphin-runtime") = here.manifest.revision
    BY <1>1, <2>1, <2>2 DEF IInv, RuntimePinned
  <2>4. meddling.moves = 0 => Revision("dolphin-adapter") = here.manifest.revision
    BY <1>1, <2>1, <2>2 DEF IInv, AdapterPinned
  <2> QED BY <2>1, <2>3, <2>4 DEF Revision
<1>2. IInv /\ [Next]_vars =>
        [Passes /\ gate.runtime /\ meddling.edits = 0 =>
            LET Pinned(tree) == trees'[tree].built.dolphin = here.manifest.revision
            IN  /\ meddling.moves <= 1 => Pinned("dolphin-runtime")
                /\ meddling.moves = 0 => Pinned("dolphin-adapter")]_vars
  BY <1>1
<1> QED
  BY <1>2, Invariance, PTL DEF Spec, DolphinAsPinned

\* The structure check finds no diagnostics in a source under include/ or src/.
LEMMA QuietSource ==
    ASSUME TypeOK, check_structure(Sources, here.tools) = 0,
           NEW file \in here.files, Owner[file] \in {"include", "src"},
           Suffix[file] \in SOURCE_SUFFIXES, NEW token \in FORBIDDEN_PRODUCT_TEXT
    PROVE  ~Occurs(token, here.text[file])
<1>1. inspect_sources(collect_sources(Sources)) = {}
  BY DEF check_structure, Exit
<1> DEFINE source == [path |-> file, owner |-> Owner[file], suffix |-> Suffix[file],
                      lines |-> here.lines[file], text |-> here.text[file]]
<1>2. source \in collect_sources(Sources)
  BY DEF Sources, collect_sources
<1>3. ~(source.owner \in {"include", "src"} /\ Occurs(token, source.text))
  <2> SUFFICES ASSUME source.owner \in {"include", "src"}, Occurs(token, source.text)
               PROVE  FALSE
    OBVIOUS
  <2> HIDE DEF source
  <2>1. <<source, token>> \in inspect_sources(collect_sources(Sources))
    BY <1>2 DEF inspect_sources
  <2> QED BY <1>1, <2>1
<1> QED BY <1>3

\* The library and the headers of the repository that a passing invocation
\* installed hold no diagnostics, if everything under include/ and src/ has the
\* suffix of a source: the files it checked are those it built and copied.
THEOREM InstalledIsClean ==
    ASSUME \A file \in Files :
               Owner[file] \in {"include", "src"} => Suffix[file] \in SOURCE_SUFFIXES
    PROVE  Spec => InstalledIsQuiet
<1> DEFINE Quiet(content, file) ==
               \A token \in FORBIDDEN_PRODUCT_TEXT : ~Occurs(token, Content[content].text[file])
<1>1. ASSUME IInv, [Next]_vars, Passes, meddling.edits = 0
      PROVE  /\ \A file \in {f \in Content[installed'.build.checkout].files : Owner[f] = "src"} :
                    Quiet(installed'.build.checkout, file)
             /\ \A file \in Headers \cap here.files : Quiet(installed'.headers[file], file)
  <2>1. /\ Running /\ trees' = trees /\ installed' = installed
        /\ gate.step = IF gate.runtime THEN 22 ELSE 11
    BY <1>1, PassesAt DEF IInv
  <2>2. gate.step > 9 /\ gate.step > BuildStep("verify") /\ "verify" \in Trees
    BY <1>1, <2>1 DEF BuildStep, Trees
  <2>3. /\ installed'.build.checkout = checkout
        /\ \A file \in Headers \cap here.files : installed'.headers[file] = checkout
    BY <1>1, <2>1, <2>2 DEF IInv, BuiltNow, InstalledNow
  <2>4. TypeOK /\ check_structure(Sources, here.tools) = 0
    BY <1>1, <2>1, <2>2 DEF IInv, StructureChecked
  <2>5. ASSUME NEW file \in here.files, Owner[file] \in {"include", "src"}
        PROVE  Quiet(checkout, file)
    <3>1. Suffix[file] \in SOURCE_SUFFIXES
      BY <2>4, <2>5, HereTyped
    <3> QED BY <2>4, <2>5, <3>1, QuietSource DEF here
  <2> HIDE DEF Quiet
  <2> QED BY <2>3, <2>5 DEF Headers, here
<1>2. IInv /\ [Next]_vars =>
        [Passes /\ meddling.edits = 0 =>
            LET sources == {file \in Content[installed'.build.checkout].files :
                               Owner[file] = "src"}
            IN  /\ \A file \in sources : Quiet(installed'.build.checkout, file)
                /\ \A file \in Headers \cap here.files : Quiet(installed'.headers[file], file)]_vars
  BY <1>1
<1> QED
  BY <1>2, Invariance, PTL DEF Spec, InstalledIsQuiet

\* No unit is linted by neither gate or by both, in an invocation during which
\* the repository is edited once at most.
THEOREM LintedOnce == Spec => EveryUnitLinted
<1>1. ASSUME IInv, [Next]_vars, Passes, NEW unit \in TranslationUnits
      PROVE  LET linters == {tree \in Trees : <<unit, tree>> \in evidence'.linted}
             IN  /\ "verify" \in linters => unit \in trees["verify"].database
                 /\ meddling.edits <= 1 /\ unit \in Stable
                    /\ (gate.runtime \/ unit \notin DOLPHIN_DEPENDENT_SOURCES)
                        => Cardinality(linters) = 1
  <2> DEFINE linters == {tree \in Trees : <<unit, tree>> \in evidence'.linted}
             deferred == unit \in DOLPHIN_DEPENDENT_SOURCES
  <2>1. /\ Running /\ Work /\ ~Raises /\ gate.runtime \in BOOLEAN
        /\ gate.step = IF gate.runtime THEN 22 ELSE 11
    BY <1>1, PassesAt DEF IInv
  <2>2. LintEffect
    BY <1>1, <2>1, EvidenceEffects DEF IInv
  <2>3. /\ gate.step <= 11 => evidence.linted = {}
        /\ evidence.linted \subseteq
               (trees["verify"].database \ DOLPHIN_DEPENDENT_SOURCES) \X {"verify"}
    BY <1>1, <2>1 DEF IInv, LintersKnown
  <2>4. "verify" \in Trees /\ "dolphin-adapter" \in Trees /\ "verify" # "dolphin-adapter"
    BY DEF Trees
  <2>5. CASE ~gate.runtime
    <3>1. evidence'.linted = OwnUnits(gate.listed) \X {"verify"} /\ Unlinted(gate.listed) = {}
      BY <2>1, <2>2, <2>3, <2>5 DEF LintEffect
    <3>2. linters = IF unit \in OwnUnits(gate.listed) THEN {"verify"} ELSE {}
      BY <2>4, <3>1
    <3>3. unit \in OwnUnits(gate.listed) => unit \in trees["verify"].database
      BY <3>1 DEF Unlinted, Compiled
    <3>4. meddling.edits <= 1 /\ unit \in Stable /\ ~deferred => unit \in OwnUnits(gate.listed)
      BY <1>1, <2>1, <2>5 DEF IInv, FilesKnown, OwnUnits
    <3>5. meddling.edits <= 1 /\ unit \in Stable /\ ~deferred => Cardinality(linters) = 1
      BY <3>2, <3>4, FS_Singleton
    <3> QED BY <2>5, <3>2, <3>3, <3>5
  <2>6. CASE gate.runtime
    <3>1. evidence'.linted = evidence.linted \cup (AdapterUnits \X {"dolphin-adapter"})
      BY <2>1, <2>2, <2>6 DEF LintEffect
    <3>2. "verify" \in linters => unit \in trees["verify"].database /\ ~deferred
      BY <2>3, <2>4, <3>1
    <3>3. meddling.edits <= 1 /\ unit \in Stable /\ ~deferred => linters = {"verify"}
      <4> SUFFICES ASSUME meddling.edits <= 1, unit \in Stable, ~deferred
                   PROVE  linters = {"verify"}
        OBVIOUS
      <4>1. OwnStable \X {"verify"} \subseteq evidence.linted
        BY <1>1, <2>1, <2>6 DEF IInv, OwnLinted
      <4> QED BY <2>3, <2>4, <3>1, <4>1 DEF OwnStable, AdapterUnits
    <3>4. deferred => linters = {"dolphin-adapter"}
      BY <2>3, <2>4, <3>1 DEF AdapterUnits
    <3>5. meddling.edits <= 1 /\ unit \in Stable => Cardinality(linters) = 1
      BY <3>3, <3>4, FS_Singleton
    <3> QED BY <3>2, <3>5
  <2> QED BY <2>1, <2>5, <2>6
<1>2. IInv /\ [Next]_vars =>
        [Passes =>
            \A unit \in TranslationUnits :
                LET linters == {tree \in Trees : <<unit, tree>> \in evidence'.linted}
                IN  /\ "verify" \in linters => unit \in trees["verify"].database
                    /\ meddling.edits <= 1 /\ unit \in Stable
                       /\ (gate.runtime \/ unit \notin DOLPHIN_DEPENDENT_SOURCES)
                           => Cardinality(linters) = 1]_vars
  BY <1>1
<1> QED
  BY <1>2, Invariance, PTL DEF Spec, EveryUnitLinted

\* Every unit CMake can compile and the gate does not defer is linted: "A
\* translation unit that is neither in the compile database nor named here is a
\* coverage gap" (adapter_sources.py:6-8), and so is one in the database that
\* nobody gives to the linter.
NoUnitUnlinted ==
    [][Passes /\ meddling.edits = 0 =>
        \A unit \in here.files \cap CompilableUnits :
            \/ unit \in DOLPHIN_DEPENDENT_SOURCES
            \/ <<unit, "verify">> \in evidence'.linted]_vars

\* That is so if every unit of every content is a .cpp, as it is today: only these
\* does collect_translation_units give to the linter (project_verifier.py:104).
\* Nothing else is between the gates and the gap, whatever is in the trees, fails,
\* or is called.
THEOREM SuffixDecides ==
    ASSUME \A c \in Checkouts : Content[c].files \cap CompilableUnits \subseteq TranslationUnits
    PROVE  Spec => NoUnitUnlinted
<1>1. ASSUME IInv, [Next]_vars, Passes, meddling.edits = 0,
             NEW unit \in here.files \cap CompilableUnits, unit \notin DOLPHIN_DEPENDENT_SOURCES
      PROVE  <<unit, "verify">> \in evidence'.linted
  <2>1. /\ Running /\ Work /\ ~Raises /\ gate.runtime \in BOOLEAN
        /\ gate.step = IF gate.runtime THEN 22 ELSE 11
    BY <1>1, PassesAt DEF IInv
  <2>2. LintEffect
    BY <1>1, <2>1, EvidenceEffects DEF IInv
  <2>3. checkout \in Checkouts /\ meddling.began = checkout
    BY <1>1, <2>1 DEF IInv, TypeOK, BeganHere
  <2>4. unit \in TranslationUnits /\ unit \in Stable
    BY <1>1, <2>3 DEF Stable, here
  <2>5. CASE ~gate.runtime
    <3>1. unit \in gate.listed
      BY <1>1, <2>1, <2>4, <2>5 DEF IInv, FilesKnown
    <3> QED BY <1>1, <2>1, <2>2, <2>4, <2>5, <3>1 DEF LintEffect, OwnUnits
  <2>6. CASE gate.runtime
    <3>1. OwnStable \X {"verify"} \subseteq evidence.linted
      BY <1>1, <2>1, <2>6 DEF IInv, OwnLinted
    <3>2. unit \in OwnStable
      BY <1>1, <2>4 DEF OwnStable
    <3> QED BY <2>1, <2>2, <2>6, <3>1, <3>2 DEF LintEffect
  <2> QED BY <2>1, <2>5, <2>6
<1>2. IInv /\ [Next]_vars =>
        [Passes /\ meddling.edits = 0 =>
            \A unit \in here.files \cap CompilableUnits :
                \/ unit \in DOLPHIN_DEPENDENT_SOURCES
                \/ <<unit, "verify">> \in evidence'.linted]_vars
  BY <1>1
<1> QED
  BY <1>2, Invariance, PTL DEF Spec, NoUnitUnlinted

\* The tests of its own that a passing invocation must have run, it ran, although
\* the repository is edited once while it runs; and the test of the adapter, if no
\* other is deferred.
THEOREM TestsAllRan ==
    ASSUME NEW adapter_test, DOLPHIN_DEPENDENT_SOURCES \cap TestUnits \subseteq {adapter_test},
           \A c \in Checkouts : Content[c].adapter \cap TestUnits \subseteq {adapter_test}
    PROVE  Spec => EveryTestRan
<1>1. ASSUME IInv, [Next]_vars, Passes, meddling.edits <= 1,
             NEW unit \in Stable \cap TestUnits,
             gate.runtime \/ unit \notin DOLPHIN_DEPENDENT_SOURCES
      PROVE  unit \in evidence'.ran
  <2>1. /\ Running /\ Work /\ ~Raises /\ gate.runtime \in BOOLEAN
        /\ gate.step = IF gate.runtime THEN 22 ELSE 11
    BY <1>1, PassesAt DEF IInv
  <2>2. evidence'.ran = evidence.ran /\ LintEffect
    <3>1. RanEffect /\ LintEffect
      BY <1>1, <2>1, EvidenceEffects DEF IInv
    <3> QED BY <2>1, <3>1 DEF RanEffect
  <2>3. CASE unit \in DOLPHIN_DEPENDENT_SOURCES
    <3>1. gate.step = 22
      BY <1>1, <2>1, <2>3
    <3>2. Selected("dolphin-adapter") # {} /\ Selected("dolphin-adapter") \subseteq evidence.ran
      BY <1>1, <2>1, <3>1 DEF IInv, AdapterHasTest, TestsRan
    <3>3. trees["dolphin-adapter"].built.checkout \in Checkouts
      <4>1. trees["dolphin-adapter"].built \in Builds
        BY <1>1, <2>1, <3>1 DEF IInv, BuiltNow, BuildStep, Trees
      <4> QED BY <4>1 DEF Builds
    <3>4. Selected("dolphin-adapter") \subseteq {adapter_test}
      BY <3>3 DEF Selected
    <3>5. unit = adapter_test
      BY <2>3
    <3> QED BY <2>2, <3>2, <3>4, <3>5
  <2>4. CASE unit \notin DOLPHIN_DEPENDENT_SOURCES
    <3>1. unit \in trees["verify"].database
      <4>1. unit \in OwnStable
        BY <2>4 DEF OwnStable, Stable, TestUnits
      <4>2. CASE gate.step = 11
        <5>1. unit \in OwnUnits(gate.listed)
          BY <1>1, <2>1, <2>4, <4>2 DEF IInv, FilesKnown, OwnUnits, TestUnits
        <5> QED BY <2>2, <4>2, <5>1 DEF LintEffect, Unlinted, Compiled
      <4>3. CASE gate.step = 22
        <5>1. <<unit, "verify">> \in evidence.linted
          BY <1>1, <2>1, <4>1, <4>3 DEF IInv, OwnLinted
        <5> QED BY <1>1, <2>1, <5>1 DEF IInv, LintersKnown
      <4> QED BY <2>1, <4>2, <4>3
    <3>2. trees["verify"].database
              \subseteq Content[trees["verify"].built.checkout].gcnport
      BY <1>1, <2>1 DEF IInv, DatabaseNow
    <3>3. unit \in Selected("verify")
      BY <3>1, <3>2 DEF Selected
    <3>4. Selected("verify") \subseteq evidence.ran
      BY <1>1, <2>1 DEF IInv, TestsRan
    <3> QED BY <2>2, <3>3, <3>4
  <2> QED BY <2>3, <2>4
<1>2. IInv /\ [Next]_vars =>
        [Passes /\ meddling.edits <= 1 =>
            \A unit \in Stable \cap TestUnits :
                gate.runtime \/ unit \notin DOLPHIN_DEPENDENT_SOURCES
                    => unit \in evidence'.ran]_vars
  BY <1>1
<1> QED
  BY <1>2, Invariance, PTL DEF Spec, EveryTestRan

\* The library a passing invocation installed is the one it tested, and the
\* headers are those it was built with if nobody edits the repository meanwhile, if
\* no content of the repository is without a test of its own.
THEOREM TestedIsInstalled ==
    ASSUME \A c \in Checkouts :
               (Content[c].files \cap TestUnits) \ DOLPHIN_DEPENDENT_SOURCES # {}
    PROVE  Spec => InstalledIsTested
<1>1. ASSUME IInv, [Next]_vars, Passes
      PROVE  /\ installed'.build = trees'["verify"].built /\ installed'.build.tested
             /\ meddling.edits = 0 =>
                  \A file \in Headers \cap here.files :
                      installed'.headers[file] = installed'.build.checkout
  <2>1. /\ Running /\ Work /\ ~Raises /\ trees' = trees /\ installed' = installed
        /\ gate.runtime \in BOOLEAN /\ gate.step = IF gate.runtime THEN 22 ELSE 11
    BY <1>1, PassesAt DEF IInv
  <2>2. \E c \in Checkouts :
           (Content[c].files \cap TranslationUnits) \ DOLPHIN_DEPENDENT_SOURCES
               \subseteq trees["verify"].database
    <3>1. CASE gate.step = 11
      <4>1. Unlinted(gate.listed) = {}
        BY <1>1, <2>1, <3>1, EvidenceEffects DEF IInv, LintEffect
      <4> QED BY <1>1, <2>1, <3>1, <4>1, OwnCompiledNow DEF IInv
    <3>2. CASE gate.step = 22
      BY <1>1, <2>1, <3>2 DEF IInv, OwnCompiled
    <3> QED BY <2>1, <3>1, <3>2
  <2>3. trees["verify"].database \cap TestUnits # {}
    BY <2>2 DEF TestUnits
  <2>4. trees["verify"].database
            \subseteq Content[trees["verify"].built.checkout].gcnport
    BY <1>1, <2>1 DEF IInv, DatabaseNow
  <2>5. Selected("verify") # {}
    BY <2>3, <2>4 DEF Selected
  <2>6. trees["verify"].built.tested = (Selected("verify") # {})
    BY <1>1, <2>1 DEF IInv, TestsRan
  <2>7. /\ installed.build = trees["verify"].built
        /\ meddling.edits = 0 =>
             \A file \in Headers \cap here.files : installed.headers[file] = checkout
    BY <1>1, <2>1 DEF IInv, InstalledNow
  <2>8. meddling.edits = 0 => trees["verify"].built.checkout = checkout
    BY <1>1, <2>1 DEF IInv, BuiltNow, BuildStep, Trees
  <2> QED BY <2>1, <2>5, <2>6, <2>7, <2>8
<1>2. IInv /\ [Next]_vars =>
        [Passes =>
            /\ installed'.build = trees'["verify"].built /\ installed'.build.tested
            /\ meddling.edits = 0 =>
                 \A file \in Headers \cap here.files :
                     installed'.headers[file] = installed'.build.checkout]_vars
  BY <1>1
<1> QED
  BY <1>2, Invariance, PTL DEF Spec, InstalledIsTested

\* Each test that the host requires ran once and passed, however its binary
\* was sharded, repeated or cut short, and even if what its tests print hides the
\* line of a result.
THEOREM RequiredPassed == Spec => RequiredTestsPassed
<1>1. ASSUME IInv, [Next]_vars, Passes, gate.runtime
      PROVE  evidence'.passing = required_tests(host)
  <2>1. Running /\ Work /\ ~Raises /\ gate.step = 22
    BY <1>1, PassesAt DEF IInv
  <2>2. PassEffect
    BY <1>1, <2>1, EvidenceEffects DEF IInv
  <2> QED BY <1>1, <2>1, <2>2 DEF IInv, PassEffect, PassedRequired
<1>2. IInv /\ [Next]_vars =>
        [Passes /\ gate.runtime => evidence'.passing = required_tests(host)]_vars
  BY <1>1
<1> QED
  BY <1>2, Invariance, PTL DEF Spec, RequiredTestsPassed
================================================================================
