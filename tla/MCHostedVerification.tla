-------------------------- MODULE MCHostedVerification --------------------------
(***************************************************************************)
(* An instance of HostedVerification for TLC: the labels of the workflow,  *)
(* three of which the service may point to another machine, the workflow   *)
(* as it is and five edits of it.                                          *)
(***************************************************************************)
EXTENDS HostedVerification

MCLabels == {entry[1] : entry \in RUNNERS}

Host(os, arch) == [os |-> os, arch |-> arch, path |-> QualityTools, brew |-> {}]

\* A label stands for the host its entry names, or for another machine.
MCImages ==
    [label \in MCLabels |->
        LET entry == CHOOSE e \in RUNNERS : e[1] = label
            other == CASE label = "macos-15-intel" -> {Host("macos", "arm64")}
                       [] label = "ubuntu-26.04-arm" -> {Host("linux", "x64")}
                       [] label = "windows-2022" -> {Host("windows", "arm64")}
                       [] OTHER -> {}
        IN  {Host(entry[2], entry[3])} \cup other]

\* An entry that contradicts the host its label stands for.
Mislabelled == <<"ubuntu-26.04-arm", "linux", "x64">>
MCEntries == RUNNERS \cup {Mislabelled}

MCWorkflows ==
    {CompleteWorkflow,
     [CompleteWorkflow EXCEPT !.matrix = (@ \ {<<"ubuntu-26.04-arm", "linux", "arm64">>})
                                            \cup {Mislabelled}],
     [CompleteWorkflow EXCEPT !.matrix = @ \ {<<"windows-2022", "windows", "x64">>}],
     [CompleteWorkflow EXCEPT !.settings = @ \cup {"continue-on-error"}],
     [CompleteWorkflow EXCEPT !.settings = @ \ {"--expected-arch"}],
     [CompleteWorkflow EXCEPT !.settings = @ \ {"tools/verify.py --runtime"}]}

MCWithin == {<<"printf(", "fprintf(stderr">>}
=============================================================================
