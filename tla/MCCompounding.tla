--------------------------- MODULE MCCompounding ---------------------------
(***************************************************************************)
(* Small instances of Compounding for TLC.                                 *)
(***************************************************************************)
EXTENDS Compounding

\* Run ids, worker handles, signals and contents are only ever compared.
Symmetry == Permutations(Runs) \cup Permutations(Workers)
                \cup Permutations(Signals) \cup Permutations(Contents)

NoInputs == {NoSelection}
AnyInputs == Selections

Completed == {"completed"}
Classified == {"completed", "failed"}
AnyReport == Completions \cup {None}

Prompt == [mode |-> "prompt", interval_seconds |-> 2, retry_seconds |-> 1]
Patient == [mode |-> "prompt", interval_seconds |-> 3, retry_seconds |-> 2]
Manual == [mode |-> "manual", interval_seconds |-> 1, retry_seconds |-> 1]

NoTriggers == {}
OnePrompt == {Prompt}
PromptOrManual == {Prompt, Manual}
TwoPrompts == {Prompt, Patient}
=============================================================================
