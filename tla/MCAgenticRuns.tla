----------------------------- MODULE MCAgenticRuns -----------------------------
(* Instances of AgenticRuns for TLC. *)
EXTENDS AgenticRuns, TLC

\* Rows, tasks and handlers are interchangeable; used by the safety runs only.
Symmetry == Permutations(Items) \cup Permutations(Tasks) \cup Permutations(Handlers)

================================================================================
