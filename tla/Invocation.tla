------------------------------- MODULE Invocation -------------------------------
(***************************************************************************)
(* What the run orchestration assumes of one invocation of the item flow:  *)
(* it stores at most one result, answers once, says ok only for a stored   *)
(* result, and does answer.                                                *)
(***************************************************************************)
VARIABLE phase

Init == phase = "working"

Step(from, to) == phase = from /\ phase' = to

Store    == Step("working", "stored")
Succeed  == Step("stored", "ok")
Fail     == Step("working", "failed")
FailLate == Step("stored", "stored but failed")   \* marking the request fails

Next == Store \/ Succeed \/ Fail \/ FailLate

Safe == Init /\ [][Next]_phase

Answers == <>(phase \in {"ok", "failed", "stored but failed"})

Spec == Safe /\ Answers
================================================================================
