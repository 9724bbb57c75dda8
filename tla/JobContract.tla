------------------------------- MODULE JobContract -------------------------------
(***************************************************************************)
(* What a queue table of mediator-service promises of its jobs, whatever   *)
(* the workers do: a job waits, is held by a worker, may be given back,    *)
(* and ends; an ended job never comes back, and no job waits for ever.     *)
(***************************************************************************)
CONSTANT Jobs

VARIABLE job

States == {"none", "waiting", "held", "ended"}

Init == job = [j \in Jobs |-> "none"]

Change(S, from, to) ==
  /\ \A j \in S : job[j] \in from
  /\ job' = [j \in Jobs |-> IF j \in S THEN to ELSE job[j]]

Enqueue(j)  == Change({j}, {"none"}, "waiting")
\* One statement may claim several jobs, and give several back.
Claim(S)    == Change(S, {"waiting"}, "held")
GiveBack(S) == Change(S, {"held"}, "waiting")
\* A late outcome ends a job that was given back meanwhile, too.
End(j)      == Change({j}, {"waiting", "held"}, "ended")

Next == \/ \E j \in Jobs : Enqueue(j) \/ End(j)
        \/ \E S \in SUBSET Jobs : Claim(S) \/ GiveBack(S)

Safe == Init /\ [][Next]_job

Answered == \A j \in Jobs : job[j] = "waiting" ~> job[j] = "ended"

Spec == Safe /\ Answered
================================================================================
