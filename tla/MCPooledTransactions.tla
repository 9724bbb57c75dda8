-------------------------- MODULE MCPooledTransactions --------------------------
(* Instances of PooledTransactions for TLC: who does what to which row. *)
EXTENDS PooledTransactions, TLC

CONSTANTS r1, r2, r3, r4, c1, c2, c3, w1, w2

\* Four requests of four kinds on one contended row; the part that is deleted with its
\* device is the row the others write.
MixedWork == r1 :> "removal" @@ r2 :> "pooled" @@ r3 :> "client" @@ r4 :> "created"
MixedTarget == r1 :> w2 @@ r2 :> w1 @@ r3 :> w1 @@ r4 :> w1
MixedPart == r1 :> w1 @@ r2 :> w1 @@ r3 :> w1 @@ r4 :> w1

\* A reset and a start of the same run.
ResetWork == r1 :> "reset" @@ r2 :> "pooled"
ResetTarget == r1 :> w1 @@ r2 :> w1
================================================================================
