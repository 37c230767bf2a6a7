----------------------------- MODULE MCExecutor -----------------------------
(* Small instances of Executor.  The two workers are two callers in one    *)
(* process, or one caller in each of two processes.                        *)
EXTENDS Executor, TLC

CONSTANTS o1, o2, p1, p2, w1, w2, q1

OnePermit == [o \in Orders |-> p1]
OwnPermit == o1 :> p1 @@ o2 :> p2
OneProcess == [w \in Workers |-> q1]

Symmetry == Permutations(Workers)
SymmetryAll == Permutations(Workers) \cup Permutations(Orders)
=============================================================================
