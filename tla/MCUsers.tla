------------------------------- MODULE MCUsers -------------------------------
(***************************************************************************)
(* Small instances of Users: the quotas that clients send.                 *)
(***************************************************************************)
EXTENDS Users, TLC

Amounts(cpu, disk) == [d \in Dim |-> IF d = "cpu" THEN cpu ELSE disk]

\* Quotas of CPU and requests for storage: a review must leave the CPU alone.
MCBodies == {Amounts(1, 0)}
MCWants == {Amounts(0, 1)}

MCSymmetry == Permutations(Session)
=============================================================================
