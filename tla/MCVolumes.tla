------------------------------ MODULE MCVolumes ------------------------------
(***************************************************************************)
(* Small instances of Volumes: the sessions' callers and the quotas.       *)
(***************************************************************************)
EXTENDS Volumes, TLC

CONSTANTS admin, ann, bob    \* sessions; a member has the name of the session

MCCaller == [p \in Session |-> IF p = admin THEN NoOwner ELSE p]
MCQuota == [m \in Member |-> 1]

\* Volumes of one host are alike.
MCSymmetry == Permutations(Volume)
=============================================================================
