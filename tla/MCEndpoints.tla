----------------------------- MODULE MCEndpoints -----------------------------
(***************************************************************************)
(* Small instances of Endpoints: requests, hosts and keys are alike.        *)
(***************************************************************************)
EXTENDS Endpoints, TLC

MCSymmetry == Permutations(Proc) \cup Permutations(Host) \cup Permutations(Cert)
=============================================================================
