------------------------------- MODULE MCQuotas -------------------------------
(***************************************************************************)
(* A small instance of Quotas.                                             *)
(***************************************************************************)
EXTENDS Quotas, TLC

\* A small service, one that may grow to the whole quota, one that takes all of
\* it, and one that may outgrow it.
MCRequests == {[n |-> 1, cpu |-> 1, max |-> 1, auto |-> FALSE],
               [n |-> 1, cpu |-> 1, max |-> 2, auto |-> TRUE],
               [n |-> 1, cpu |-> 2, max |-> 1, auto |-> FALSE],
               [n |-> 1, cpu |-> 2, max |-> 2, auto |-> TRUE]}

\* Requests are interchangeable, and so are the services.
MCSymmetry == Permutations(Proc) \cup Permutations(Service)
=============================================================================
