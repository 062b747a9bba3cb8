--------------------------- MODULE MCProxyRegistry ---------------------------
(***************************************************************************)
(* Small instances of ProxyRegistry: the order of the service names and    *)
(* the subdomains.                                                         *)
(***************************************************************************)
EXTENDS ProxyRegistry, TLC

MCRank == [s \in Service |-> 1]

\* A custom subdomain that is the automatic host of service "api" on the local
\* host: the two kinds of hosts meet there, and only there.
MCSub == {<<"api", "local">>}

\* The requests are interchangeable; Main is not.
MCSymmetry == Permutations(Proc \ {Main})
=============================================================================
