------------------------------ MODULE MCTunnels ------------------------------
(***************************************************************************)
(* Small instances of Tunnels: two tunnels bind the same remote port.      *)
(***************************************************************************)
EXTENDS Tunnels

MCAddress == [t \in Tunnel |-> "vm:80"]
=============================================================================
