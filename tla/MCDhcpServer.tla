---------------------------- MODULE MCDhcpServer ----------------------------
(***************************************************************************)
(* A subnet with five host numbers below the broadcast address, one of     *)
(* them the gateway and one the relay; consoles compete for two addresses  *)
(* and two lease slots.  A console that discovery pins is at an address of *)
(* the pool or beyond it.  The relay's own is left out: dhcp_pick_ip picks *)
(* with it as it does while no console is pinned.                          *)
(***************************************************************************)
EXTENDS DhcpServer, TLC

MCHeardSets == {{}, {self}}

\* The consoles are interchangeable.
MCSymmetry == Permutations(Clients)
=============================================================================
