-------------------------------- MODULE Clock --------------------------------
(***************************************************************************)
(* The clock that arp.c and dhcp-server.c read.  Those who extend this     *)
(* module say when it advances.                                            *)
(***************************************************************************)
EXTENDS Integers

CONSTANTS
    MaxTime     \* bound: the last second that is explored

ASSUME MaxTimeAssumption == MaxTime \in Nat

VARIABLES
    now         \* time(NULL)
=============================================================================
