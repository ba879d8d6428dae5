------------------------- MODULE MCSwitchDiscovery --------------------------
(***************************************************************************)
(* The real ranges and the real pause, and consoles at their ends and at   *)
(* the relay's own host number in the other subnet.                        *)
(***************************************************************************)
EXTENDS SwitchDiscovery

MCConsoles ==
    {<<"wifi", 2>>, <<"wifi", 254>>, <<"zerotier", 2>>, <<"zerotier", 77>>,
     <<"zerotier", 254>>}
=============================================================================
