----------------------------- MODULE MCFrontend -----------------------------
(***************************************************************************)
(* A small instance of Frontend.                                           *)
(***************************************************************************)
EXTENDS Frontend

CONSTANTS v1, v2, k0, k1, k2, h1, h2, x1, x2, u1, u2

MCVk == {v1, v2}
MCPk == {k0, k1, k2}
MCAddr == {x1, x2, u1, u2}
NetX == {x1, x2}
NetUla == {u1, u2}
MCSubnet == {NetX, NetUla}
MCDomain == {{h1, h2}}
DefPrefs ==
    [pin_new_peers |-> FALSE, subnets_allowed |-> MCSubnet,
     local_domains |-> MCDomain]

Desc(v, k, h, a, p, t) ==
    [vk |-> v, pk |-> k, host |-> h, addrs |-> {a}, p |-> p, vf |-> t,
     e |-> FALSE]

\* v1 renames itself; v2 claims its old name.
MCDescs ==
    {Desc(v1, k1, h1, x1, u1, 1), Desc(v1, k1, h2, x1, u1, 2),
     Desc(v2, k2, h1, x2, u2, 1)}

MCSysStates == {[current_subnets |-> MCSubnet, gateways |-> {}]}
=============================================================================
