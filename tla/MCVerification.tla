---------------------------- MODULE MCVerification ----------------------------
(***************************************************************************)
(* A small instance of Verification.                                       *)
(***************************************************************************)
EXTENDS Verification

CONSTANTS v1, v2, v3, k0, k1, k2, k3, h1, x1, x2, x3, u1, u2, u3

MCVk == {v1, v2, v3}
MCIdentity == {v1, v2}
MCPk == {k0, k1, k2, k3}
MCAddr == {x1, x2, x3, u1, u2, u3}
NetX == {x1, x2, x3}
NetUla == {u1, u2, u3}
MCSubnet == {NetX, NetUla}
MCDomain == {{h1}}
DefPrefs ==
    [pin_new_peers |-> FALSE, subnets_allowed |-> MCSubnet,
     local_domains |-> MCDomain]

Desc(v, k, h, as, p, t) ==
    [vk |-> v, pk |-> k, host |-> h, addrs |-> as, p |-> p, vf |-> t,
     e |-> FALSE]

\* The host with its first and with its second keys, and another host that
\* has the same name.
MCDescs ==
    {Desc(v1, k1, h1, {x1}, u1, 1), Desc(v2, k2, h1, {x1}, u2, 1),
     Desc(v3, k3, h1, {x3}, u3, 1)}

MCSysStates == {[current_subnets |-> {NetX, NetUla}, gateways |-> {}]}
=============================================================================
