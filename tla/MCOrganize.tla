----------------------------- MODULE MCOrganize -----------------------------
(***************************************************************************)
(* Small instances of OrganizeState.                                       *)
(***************************************************************************)
EXTENDS OrganizeState

CONSTANTS v1, v2, v3, k0, k1, k2, k3, h1, h2, x1, x2, y1, u1, u2, u3

TwoVk == {v1, v2}
ThreeVk == {v1, v2, v3}
MCPk == {k0, k1, k2, k3}
TwoHost == {h1, h2}
MCAddr == {x1, x2, y1, u1, u2, u3}
\* Two LANs and vula's own subnet.
NetX == {x1, x2}
NetY == {y1}
NetUla == {u1, u2, u3}
MCSubnet == {NetX, NetY, NetUla}
TwoDomain == {{h1, h2}}
DefPrefs ==
    [pin_new_peers |-> FALSE, subnets_allowed |-> MCSubnet,
     local_domains |-> Domain]

Desc(v, k, h, as, p, t, e) ==
    [vk |-> v, pk |-> k, host |-> h, addrs |-> as, p |-> p, vf |-> t, e |-> e]

\* v1 gets a second address in another LAN; v2 claims an address of v1.
RoamDescs ==
    {Desc(v1, k1, h1, {x1}, u1, 1, FALSE),
     Desc(v1, k1, h1, {x1, y1}, u1, 2, FALSE),
     Desc(v2, k2, h2, {x2}, u2, 1, FALSE),
     Desc(v2, k2, h2, {x1, x2}, u2, 1, TRUE),
     Desc(v2, k0, h2, {x2}, u2, 2, FALSE)}

\* v3 claims the name of v1 and the address of v2.
EvictDescs ==
    {Desc(v1, k1, h1, {x1}, u1, 1, FALSE),
     Desc(v2, k2, h2, {x2}, u2, 1, FALSE),
     Desc(v3, k3, h1, {x2}, u3, 1, FALSE),
     Desc(v3, k2, h1, {y1}, u3, 1, FALSE),
     Desc(v3, k1, h1, {x2, y1}, u3, 1, FALSE)}

\* Two peers that are never in conflict.
PlainDescs ==
    {Desc(v1, k1, h1, {x1}, u1, 1, FALSE),
     Desc(v2, k2, h2, {x2}, u2, 1, FALSE)}

Sys(nets, gws) == [current_subnets |-> nets \cup {NetUla}, gateways |-> gws]

RoamSysStates ==
    {Sys({NetX}, {}), Sys({NetX}, {x2}), Sys({NetX, NetY}, {y1}),
     Sys({NetY}, {y1})}
\* The default route moves from the one peer to the other, or disappears.
GatewaySysStates ==
    {Sys({NetX}, {}), Sys({NetX}, {x1}), Sys({NetX}, {x2})}
OneSysState == {Sys({NetX}, {})}

\* Without the edits of names, which MCFrontend explores.
UnnamedSpec == Init /\ [][NetworkStep \/ CommandStep]_vars
=============================================================================
