------------------------------ MODULE MCDaemon ------------------------------
(***************************************************************************)
(* Small instances of OrganizeDaemon.                                      *)
(***************************************************************************)
EXTENDS MCOrganize, OrganizeDaemon

\* v2 takes the address of v1, and v1 changes its WireGuard key.
RivalDescs ==
    {Desc(v1, k1, h1, {x1}, u1, 1, FALSE),
     Desc(v1, k3, h1, {x1}, u1, 2, FALSE),
     Desc(v2, k2, h2, {x1, x2}, u2, 1, FALSE)}

\* One peer, in one LAN or in both.
LoneDescs ==
    {Desc(v1, k1, h1, {x1}, u1, 1, FALSE)}

\* The host is in the one LAN or in the other; there may be a gateway.
TwoNets == {Sys({NetX}, {}), Sys({NetY}, {})}
NetsAndGateway == {Sys({NetX}, {}), Sys({NetX}, {x1}), Sys({NetY}, {})}
=============================================================================
