----------------------------- MODULE MCDiscovery -----------------------------
(***************************************************************************)
(* A small instance of Discovery.                                          *)
(***************************************************************************)
EXTENDS Discovery

CONSTANTS k0, k1, w0, w1

Zeros(n) == [i \in 1 .. n |-> 0]

\* 10.0.0.n, fe80::n, fdff::n and fd00::n
V4(n) == <<10, 0, 0, n>>
LL(n) == <<254, 128>> \o Zeros(13) \o <<n>>
VulaIp(n) == <<253, 255>> \o Zeros(13) \o <<n>>
V6(n) == <<253, 0>> \o Zeros(13) \o <<n>>

Key(k) == [id |-> k, len |-> 32]
MCOurKey == Key(k0)
MCOurPk == Key(w0)
MCPrimary == VulaIp(9)

\* A host that moves between a wired and a wireless network, or gets more
\* addresses than a DNS-SD record can hold.
ManyV6 == [n \in 1 .. 16 |-> V6(n)]
MCInterfaces ==
    {[i \in {"eth"} |-> <<V4(1), LL(1)>>],
     [i \in {"wlan"} |-> <<V4(3), V4(2)>>],
     [i \in {"eth", "wlan"} |-> IF i = "eth" THEN ManyV6 ELSE <<V4(3)>>]}
MCAllowed == {V4(1), V4(2), LL(1)} \cup {V6(n) : n \in 1 .. 16}

Remote(pk, v4a, v6a, port) ==
    [p |-> VulaIp(7), pk |-> pk, vk |-> Key(k1), port |-> port, v4a |-> v4a,
     v6a |-> v6a, vf |-> 1, r |-> <<>>]

Good == Sign(Remote(Key(w1), <<V4(7), V4(8)>>, <<LL(7), V6(7)>>, 5354), k1)
\* Signed with another key; with a WireGuard key of 31 bytes; our own.
BadlySigned == Sign(Remote(Key(w1), <<V4(7)>>, <<LL(7)>>, 1), k0)
ShortKey ==
    Sign(Remote([id |-> w1, len |-> 31], <<V4(7)>>, <<LL(7)>>, 1), k1)
Own == Sign(Remote(Key(w0), <<V4(7)>>, <<LL(7)>>, 1), k1)

MCAnnouncements == {Good, BadlySigned, ShortKey, Own}
=============================================================================
