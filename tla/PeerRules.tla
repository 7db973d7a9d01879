------------------------------ MODULE PeerRules ------------------------------
(***************************************************************************)
(* The rules vula applies to its table of peers, as operators without      *)
(* state: the descriptor and peer records (peer.py), the look-ups and the  *)
(* conflict detection of the class Peers (peer.py), and the part of        *)
(* OrganizeState that recomputes one peer, _update_peer (organize.py).     *)
(*                                                                         *)
(* A subnet is the set of addresses in it and a domain is the set of host  *)
(* names that end in it, so "any(a in s for s in subnets)" is membership   *)
(* in UNION subnets.  The code keeps the IPv4 and the IPv6 addresses of a  *)
(* peer in two dictionaries from address to Boolean that it always treats  *)
(* alike; here they are the sets `on' and `off' of the keys whose value is *)
(* True and False.  The dictionary of nicknames is `names' and `hidden'.   *)
(***************************************************************************)
EXTENDS Naturals, FiniteSets

CONSTANTS
    Vk,        \* verify keys: the identities of peers
    Pk,        \* WireGuard public keys
    OurPk,     \* the WireGuard public key of this host
    Host,      \* host names
    Addr,      \* IP addresses
    Subnet,    \* the subnets that occur, each a set of addresses
    VulaUla,   \* the subnet _VULA_ULA_SUBNET of constants.py
    Ula,       \* the addresses in _IPv6_ULA of constants.py
    Domain,    \* the domains that occur, each a set of host names
    Descs,     \* the descriptors that the network may deliver
    NoPeer,    \* what the table holds for a key it does not know
    NoName     \* the empty petname

Descriptor ==
    [vk : Vk, pk : Pk, host : Host, addrs : SUBSET Addr, p : Addr,
     vf : Nat, e : BOOLEAN]

Peer ==
    [desc : Descs, petname : Host \cup {NoName},
     names : SUBSET Host, hidden : SUBSET Host,
     on : SUBSET Addr, off : SUBSET Addr,
     enabled : BOOLEAN, verified : BOOLEAN, pinned : BOOLEAN,
     use_as_gateway : BOOLEAN]

Peers == [Vk -> Peer \cup {NoPeer}]

SystemState == [current_subnets : SUBSET Subnet, gateways : SUBSET Addr]

Prefs ==
    [pin_new_peers : BOOLEAN, subnets_allowed : SUBSET Subnet,
     local_domains : SUBSET Domain]

ASSUME ConstantTypes ==
    /\ OurPk \in Pk
    /\ Subnet \subseteq SUBSET Addr
    /\ VulaUla \in Subnet
    /\ Ula \subseteq Addr
    /\ Domain \subseteq SUBSET Host
    /\ Descs \subseteq Descriptor

ASSUME NullValues ==
    /\ NoPeer \notin Peer
    /\ NoName \notin Host

-----------------------------------------------------------------------------
(* SystemState and Prefs *)

\* The addresses that are local: those in a subnet this host has an address
\* in, the subnet of vula's own addresses excepted.
Local(s) == UNION (s.current_subnets \ {VulaUla})

Allowed(prefs) == UNION prefs.subnets_allowed

InLocalDomain(h, prefs) == h \in UNION prefs.local_domains

-----------------------------------------------------------------------------
(* Peer and Descriptor *)

EnabledNames(q) == q.names \cup ({q.petname} \ {NoName})

EnabledIps(q) == {q.desc.p} \cup q.on

MakePeer(d, pinned) ==
    [desc |-> d, petname |-> NoName, names |-> {d.host}, hidden |-> {},
     on |-> d.addrs, off |-> {}, enabled |-> TRUE, verified |-> FALSE,
     pinned |-> pinned, use_as_gateway |-> FALSE]

-----------------------------------------------------------------------------
(* Peers *)

Known(ps) == {v \in Vk : ps[v] # NoPeer}

Enabled(ps) == {v \in Known(ps) : ps[v].enabled}

FlaggedAsGateway(ps) == {v \in Known(ps) : ps[v].use_as_gateway}

WithHostname(ps, h) == {v \in Enabled(ps) : h \in ps[v].names}

\* enabled_ips is a list that starts with the primary address: a peer that
\* has its primary address among its other addresses too is listed twice.
WithIp(ps, a) ==
    {<<v, "primary">> : v \in {u \in Enabled(ps) : ps[u].desc.p = a}}
        \cup {<<v, "addrs">> : v \in {u \in Enabled(ps) : a \in ps[u].on}}

\* Mutant: two enabled peers may have an address in common.
ConflictsIgnoringAddrs(ps, d) ==
    {v \in Enabled(ps) \ {d.vk} :
        d.host \in EnabledNames(ps[v]) \/ d.pk = ps[v].desc.pk}

ConflictsForDescriptor(ps, d) ==
    {v \in Enabled(ps) \ {d.vk} :
        \/ d.host \in EnabledNames(ps[v])
        \/ d.pk = ps[v].desc.pk
        \/ d.addrs \cap ps[v].on # {}}

EnabledGateways(ps) == Enabled(ps) \cap FlaggedAsGateway(ps)

Conflicts(ps) ==
    {v \in Enabled(ps) : ConflictsForDescriptor(ps, ps[v].desc) # {}}
        \cup {v \in EnabledGateways(ps) :
                \E u \in EnabledGateways(ps) : u # v}

\* The hits of a query by verify key, or else by name, or else by address,
\* with the multiplicity that query() counts.
Query(ps, key) ==
    LET byName == {<<v, "name">> : v \in {u \in Enabled(ps) :
                                            key \in EnabledNames(ps[u])}}
    IN  IF key \in Known(ps) THEN {<<key, "id">>}
        ELSE IF byName # {} THEN byName
        ELSE WithIp(ps, key)

-----------------------------------------------------------------------------
(* _update_peer *)

\* Mutant: the addresses need not be local.
UsableAnywhere(q, prefs, local) ==
    IF q.pinned THEN q.desc.addrs \cup q.on \cup q.off
                ELSE q.desc.addrs \cap Allowed(prefs)

\* The addresses of peer q that are in use, and those that are listed but
\* not in use, when the local addresses are `local'.
UsableAddrs(q, prefs, local) ==
    IF q.pinned THEN q.desc.addrs \cup q.on \cup q.off
                ELSE q.desc.addrs \cap local \cap Allowed(prefs)

\* Mutant: the addresses in use are listed as not in use too.
UnusableTwice(q, prefs, local) == IF q.pinned THEN {} ELSE q.desc.addrs

UnusableAddrs(q, prefs, local) ==
    IF q.pinned THEN {} ELSE q.desc.addrs \ UsableAddrs(q, prefs, local)

\* _update_peer, for the peer record q the transaction has written so far.
\* The gateways are those of the committed system state, also when `local'
\* comes from a newer one.
UpdatePeer(q, prefs, local, gateways) ==
    IF UsableAddrs(q, prefs, local) = {} THEN NoPeer
    ELSE [q EXCEPT
            !.on = UsableAddrs(q, prefs, local),
            !.off = UnusableAddrs(q, prefs, local),
            !.names = IF /\ q.desc.host \notin q.names \cup q.hidden
                         /\ InLocalDomain(q.desc.host, prefs)
                      THEN @ \cup {q.desc.host} ELSE @,
            !.use_as_gateway =
                @ \/ q.desc.addrs \cap local \cap gateways # {}]
=============================================================================
