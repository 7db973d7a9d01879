------------------------------- MODULE Kernel -------------------------------
(***************************************************************************)
(* What vula configures in the kernel, and the operations it does that     *)
(* with: the WireGuard interface (class Interface of wg.py) and the routes *)
(* (class Sys of sys_pyroute2.py).                                         *)
(*                                                                         *)
(* The kernel itself is external.  Its WireGuard device maps each allowed  *)
(* address to at most one peer: configuring an address for a peer takes it *)
(* away from the peer that had it.  Endpoints, ports and preshared keys    *)
(* are set together with the allowed addresses and are left out.           *)
(***************************************************************************)
EXTENDS PeerRules

CONSTANTS
    LinkLocal,  \* the link-local IPv6 addresses
    Default,    \* stands for 0.0.0.0/0 and ::/0 among the allowed addresses
    NoPk        \* no peer is allowed to use an address

ASSUME KernelTypes ==
    /\ LinkLocal \subseteq Addr
    /\ Default \notin Addr
    /\ NoPk \notin Pk

VARIABLES
    wg_peers,     \* the public keys configured on the interface
    allowed_ips,  \* for each address the key of the peer it is routed to
    wgi,          \* Interface.peers: the keys the last query() returned
    routes,       \* the destinations in vula's routing table
    gw_routes     \* whether the main table has the routes _GW_ROUTES

kernel == <<wg_peers, allowed_ips, routes, gw_routes>>
kvars == <<wg_peers, allowed_ips, wgi, routes, gw_routes>>

KernelTypeOK ==
    /\ wg_peers \subseteq Pk
    /\ allowed_ips \in [Addr \cup {Default} -> Pk \cup {NoPk}]
    /\ wgi \subseteq Pk
    /\ routes \subseteq Addr
    /\ gw_routes \in BOOLEAN

KernelInit ==
    /\ wg_peers = {}
    /\ allowed_ips = [a \in Addr \cup {Default} |-> NoPk]
    /\ wgi = {}
    /\ routes = {}
    /\ gw_routes = FALSE

-----------------------------------------------------------------------------
(* Peer.routes and Peer._wg_allowed_ips *)

Routes(q) == EnabledIps(q) \ LinkLocal

WgAllowedIps(q) ==
    Routes(q) \cup (IF q.use_as_gateway THEN {Default} ELSE {})

-----------------------------------------------------------------------------
(* Interface *)

\* query() refreshes the cached list of peers.
WgQuery ==
    /\ wgi' = wg_peers
    /\ UNCHANGED kernel

\* apply_peerconfig() queries and then sets what differs, so that the cached
\* list does not have the peer it adds.
ApplyPeerConfig(q) ==
    /\ wgi' = wg_peers
    /\ wg_peers' = wg_peers \cup {q.desc.pk}
    /\ allowed_ips' =
          [a \in Addr \cup {Default} |->
              IF a \in WgAllowedIps(q) THEN q.desc.pk
              ELSE IF allowed_ips[a] = q.desc.pk THEN NoPk
              ELSE allowed_ips[a]]
    /\ UNCHANGED <<routes, gw_routes>>

Unrouted(pks) ==
    [a \in Addr \cup {Default} |->
        IF allowed_ips[a] \in pks THEN NoPk ELSE allowed_ips[a]]

RemoveWgPeer(pk) ==
    /\ wgi' = wg_peers
    /\ wg_peers' = wg_peers \ {pk}
    /\ allowed_ips' = Unrouted({pk})
    /\ UNCHANGED <<routes, gw_routes>>

-----------------------------------------------------------------------------
(* Sys.  The routes to add or delete are listed first; the netlink request   *)
(* for one that another thread has added or deleted since then raises an    *)
(* exception, which leaves some of the others undone.                      *)

AddRoutes(missing) ==
    /\ missing \cap routes = {}
    /\ routes' = routes \cup missing
    /\ UNCHANGED <<wg_peers, allowed_ips, wgi, gw_routes>>

AddRoutesFails(missing) ==
    /\ missing \cap routes # {}
    /\ \E done \in SUBSET (missing \ routes) : routes' = routes \cup done
    /\ UNCHANGED <<wg_peers, allowed_ips, wgi, gw_routes>>

\* sync_routes(_GW_ROUTES).  It is the last thing sync_peer() does: whether it
\* raises makes no difference.  The four routes are added and deleted together.
SyncGwRoutes ==
    /\ gw_routes' = TRUE
    /\ UNCHANGED <<wg_peers, allowed_ips, wgi, routes>>

\* The first loop of remove_unknown(), over the cached list of peers.  Each
\* removal queries first: what is cached afterwards is the list before the
\* last one.
RemoveUnknownPeers(enabled_pks) ==
    LET unknown == wgi \ enabled_pks
    IN  /\ wg_peers' = wg_peers \ unknown
        /\ allowed_ips' = Unrouted(unknown)
        /\ \/ unknown = {} /\ UNCHANGED wgi
           \/ \E last \in unknown : wgi' = wg_peers \ (unknown \ {last})
        /\ UNCHANGED <<routes, gw_routes>>

\* Deleting the routes that were listed, and the gateway routes if gw: the
\* end of remove_unknown() and of remove_routes().
DelRoutes(unexpected, gw) ==
    /\ unexpected \subseteq routes
    /\ gw => gw_routes
    /\ routes' = routes \ unexpected
    /\ gw_routes' = (gw_routes /\ ~gw)
    /\ UNCHANGED <<wg_peers, allowed_ips, wgi>>

DelRoutesFails(unexpected, gw) ==
    /\ \/ /\ ~(unexpected \subseteq routes)
          /\ \E done \in SUBSET (unexpected \cap routes) :
                routes' = routes \ done
       \/ /\ unexpected \subseteq routes
          /\ gw /\ ~gw_routes
          /\ routes' = routes \ unexpected
    /\ UNCHANGED <<wg_peers, allowed_ips, wgi, gw_routes>>

-----------------------------------------------------------------------------
EnabledPks(ps) == {ps[v].desc.pk : v \in Enabled(ps)}

\* The peers of the table ps whose configuration has the address a.  There may
\* be several: only the announced addresses are compared by the schema.
Holders(ps, a) == {v \in Enabled(ps) : a \in WgAllowedIps(ps[v])}

\* The kernel is configured as the table ps asks for: `vula repair' would
\* find nothing to do, but for an address of several peers, which the kernel
\* can give to one of them only.
InSync(ps) ==
    /\ wg_peers = EnabledPks(ps)
    /\ \A v \in Enabled(ps) : \A a \in Addr \cup {Default} :
          allowed_ips[a] = ps[v].desc.pk => v \in Holders(ps, a)
    /\ \A a \in Addr \cup {Default} : Holders(ps, a) # {} =>
          \E v \in Holders(ps, a) : allowed_ips[a] = ps[v].desc.pk
    /\ routes = UNION {Routes(ps[v]) : v \in Enabled(ps)}
    /\ gw_routes = (EnabledGateways(ps) # {})
=============================================================================
