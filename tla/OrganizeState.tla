---------------------------- MODULE OrganizeState ----------------------------
(***************************************************************************)
(* The state engine of vula's organize daemon: class OrganizeState of      *)
(* organize.py on top of the transactions of engine.py.                    *)
(*                                                                         *)
(* Engine.event runs a handler on a copy of the state while it holds the   *)
(* engine's lock, validates the copy against the schema and either commits *)
(* all of it or, on any exception, none of it.  Events are therefore       *)
(* atomic: each is one action here.  What follows a commit (saving, and    *)
(* the triggers that change the system) is not part of this module;        *)
(* `result' names the event, whether it failed and the peers whose         *)
(* sync_peer trigger it queued.                                            *)
(*                                                                         *)
(* The iteration order of dictionaries and of the gateways (a list made    *)
(* from a set) decides which of several candidates is taken.  Here any of  *)
(* them may be.                                                            *)
(***************************************************************************)
EXTENDS PeerRules

CONSTANTS
    DefaultPrefs, \* Prefs.default
    SysStates,   \* the system states that reading the system may yield
    UserAddrs,   \* the addresses the user adds or edits by hand
    EditFields,  \* the fields of a peer the user edits
    PrefFields,  \* the preferences the user edits
    SaveFaults   \* whether saving the state may fail

ASSUME InputTypes ==
    /\ DefaultPrefs \in Prefs
    /\ SysStates \subseteq SystemState
    /\ UserAddrs \subseteq Addr
    /\ SaveFaults \in BOOLEAN

VARIABLES peers, prefs, system_state, result

vars == <<peers, prefs, system_state, result>>

Events ==
    {"none", "VERIFY_AND_PIN_PEER", "USER_REMOVE_PEER", "USER_PEER_ADDR_ADD",
     "USER_PEER_ADDR_DEL", "USER_EDIT", "RELEASE_GATEWAY", "NEW_SYSTEM_STATE",
     "INCOMING_DESCRIPTOR"}

Result == [event : Events, error : BOOLEAN, sync : SUBSET Vk]

-----------------------------------------------------------------------------
(* Engine.event *)

Init ==
    /\ peers = [v \in Vk |-> NoPeer]
    /\ prefs = DefaultPrefs
    /\ system_state = [current_subnets |-> {}, gateways |-> {}]
    /\ result = [event |-> "none", error |-> FALSE, sync |-> {}]

\* An event that wrote nothing.
NoWrites(event) ==
    /\ result' = [event |-> event, error |-> FALSE, sync |-> {}]
    /\ UNCHANGED <<peers, prefs, system_state>>

\* An exception in the handler, or in the validation of what it wrote.
Abort(event) ==
    /\ result' = [event |-> event, error |-> TRUE, sync |-> {}]
    /\ UNCHANGED <<peers, prefs, system_state>>

\* The end of an event whose handler wrote ps, pf and ss: the schema rejects
\* a table of peers with conflicts.  A new state is saved once it is in
\* place; an exception in save() is the event's error, and drops its
\* triggers, but does not undo what is in place.
Validate(event, ps, pf, ss, sync) ==
    \/ /\ Conflicts(ps) = {}
       /\ peers' = ps
       /\ prefs' = pf
       /\ system_state' = ss
       /\ \/ result' = [event |-> event, error |-> FALSE, sync |-> sync]
          \/ /\ SaveFaults
             /\ <<ps, pf, ss>> # <<peers, prefs, system_state>>
             /\ result' = [event |-> event, error |-> TRUE, sync |-> {}]
    \/ /\ Conflicts(ps) # {}
       /\ Abort(event)

ValidatePeers(event, ps, sync) ==
    Validate(event, ps, prefs, system_state, sync \cap Known(ps))

\* _update_peer under the committed system state.
Updated(q) ==
    UpdatePeer(q, prefs, Local(system_state), system_state.gateways)

-----------------------------------------------------------------------------
(* event_INCOMING_DESCRIPTOR *)

\* Mutant: no check for a replay.
AcceptableReplay(d) ==
    /\ d.p \in Ula
    /\ d.pk # OurPk
    /\ d.addrs \cap Local(system_state) # {}
    /\ InLocalDomain(d.host, prefs)
    /\ \A v \in ConflictsForDescriptor(peers, d) : ~peers[v].pinned

\* Mutant: no check for a local address.
AcceptableNonlocal(d) ==
    /\ d.p \in Ula
    /\ d.pk # OurPk
    /\ d.vk \in Known(peers) => d.vf >= peers[d.vk].desc.vf
    /\ InLocalDomain(d.host, prefs)
    /\ \A v \in ConflictsForDescriptor(peers, d) : ~peers[v].pinned

Acceptable(d) ==
    /\ d.p \in Ula
    /\ d.pk # OurPk
    /\ d.vk \in Known(peers) => d.vf >= peers[d.vk].desc.vf
    /\ d.addrs \cap Local(system_state) # {}
    /\ InLocalDomain(d.host, prefs)
    /\ \A v \in ConflictsForDescriptor(peers, d) : ~peers[v].pinned

\* Mutant: a known peer is made anew as well.
RemadePeer(d) == MakePeer(d, ~d.e /\ prefs.pin_new_peers)

\* ACCEPT_NEW_PEER and UPDATE_PEER_DESCRIPTOR, up to their call of
\* _update_peer.
WithDescriptor(d) ==
    IF d.vk \in Known(peers) THEN [peers[d.vk] EXCEPT !.desc = d]
    ELSE MakePeer(d, ~d.e /\ prefs.pin_new_peers)

AcceptDescriptor(d) ==
    /\ Acceptable(d)
    /\ ValidatePeers("INCOMING_DESCRIPTOR",
            [v \in Vk |->
                IF v = d.vk THEN Updated(WithDescriptor(d))
                ELSE IF v \in ConflictsForDescriptor(peers, d) THEN NoPeer
                ELSE peers[v]],
            {d.vk})

RejectDescriptor(d) ==
    /\ ~Acceptable(d)
    /\ NoWrites("INCOMING_DESCRIPTOR")

-----------------------------------------------------------------------------
(* event_NEW_SYSTEM_STATE *)

\* One element of S, if there is any, as a set.
AnyOf(S) == IF S = {} THEN {{}} ELSE {{x} : x \in S}

\* Mutant: a pinned gateway is lost too.
LostEvenIfPinned(cur, s) ==
    {v \in cur : EnabledIps(peers[v]) \cap s.gateways = {}}

\* The unpinned current gateway that no longer has a gateway address.
LostGateway(cur, s) ==
    {v \in cur : /\ ~peers[v].pinned
                 /\ EnabledIps(peers[v]) \cap s.gateways = {}}

\* The peers that have a gateway address, if a new gateway peer is wanted.
GatewayCandidates(cur, s) ==
    IF \E v \in cur : peers[v].pinned THEN {}
    ELSE {v \in Known(peers) : EnabledIps(peers[v]) \cap s.gateways # {}}

\* A peer with the gateway flag that ADJUST_TO_NEW_SYSTEM_STATE gives it.
Reflagged(v, lost, hit) ==
    [peers[v] EXCEPT !.use_as_gateway = (@ \/ v \in hit) /\ v \notin lost \ hit]

\* The daemon raises this event for a system state that differs from the one
\* it has, if only in what is left out here (interfaces, the host's own
\* addresses), so s may equal system_state.
NewSystemState(s) ==
    \E cur \in AnyOf(FlaggedAsGateway(peers)) :
    \E hit \in AnyOf(GatewayCandidates(cur, s)) :
       LET ps == [v \in Vk |->
                    IF v \in Known(peers)
                    THEN UpdatePeer(Reflagged(v, LostGateway(cur, s), hit),
                                    prefs, Local(s), system_state.gateways)
                    ELSE NoPeer]
       IN  Validate("NEW_SYSTEM_STATE", ps, prefs, s, Known(ps) \cup hit)

-----------------------------------------------------------------------------
(* event_USER_EDIT for a peer, event_RELEASE_GATEWAY, event_VERIFY_... *)

\* action_EDIT of one peer that writes the record q for v.
EditPeer(event, v, q) ==
    \/ /\ v \in Known(peers)
       /\ ValidatePeers(event, [peers EXCEPT ![v] = Updated(q)], {v})
    \/ /\ v \notin Known(peers)
       /\ Abort(event)

SetFlag(v, field, b) ==
    /\ field \in EditFields
    /\ EditPeer("USER_EDIT", v,
            CASE field = "enabled"  -> [peers[v] EXCEPT !.enabled = b]
              [] field = "pinned"   -> [peers[v] EXCEPT !.pinned = b]
              [] field = "verified" -> [peers[v] EXCEPT !.verified = b]
              [] field = "gateway"  -> [peers[v] EXCEPT !.use_as_gateway = b])

SetPetname(v, n) ==
    /\ "petname" \in EditFields
    /\ EditPeer("USER_EDIT", v, [peers[v] EXCEPT !.petname = n])

\* Mutant: a disabled nickname is forgotten.
ForgetNickname(v, h, b) ==
    /\ "nicknames" \in EditFields
    /\ EditPeer("USER_EDIT", v,
            [peers[v] EXCEPT !.names = IF b THEN @ \cup {h} ELSE @ \ {h}])

SetNickname(v, h, b) ==
    /\ "nicknames" \in EditFields
    /\ EditPeer("USER_EDIT", v,
            [peers[v] EXCEPT
                !.names  = IF b THEN @ \cup {h} ELSE @ \ {h},
                !.hidden = IF b THEN @ \ {h} ELSE @ \cup {h}])

SetAddr(v, a, b) ==
    /\ "addrs" \in EditFields
    /\ EditPeer("USER_EDIT", v,
            [peers[v] EXCEPT
                !.on  = IF b THEN @ \cup {a} ELSE @ \ {a},
                !.off = IF b THEN @ \ {a} ELSE @ \cup {a}])

ReleaseGateway ==
    \/ /\ FlaggedAsGateway(peers) = {}
       /\ NoWrites("RELEASE_GATEWAY")
    \/ \E v \in FlaggedAsGateway(peers) :
          EditPeer("RELEASE_GATEWAY", v,
                   [peers[v] EXCEPT !.use_as_gateway = FALSE])

\* Two edits in one transaction, of `verified' and then of `pinned': the
\* second finds no peer if _update_peer removed it after the first.
VerifyAndPinPeer(v, h) ==
    LET verified == Updated([peers[v] EXCEPT !.verified = TRUE])
    IN  \/ /\ WithHostname(peers, h) = {v}
           /\ verified # NoPeer
           /\ ValidatePeers("VERIFY_AND_PIN_PEER",
                    [peers EXCEPT
                        ![v] = Updated([verified EXCEPT !.pinned = TRUE])],
                    {v})
        \/ /\ WithHostname(peers, h) = {v} => verified = NoPeer
           /\ Abort("VERIFY_AND_PIN_PEER")

-----------------------------------------------------------------------------
(* event_USER_REMOVE_PEER, event_USER_PEER_ADDR_ADD and _DEL *)

UserRemovePeer(key) ==
    LET hits == Query(peers, key)
    IN  \/ /\ hits = {}
           /\ NoWrites("USER_REMOVE_PEER")
        \/ /\ Cardinality(hits) > 1
           /\ Abort("USER_REMOVE_PEER")
        \/ /\ Cardinality(hits) = 1
           /\ \E hit \in hits :
                 ValidatePeers("USER_REMOVE_PEER",
                               [peers EXCEPT ![hit[1]] = NoPeer], {})

\* Mutant: a disabled address stays disabled when it is added.
AddrAddedTwice(v, a) ==
    \/ /\ v \in Known(peers)
       /\ ValidatePeers("USER_PEER_ADDR_ADD",
                        [peers EXCEPT ![v].on = @ \cup {a}], {v})
    \/ /\ v \notin Known(peers)
       /\ NoWrites("USER_PEER_ADDR_ADD")

\* Neither of these two calls _update_peer.
UserPeerAddrAdd(v, a) ==
    \/ /\ v \in Known(peers)
       /\ ValidatePeers("USER_PEER_ADDR_ADD",
                [peers EXCEPT ![v].on = @ \cup {a}, ![v].off = @ \ {a}], {v})
    \/ /\ v \notin Known(peers)
       /\ NoWrites("USER_PEER_ADDR_ADD")

UserPeerAddrDel(v, a) ==
    \/ /\ v \in Known(peers)
       /\ a \in peers[v].on \cup peers[v].off
       /\ ValidatePeers("USER_PEER_ADDR_DEL",
                [peers EXCEPT ![v].on = @ \ {a}, ![v].off = @ \ {a}], {v})
    \/ /\ v \in Known(peers)
       /\ a \notin peers[v].on \cup peers[v].off
       /\ Abort("USER_PEER_ADDR_DEL")
    \/ /\ v \notin Known(peers)
       /\ NoWrites("USER_PEER_ADDR_DEL")

-----------------------------------------------------------------------------
(* event_USER_EDIT for a preference *)

EditPrefs(pf) == Validate("USER_EDIT", peers, pf, system_state, {})

SetPinNewPeers(b) ==
    /\ "pin_new_peers" \in PrefFields
    /\ EditPrefs([prefs EXCEPT !.pin_new_peers = b])

EditSubnetsAllowed(sn) ==
    /\ "subnets_allowed" \in PrefFields
    /\ \/ EditPrefs([prefs EXCEPT !.subnets_allowed = @ \cup {sn}])
       \/ EditPrefs([prefs EXCEPT !.subnets_allowed = @ \ {sn}])

EditLocalDomains(dom) ==
    /\ "local_domains" \in PrefFields
    /\ \/ EditPrefs([prefs EXCEPT !.local_domains = @ \cup {dom}])
       \/ EditPrefs([prefs EXCEPT !.local_domains = @ \ {dom}])

-----------------------------------------------------------------------------
NetworkStep ==
    \/ \E d \in Descs : AcceptDescriptor(d) \/ RejectDescriptor(d)
    \/ \E s \in SysStates : NewSystemState(s)

\* The name given for a verification may be one that no peer has.
UserPeerStep ==
    \E v \in Vk :
        \/ \E field \in EditFields \cap {"enabled", "pinned", "verified",
                                         "gateway"}, b \in BOOLEAN :
              SetFlag(v, field, b)
        \/ \E h \in Host \cup {NoName} : VerifyAndPinPeer(v, h)
        \/ \E a \in UserAddrs :
              \/ \E b \in BOOLEAN : SetAddr(v, a, b)
              \/ UserPeerAddrAdd(v, a)
              \/ UserPeerAddrDel(v, a)

PeerNameStep ==
    \E v \in Vk :
        \/ \E n \in Host \cup {NoName} : SetPetname(v, n)
        \/ \E h \in Host, b \in BOOLEAN : SetNickname(v, h, b)

\* Edits of names and of the domains whose names are used.
NameStep ==
    \/ PeerNameStep
    \/ \E dom \in Domain : EditLocalDomains(dom)

\* The other commands.
CommandStep ==
    \/ UserPeerStep
    \/ \E key \in Vk \cup Host \cup Addr : UserRemovePeer(key)
    \/ ReleaseGateway
    \/ \E b \in BOOLEAN : SetPinNewPeers(b)
    \/ \E sn \in Subnet : EditSubnetsAllowed(sn)

UserStep == CommandStep \/ NameStep

Next == NetworkStep \/ UserStep

Spec == Init /\ [][Next]_vars
-----------------------------------------------------------------------------
(* Invariants *)

\* Type correctness of the engine's state, with the two dictionaries of a
\* peer (addresses, nicknames) never giving one key two values and every
\* peer stored under its own verify key, as _SET and _REMOVE keep it.
TypeOK ==
    /\ peers \in Peers
    /\ prefs \in Prefs
    /\ system_state \in SystemState
    /\ result \in Result
    /\ \A v \in Known(peers) :
          /\ peers[v].desc.vk = v
          /\ peers[v].on \cap peers[v].off = {}
          /\ peers[v].names \cap peers[v].hidden = {}

\* Peer.name indexes the nicknames with the announced host name, and
\* _update_peer starts by logging that name: every peer must have the host
\* name of its current descriptor among its nicknames, enabled or not,
\* whatever happened to the local domains since it was announced.
NicknamesHoldHostname ==
    \A v \in Known(peers) :
        peers[v].desc.host \in peers[v].names \cup peers[v].hidden

\* What the look-ups rely on the schema for: what an enabled peer currently
\* announces and has enabled (host name, addresses, WireGuard key) belongs
\* to no other enabled peer, whatever was edited, enabled or evicted before.
AnnouncedIsUnique ==
    \A v \in Enabled(peers) :
        /\ peers[v].desc.host \in peers[v].names =>
               WithHostname(peers, peers[v].desc.host) = {v}
        /\ \A u \in Enabled(peers) \ {v} :
               /\ peers[u].desc.pk # peers[v].desc.pk
               /\ peers[v].desc.addrs \cap peers[u].on = {}

\* An unpinned peer is reached only at addresses of a subnet this host is
\* in now: roaming to another network, unpinning, and descriptors that were
\* accepted earlier leave none behind (addresses the user adds excepted).
UnpinnedIsLocal ==
    \A v \in Known(peers) :
        ~peers[v].pinned => peers[v].on \ UserAddrs \subseteq Local(system_state)

-----------------------------------------------------------------------------
(* Action properties *)

NetworkEvents == {"INCOMING_DESCRIPTOR", "NEW_SYSTEM_STATE"}

\* A step that keeps every pinned peer as it is, or gives it more.
KeepsPinned ==
    \A v \in Known(peers) :
        peers[v].pinned =>
            /\ v \in Known(peers')
            /\ peers'[v].pinned
            /\ peers'[v].enabled = peers[v].enabled
            /\ peers'[v].verified = peers[v].verified
            /\ peers'[v].petname = peers[v].petname
            /\ peers[v].use_as_gateway => peers'[v].use_as_gateway
            /\ peers[v].names \subseteq peers'[v].names
            /\ peers[v].on \subseteq peers'[v].on

\* No event that the network or the system causes removes a pinned peer,
\* unpins, disables or unverifies it, or takes a name, an address or the
\* role of gateway from it: neither a conflicting descriptor nor a move to
\* another network does.
PinnedSurvives == [][result'.event \in NetworkEvents => KeepsPinned]_vars

KeepsVf ==
    \A v \in Known(peers) \cap Known(peers') :
        peers'[v].desc.vf >= peers[v].desc.vf

\* While a peer stays in the table its descriptor is only ever replaced by
\* one with the same or a later `vf': an old announcement is not replayed
\* over a newer one.
VfNeverDecreases == [][KeepsVf]_vars

KeepsHidden ==
    \A v \in Known(peers) \cap Known(peers') :
        peers[v].hidden \subseteq peers'[v].hidden

\* A nickname that the user disabled is enabled again only by the user,
\* however often the peer announces it.
HiddenNameStaysHidden == [][result'.event # "USER_EDIT" => KeepsHidden]_vars

EvictionSucceeded ==
    /\ result'.event = "INCOMING_DESCRIPTOR"
    /\ Local(system_state) \subseteq Allowed(prefs)
    /\ Known(peers) \ Known(peers') # {}
    => result'.sync # {} \/ result'.error

\* A peer gives way to a descriptor only if the descriptor takes its place:
\* REMOVE_PEER of the conflicting peers is followed by a peer that stays and
\* is configured, unless the state could not be saved.  (Where a local
\* subnet is not in subnets_allowed the newcomer may be removed in the same
\* transaction, and this does not hold.)
EvictionHasSuccessor == [][EvictionSucceeded]_vars

-----------------------------------------------------------------------------
(* A statement of a comment that the code does not keep: the property of a  *)
(* run that TLC is expected to refute.                                     *)

\* _update_peer, on two peers with the gateway flag: "this could only happen
\* if (1) the existing gateway is pinned or, if (2) there are multiple
\* default routes".
GatewayClashIsExplained ==
    [][result'.event = "NEW_SYSTEM_STATE" /\ result'.error =>
        \/ \E v \in FlaggedAsGateway(peers) : peers[v].pinned
        \/ \E s \in SysStates : Cardinality(s.gateways) > 1]_vars
=============================================================================
