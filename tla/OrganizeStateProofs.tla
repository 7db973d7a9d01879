------------------------- MODULE OrganizeStateProofs -------------------------
(***************************************************************************)
(* Proofs about OrganizeState, for every choice of its constants.          *)
(*                                                                         *)
(* All theorems rest on one inductive invariant, IInv: what each peer of   *)
(* the table satisfies on its own (TableOK) and the absence of conflicts   *)
(* between peers.  _update_peer restores the first whatever it is given    *)
(* (lemma UpdateOK), and the validation at the end of a transaction        *)
(* guarantees the second (lemma ValidateOK).                               *)
(***************************************************************************)
EXTENDS OrganizeState, TLAPS

\* What holds of a peer q stored under the key v.
PeerOK(v, q) ==
    /\ q \in Peer
    /\ q.desc.vk = v
    /\ q.on \cap q.off = {}
    /\ q.names \cap q.hidden = {}
    /\ q.desc.host \in q.names \cup q.hidden
    /\ q.desc.addrs # {}

LocalOK(q, local) == ~q.pinned => q.on \ UserAddrs \subseteq local

TableOK(ps, local) ==
    /\ ps \in Peers
    /\ \A v \in Vk : ps[v] # NoPeer => PeerOK(v, ps[v]) /\ LocalOK(ps[v], local)

IInv ==
    /\ TableOK(peers, Local(system_state))
    /\ Conflicts(peers) = {}
    /\ prefs \in Prefs
    /\ system_state \in SystemState
    /\ result \in Result

\* A table that an event of the user may leave: it has no new peer, keeps the
\* descriptors and, unless the event is an edit, the disabled nicknames.
KeepsTable(e, ps) ==
    \A v \in Known(ps) :
        /\ v \in Known(peers)
        /\ ps[v].desc = peers[v].desc
        /\ e # "USER_EDIT" => ps[v].hidden = peers[v].hidden

Frame(e) == result'.event = e /\ KeepsTable(e, peers')

UserFrame == \E e \in Events \ NetworkEvents : Frame(e)

-----------------------------------------------------------------------------
(* Lemmas about the operators *)

\* The local addresses are addresses.
LEMMA LocalType ==
    ASSUME NEW s \in SystemState
    PROVE  Local(s) \subseteq Addr
  BY ConstantTypes DEF Local, SystemState

\* A peer that keeps an address after _update_peer: what changes in it.
LEMMA UpdateFields ==
    ASSUME NEW q \in Peer, NEW pf, NEW local, local \subseteq Addr, NEW gws,
           UsableAddrs(q, pf, local) # {}
    PROVE  LET r == UpdatePeer(q, pf, local, gws)
           IN  /\ r \in Peer
               /\ r # NoPeer
               /\ r.desc = q.desc /\ r.petname = q.petname /\ r.hidden = q.hidden
               /\ r.enabled = q.enabled /\ r.verified = q.verified
               /\ r.pinned = q.pinned
               /\ q.use_as_gateway => r.use_as_gateway
               /\ r.on = UsableAddrs(q, pf, local)
               /\ r.off = UnusableAddrs(q, pf, local)
               /\ q.names \subseteq r.names
               /\ r.names \cap q.hidden = q.names \cap q.hidden
               /\ \/ q.desc.host \in q.names \cup q.hidden
                  \/ InLocalDomain(q.desc.host, pf)
                  => q.desc.host \in r.names \cup q.hidden
  <1> DEFINE on == UsableAddrs(q, pf, local)
             off == UnusableAddrs(q, pf, local)
             names == IF /\ q.desc.host \notin q.names \cup q.hidden
                         /\ InLocalDomain(q.desc.host, pf)
                      THEN q.names \cup {q.desc.host} ELSE q.names
             gw == q.use_as_gateway \/ q.desc.addrs \cap local \cap gws # {}
             r == [q EXCEPT !.on = on, !.off = off, !.names = names,
                            !.use_as_gateway = gw]
  <1>1. q.desc \in Descriptor
    BY ConstantTypes DEF Peer
  <1>2. on \subseteq Addr /\ off \subseteq Addr
    BY <1>1 DEF UsableAddrs, UnusableAddrs, Peer, Descriptor
  <1>3. /\ names \subseteq Host
        /\ q.names \subseteq names
        /\ names \cap q.hidden = q.names \cap q.hidden
        /\ \/ q.desc.host \in q.names \cup q.hidden
           \/ InLocalDomain(q.desc.host, pf)
           => q.desc.host \in names \cup q.hidden
    BY <1>1 DEF Peer, Descriptor
  <1>4. gw \in BOOLEAN /\ (q.use_as_gateway => gw)
    BY DEF Peer
  <1>5. UpdatePeer(q, pf, local, gws) = r
    BY DEF UpdatePeer
  <1> HIDE DEF on, off, names, gw
  <1>6. r \in Peer
    BY <1>2, <1>3, <1>4 DEF Peer
  <1>7. r # NoPeer
    BY <1>6, NullValues
  <1>8. /\ r.on = on /\ r.off = off /\ r.names = names /\ r.use_as_gateway = gw
        /\ r.desc = q.desc /\ r.petname = q.petname /\ r.hidden = q.hidden
        /\ r.enabled = q.enabled /\ r.verified = q.verified
        /\ r.pinned = q.pinned
    BY DEF Peer
  <1> HIDE DEF r
  <1> QED
    BY <1>3, <1>4, <1>5, <1>6, <1>7, <1>8 DEF on, off

\* _update_peer, applied to a peer record whose host name is among its
\* nicknames or may become one, removes it or leaves a record that is fine.
LEMMA UpdateOK ==
    ASSUME NEW v \in Vk, NEW q \in Peer, q.desc.vk = v,
           q.names \cap q.hidden = {}, q.desc.addrs # {},
           NEW pf \in Prefs, NEW local, local \subseteq Addr, NEW gws,
           q.desc.host \in q.names \cup q.hidden \/ InLocalDomain(q.desc.host, pf),
           UpdatePeer(q, pf, local, gws) # NoPeer
    PROVE  /\ PeerOK(v, UpdatePeer(q, pf, local, gws))
           /\ LocalOK(UpdatePeer(q, pf, local, gws), local)
  <1> DEFINE r == UpdatePeer(q, pf, local, gws)
  <1>1. UsableAddrs(q, pf, local) # {}
    BY DEF UpdatePeer
  <1>2. /\ UsableAddrs(q, pf, local) \cap UnusableAddrs(q, pf, local) = {}
        /\ ~q.pinned => UsableAddrs(q, pf, local) \subseteq local
    BY DEF UsableAddrs, UnusableAddrs
  <1>3. /\ r \in Peer /\ r.desc = q.desc /\ r.hidden = q.hidden
        /\ r.pinned = q.pinned
        /\ r.on = UsableAddrs(q, pf, local)
        /\ r.off = UnusableAddrs(q, pf, local)
        /\ r.names \cap q.hidden = q.names \cap q.hidden
        /\ q.desc.host \in r.names \cup q.hidden
    BY <1>1, UpdateFields
  <1> HIDE DEF r
  <1>4. PeerOK(v, r) /\ LocalOK(r, local)
    BY <1>2, <1>3 DEF PeerOK, LocalOK
  <1> QED
    BY <1>4 DEF r

\* _update_peer under the committed system state.
LEMMA UpdatedOK ==
    ASSUME IInv, NEW v \in Vk, NEW q \in Peer, q.desc.vk = v,
           q.names \cap q.hidden = {}, q.desc.addrs # {},
           q.desc.host \in q.names \cup q.hidden \/ InLocalDomain(q.desc.host, prefs),
           Updated(q) # NoPeer
    PROVE  PeerOK(v, Updated(q)) /\ LocalOK(Updated(q), Local(system_state))
  <1>1. Local(system_state) \subseteq Addr
    BY LocalType DEF IInv
  <1> QED
    BY <1>1, UpdateOK DEF Updated, IInv

\* A peer of the table is fine.
LEMMA KnownOK ==
    ASSUME IInv, NEW v \in Known(peers)
    PROVE  v \in Vk /\ PeerOK(v, peers[v]) /\ LocalOK(peers[v], Local(system_state))
  BY DEF IInv, TableOK, Known

\* Writing one entry of the table leaves it fine if the entry is.
LEMMA WriteOK ==
    ASSUME IInv, NEW v \in Vk, NEW r,
           r # NoPeer => PeerOK(v, r) /\ LocalOK(r, Local(system_state))
    PROVE  TableOK([peers EXCEPT ![v] = r], Local(system_state))
  BY DEF IInv, TableOK, Peers, PeerOK

-----------------------------------------------------------------------------
(* The end of an event keeps the invariant *)

\* An event that fails or writes nothing leaves the table as it is.
LEMMA AbortOK ==
    ASSUME IInv, NEW e \in Events, Abort(e) \/ NoWrites(e)
    PROVE  IInv' /\ Frame(e)
  <1>1. PICK b \in BOOLEAN : result' = [event |-> e, error |-> b, sync |-> {}]
    BY DEF Abort, NoWrites
  <1>2. result' \in Result
    BY <1>1 DEF Result
  <1>3. UNCHANGED <<peers, prefs, system_state>>
    BY DEF Abort, NoWrites
  <1>4. IInv'
    BY <1>2, <1>3 DEF IInv
  <1>5. Frame(e)
    BY <1>1, <1>3 DEF Frame, KeepsTable
  <1> QED
    BY <1>4, <1>5

\* The validation at the end of Engine.event: a table that is fine on its own
\* is committed only if it has no conflicts.
LEMMA ValidateOK ==
    ASSUME IInv, NEW e \in Events, NEW ps, NEW pf \in Prefs,
           NEW ss \in SystemState, NEW sync \in SUBSET Vk,
           TableOK(ps, Local(ss)), Validate(e, ps, pf, ss, sync)
    PROVE  IInv'
  <1>1. CASE Abort(e)
    BY <1>1, AbortOK
  <1>2. CASE /\ Conflicts(ps) = {}
             /\ peers' = ps
             /\ prefs' = pf
             /\ system_state' = ss
             /\ \/ result' = [event |-> e, error |-> FALSE, sync |-> sync]
                \/ result' = [event |-> e, error |-> TRUE, sync |-> {}]
    <2>1. result' \in Result
      <3>1. /\ [event |-> e, error |-> FALSE, sync |-> sync] \in Result
            /\ [event |-> e, error |-> TRUE, sync |-> {}] \in Result
        BY DEF Result
      <3> QED
        BY <1>2, <3>1
    <2>2. TableOK(peers', Local(system_state'))
      BY <1>2
    <2>3. Conflicts(peers') = {}
      BY <1>2
    <2> QED
      BY <1>2, <2>1, <2>2, <2>3 DEF IInv
  <1> QED
    BY <1>1, <1>2 DEF Validate

\* The same for an event that writes only the table of peers.
LEMMA ValidatePeersOK ==
    ASSUME IInv, NEW e \in Events, NEW ps, NEW sync,
           TableOK(ps, Local(system_state)), ValidatePeers(e, ps, sync)
    PROVE  IInv'
  <1>1. sync \cap Known(ps) \in SUBSET Vk
    BY DEF Known
  <1> QED
    BY <1>1, ValidateOK DEF ValidatePeers, IInv

\* What an event keeps of the table it was given to write, committed or not.
LEMMA ValidateFrame ==
    ASSUME IInv, NEW e \in Events, NEW ps, NEW pf, NEW ss, NEW sync,
           Validate(e, ps, pf, ss, sync), KeepsTable(e, ps)
    PROVE  Frame(e)
  BY AbortOK DEF Validate, Frame, KeepsTable

\* The same for an event that writes only the table of peers.
LEMMA ValidatePeersFrame ==
    ASSUME IInv, NEW e \in Events, NEW ps, NEW sync,
           ValidatePeers(e, ps, sync), KeepsTable(e, ps)
    PROVE  Frame(e)
  BY ValidateFrame DEF ValidatePeers

\* What _update_peer keeps of a peer, removed or not.
LEMMA UpdatedKeeps ==
    ASSUME IInv, NEW q \in Peer, Updated(q) # NoPeer
    PROVE  Updated(q).desc = q.desc /\ Updated(q).hidden = q.hidden
  <1>1. Local(system_state) \subseteq Addr
    BY LocalType DEF IInv
  <1>2. UsableAddrs(q, prefs, Local(system_state)) # {}
    BY DEF Updated, UpdatePeer
  <1> QED
    BY <1>1, <1>2, UpdateFields DEF Updated

\* Writing one entry of the table keeps the others.
LEMMA WriteKeeps ==
    ASSUME IInv, NEW e, NEW v \in Known(peers), NEW r,
           r # NoPeer => /\ r.desc = peers[v].desc
                         /\ e # "USER_EDIT" => r.hidden = peers[v].hidden
    PROVE  KeepsTable(e, [peers EXCEPT ![v] = r])
  BY DEF KeepsTable, Known, IInv, TableOK, Peers

\* action_EDIT of a peer, with its call of _update_peer.
LEMMA EditPeerOK ==
    ASSUME IInv, NEW e \in Events, NEW v \in Vk, NEW q, EditPeer(e, v, q),
           v \in Known(peers) =>
              /\ q \in Peer
              /\ q.desc = peers[v].desc
              /\ q.names \cap q.hidden = {}
              /\ q.desc.host \in q.names \cup q.hidden
              /\ e # "USER_EDIT" => q.hidden = peers[v].hidden
    PROVE  IInv' /\ Frame(e)
  <1>1. CASE v \notin Known(peers)
    BY <1>1, AbortOK DEF EditPeer
  <1>2. CASE v \in Known(peers)
    <2>1. q.desc.vk = v /\ q.desc.addrs # {}
      BY <1>2, KnownOK DEF PeerOK
    <2>2. Updated(q) # NoPeer => /\ PeerOK(v, Updated(q))
                                 /\ LocalOK(Updated(q), Local(system_state))
      BY <1>2, <2>1, UpdatedOK
    <2>3. Updated(q) # NoPeer =>
             /\ Updated(q).desc = peers[v].desc
             /\ e # "USER_EDIT" => Updated(q).hidden = peers[v].hidden
      BY <1>2, UpdatedKeeps
    <2> DEFINE r == Updated(q)
    <2>4. /\ r # NoPeer => PeerOK(v, r) /\ LocalOK(r, Local(system_state))
          /\ r # NoPeer => /\ r.desc = peers[v].desc
                           /\ e # "USER_EDIT" => r.hidden = peers[v].hidden
          /\ ValidatePeers(e, [peers EXCEPT ![v] = r], {v})
      BY <1>2, <2>2, <2>3 DEF EditPeer
    <2> HIDE DEF r
    <2>5. TableOK([peers EXCEPT ![v] = r], Local(system_state))
      BY <2>4, WriteOK
    <2>6. KeepsTable(e, [peers EXCEPT ![v] = r])
      BY <1>2, <2>4, WriteKeeps
    <2> QED
      BY <2>4, <2>5, <2>6, ValidatePeersOK, ValidatePeersFrame
  <1> QED
    BY <1>1, <1>2

-----------------------------------------------------------------------------
(* Every event keeps the invariant *)

\* event_INCOMING_DESCRIPTOR, accepted: evictions and the newcomer together.
LEMMA AcceptDescriptorOK ==
    ASSUME IInv, NEW d \in Descs, AcceptDescriptor(d)
    PROVE  IInv'
  <1> DEFINE q == WithDescriptor(d)
             ps == [v \in Vk |->
                      IF v = d.vk THEN Updated(q)
                      ELSE IF v \in ConflictsForDescriptor(peers, d) THEN NoPeer
                      ELSE peers[v]]
  <1>1. d \in Descriptor /\ d.vk \in Vk /\ d.addrs # {} /\ InLocalDomain(d.host, prefs)
    BY ConstantTypes DEF Descriptor, AcceptDescriptor, Acceptable
  <1>2. q \in Peer /\ q.desc = d /\ q.names \cap q.hidden = {}
    <2>1. CASE d.vk \in Known(peers)
      <3>1. PeerOK(d.vk, peers[d.vk])
        BY <2>1, KnownOK
      <3> QED
        BY <2>1, <3>1 DEF PeerOK, Peer, WithDescriptor
    <2>2. CASE d.vk \notin Known(peers)
      <3>1. (~d.e /\ prefs.pin_new_peers) \in BOOLEAN
        OBVIOUS
      <3>2. q = MakePeer(d, ~d.e /\ prefs.pin_new_peers)
        BY <2>2 DEF WithDescriptor
      <3>3. d.host \in Host /\ d.addrs \subseteq Addr
        BY <1>1 DEF Descriptor
      <3> QED
        BY <3>1, <3>2, <3>3 DEF MakePeer, Peer
    <2> QED
      BY <2>1, <2>2
  <1>3. Updated(q) # NoPeer => /\ PeerOK(d.vk, Updated(q))
                               /\ LocalOK(Updated(q), Local(system_state))
    <2> HIDE DEF q
    <2> QED
      BY <1>1, <1>2, UpdatedOK
  <1>4. TableOK(ps, Local(system_state))
    <2> HIDE DEF q
    <2> QED
      BY <1>3 DEF IInv, TableOK, Peers, PeerOK
  <1> QED
    BY <1>4, ValidatePeersOK DEF AcceptDescriptor, Events

\* event_NEW_SYSTEM_STATE: every peer is adjusted to the new local subnets.
LEMMA NewSystemStateOK ==
    ASSUME IInv, NEW s \in SysStates, NewSystemState(s)
    PROVE  IInv'
  <1>1. s \in SystemState
    BY InputTypes
  <1>2. PICK cur \in AnyOf(FlaggedAsGateway(peers)) :
          \E hit \in AnyOf(GatewayCandidates(cur, s)) :
            LET ps == [v \in Vk |->
                         IF v \in Known(peers)
                         THEN UpdatePeer(Reflagged(v, LostGateway(cur, s), hit),
                                         prefs, Local(s), system_state.gateways)
                         ELSE NoPeer]
            IN  Validate("NEW_SYSTEM_STATE", ps, prefs, s, Known(ps) \cup hit)
    BY DEF NewSystemState
  <1>3. PICK hit \in AnyOf(GatewayCandidates(cur, s)) :
            LET ps == [v \in Vk |->
                         IF v \in Known(peers)
                         THEN UpdatePeer(Reflagged(v, LostGateway(cur, s), hit),
                                         prefs, Local(s), system_state.gateways)
                         ELSE NoPeer]
            IN  Validate("NEW_SYSTEM_STATE", ps, prefs, s, Known(ps) \cup hit)
    BY <1>2
  <1> DEFINE lost == LostGateway(cur, s)
             ps == [v \in Vk |->
                      IF v \in Known(peers)
                      THEN UpdatePeer(Reflagged(v, lost, hit),
                                      prefs, Local(s), system_state.gateways)
                      ELSE NoPeer]
  <1>4. hit \subseteq Vk
    BY DEF AnyOf, GatewayCandidates, Known
  <1>5. ASSUME NEW v \in Vk, ps[v] # NoPeer
        PROVE  PeerOK(v, ps[v]) /\ LocalOK(ps[v], Local(s))
    <2> DEFINE q == Reflagged(v, lost, hit)
    <2>1. v \in Known(peers) /\ PeerOK(v, peers[v])
      BY <1>5, KnownOK
    <2>2. /\ q \in Peer /\ q.desc = peers[v].desc
          /\ q.names = peers[v].names /\ q.hidden = peers[v].hidden
      BY <2>1 DEF Reflagged, PeerOK, Peer
    <2>3. Local(s) \subseteq Addr
      BY <1>1, LocalType
    <2> HIDE DEF q
    <2>4. ps[v] = UpdatePeer(q, prefs, Local(s), system_state.gateways)
      BY <2>1 DEF q
    <2>5. /\ q.desc.vk = v /\ q.names \cap q.hidden = {}
          /\ q.desc.addrs # {} /\ q.desc.host \in q.names \cup q.hidden
      BY <2>1, <2>2 DEF PeerOK
    <2>6. prefs \in Prefs
      BY DEF IInv
    <2> HIDE DEF ps
    <2> QED
      BY <1>5, <2>2, <2>3, <2>4, <2>5, <2>6, UpdateOK
  <1>6. TableOK(ps, Local(s))
    <2> HIDE DEF ps
    <2>1. \A v \in Vk : ps[v] \in Peer \cup {NoPeer}
      BY <1>5 DEF PeerOK
    <2>2. ps \in Peers
      BY <2>1 DEF ps, Peers
    <2> QED
      BY <1>5, <2>2 DEF TableOK
  <1>7. Known(ps) \cup hit \in SUBSET Vk
    BY <1>4 DEF Known
  <1> QED
    BY <1>1, <1>3, <1>6, <1>7, ValidateOK DEF IInv, Events

\* event_VERIFY_AND_PIN_PEER: two edits in one transaction.
LEMMA VerifyAndPinPeerOK ==
    ASSUME IInv, NEW v \in Vk, NEW h, VerifyAndPinPeer(v, h)
    PROVE  IInv' /\ Frame("VERIFY_AND_PIN_PEER")
  <1> DEFINE verified == Updated([peers[v] EXCEPT !.verified = TRUE])
  <1>1. CASE Abort("VERIFY_AND_PIN_PEER")
    BY <1>1, AbortOK DEF Events
  <1>2. CASE /\ WithHostname(peers, h) = {v}
             /\ verified # NoPeer
             /\ ValidatePeers("VERIFY_AND_PIN_PEER",
                    [peers EXCEPT
                        ![v] = Updated([verified EXCEPT !.pinned = TRUE])],
                    {v})
    <2>1. v \in Known(peers) /\ PeerOK(v, peers[v])
      BY <1>2, KnownOK DEF WithHostname, Enabled
    <2>2. /\ PeerOK(v, verified)
          /\ verified.desc = peers[v].desc /\ verified.hidden = peers[v].hidden
      <3> DEFINE q == [peers[v] EXCEPT !.verified = TRUE]
      <3>1. /\ q \in Peer /\ q.desc = peers[v].desc
            /\ q.names = peers[v].names /\ q.hidden = peers[v].hidden
        BY <2>1 DEF PeerOK, Peer
      <3> HIDE DEF q
      <3>2. Updated(q) # NoPeer =>
               /\ PeerOK(v, Updated(q))
               /\ Updated(q).desc = q.desc /\ Updated(q).hidden = q.hidden
        BY <2>1, <3>1, UpdatedOK, UpdatedKeeps DEF PeerOK
      <3> QED
        BY <1>2, <3>1, <3>2 DEF q
    <2> HIDE DEF verified
    <2> DEFINE q == [verified EXCEPT !.pinned = TRUE]
    <2>3. /\ q \in Peer /\ q.desc = verified.desc
          /\ q.names = verified.names /\ q.hidden = verified.hidden
      BY <2>2 DEF PeerOK, Peer
    <2> HIDE DEF q
    <2>4. Updated(q) # NoPeer =>
             /\ PeerOK(v, Updated(q))
             /\ LocalOK(Updated(q), Local(system_state))
             /\ Updated(q).desc = peers[v].desc
             /\ Updated(q).hidden = peers[v].hidden
      BY <2>2, <2>3, UpdatedOK, UpdatedKeeps DEF PeerOK
    <2> DEFINE r == Updated(q)
    <2>5. ValidatePeers("VERIFY_AND_PIN_PEER", [peers EXCEPT ![v] = r], {v})
      BY <1>2 DEF q
    <2>6. r # NoPeer => /\ PeerOK(v, r) /\ LocalOK(r, Local(system_state))
                        /\ r.desc = peers[v].desc
                        /\ r.hidden = peers[v].hidden
      BY <2>4
    <2> HIDE DEF r
    <2>7. TableOK([peers EXCEPT ![v] = r], Local(system_state))
      BY <2>6, WriteOK
    <2>8. KeepsTable("VERIFY_AND_PIN_PEER", [peers EXCEPT ![v] = r])
      BY <2>1, <2>6, WriteKeeps
    <2> QED
      BY <2>5, <2>7, <2>8, ValidatePeersOK, ValidatePeersFrame DEF Events
  <1> QED
    BY <1>1, <1>2 DEF VerifyAndPinPeer

\* The user's commands about one peer.
LEMMA UserPeerStepOK ==
    ASSUME IInv, UserPeerStep \/ PeerNameStep
    PROVE  IInv' /\ UserFrame
  <1>1. PICK v \in Vk :
          \/ \E field \in EditFields \cap {"enabled", "pinned", "verified",
                                           "gateway"}, b \in BOOLEAN :
                SetFlag(v, field, b)
          \/ \E n \in Host \cup {NoName} : SetPetname(v, n)
          \/ \E h \in Host, b \in BOOLEAN : SetNickname(v, h, b)
          \/ \E h \in Host \cup {NoName} : VerifyAndPinPeer(v, h)
          \/ \E a \in UserAddrs :
                \/ \E b \in BOOLEAN : SetAddr(v, a, b)
                \/ UserPeerAddrAdd(v, a)
                \/ UserPeerAddrDel(v, a)
    BY DEF UserPeerStep, PeerNameStep
  <1>2. v \in Known(peers) => PeerOK(v, peers[v]) /\ LocalOK(peers[v], Local(system_state))
    BY KnownOK
  <1>3. /\ "USER_EDIT" \in Events
        /\ Frame("USER_EDIT") => UserFrame
    BY DEF Events, UserFrame, NetworkEvents
  <1>4. ASSUME NEW field \in EditFields \cap {"enabled", "pinned", "verified",
                                               "gateway"},
               NEW b \in BOOLEAN, SetFlag(v, field, b)
        PROVE  IInv' /\ UserFrame
    <2> DEFINE q == CASE field = "enabled"  -> [peers[v] EXCEPT !.enabled = b]
                      [] field = "pinned"   -> [peers[v] EXCEPT !.pinned = b]
                      [] field = "verified" -> [peers[v] EXCEPT !.verified = b]
                      [] field = "gateway"  -> [peers[v] EXCEPT !.use_as_gateway = b]
    <2>1. v \in Known(peers) =>
            /\ q \in Peer /\ q.desc = peers[v].desc
            /\ q.names = peers[v].names /\ q.hidden = peers[v].hidden
      <3> SUFFICES ASSUME v \in Known(peers)
                   PROVE  /\ q \in Peer /\ q.desc = peers[v].desc
                          /\ q.names = peers[v].names /\ q.hidden = peers[v].hidden
        OBVIOUS
      <3>1. peers[v] \in Peer
        BY <1>2 DEF PeerOK
      <3>2. CASE field = "enabled"
        BY <3>1, <3>2 DEF Peer
      <3>3. CASE field = "pinned"
        BY <3>1, <3>3 DEF Peer
      <3>4. CASE field = "verified"
        BY <3>1, <3>4 DEF Peer
      <3>5. CASE field = "gateway"
        BY <3>1, <3>5 DEF Peer
      <3> QED
        BY <3>2, <3>3, <3>4, <3>5
    <2>2. EditPeer("USER_EDIT", v, q)
      BY <1>4 DEF SetFlag
    <2> HIDE DEF q
    <2> QED
      BY <1>2, <1>3, <2>1, <2>2, EditPeerOK DEF PeerOK
  <1>5. ASSUME NEW n \in Host \cup {NoName}, SetPetname(v, n)
        PROVE  IInv' /\ UserFrame
    <2> DEFINE q == [peers[v] EXCEPT !.petname = n]
    <2>1. v \in Known(peers) =>
            /\ q \in Peer /\ q.desc = peers[v].desc
            /\ q.names \cap q.hidden = {} /\ q.desc.host \in q.names \cup q.hidden
      BY <1>2 DEF PeerOK, Peer
    <2>2. EditPeer("USER_EDIT", v, q)
      BY <1>5 DEF SetPetname
    <2> HIDE DEF q
    <2> QED
      BY <1>3, <2>1, <2>2, EditPeerOK
  <1>6. ASSUME NEW h \in Host, NEW b \in BOOLEAN, SetNickname(v, h, b)
        PROVE  IInv' /\ UserFrame
    <2> DEFINE q == [peers[v] EXCEPT
                        !.names  = IF b THEN @ \cup {h} ELSE @ \ {h},
                        !.hidden = IF b THEN @ \ {h} ELSE @ \cup {h}]
    <2>1. v \in Known(peers) =>
            /\ q \in Peer /\ q.desc = peers[v].desc
            /\ q.names \cap q.hidden = {} /\ q.desc.host \in q.names \cup q.hidden
      BY <1>2 DEF PeerOK, Peer
    <2>2. EditPeer("USER_EDIT", v, q)
      BY <1>6 DEF SetNickname
    <2> HIDE DEF q
    <2> QED
      BY <1>3, <2>1, <2>2, EditPeerOK
  <1>7. ASSUME NEW h, VerifyAndPinPeer(v, h)
        PROVE  IInv' /\ UserFrame
    BY <1>7, VerifyAndPinPeerOK DEF UserFrame, Events, NetworkEvents
  <1>8. ASSUME NEW a \in UserAddrs, NEW b \in BOOLEAN, SetAddr(v, a, b)
        PROVE  IInv' /\ UserFrame
    <2> DEFINE q == [peers[v] EXCEPT
                        !.on  = IF b THEN @ \cup {a} ELSE @ \ {a},
                        !.off = IF b THEN @ \ {a} ELSE @ \cup {a}]
    <2>1. v \in Known(peers) =>
            /\ q \in Peer /\ q.desc = peers[v].desc
            /\ q.names \cap q.hidden = {} /\ q.desc.host \in q.names \cup q.hidden
      BY <1>2, InputTypes DEF PeerOK, Peer
    <2>2. EditPeer("USER_EDIT", v, q)
      BY <1>8 DEF SetAddr
    <2> HIDE DEF q
    <2> QED
      BY <1>3, <2>1, <2>2, EditPeerOK
  <1>9. ASSUME NEW a \in UserAddrs, UserPeerAddrAdd(v, a)
        PROVE  IInv' /\ UserFrame
    <2>1. CASE NoWrites("USER_PEER_ADDR_ADD")
      BY <2>1, AbortOK DEF UserFrame, Events, NetworkEvents
    <2>2. CASE /\ v \in Known(peers)
               /\ ValidatePeers("USER_PEER_ADDR_ADD",
                    [peers EXCEPT ![v].on = @ \cup {a}, ![v].off = @ \ {a}], {v})
      <3> DEFINE r == [peers[v] EXCEPT !.on = @ \cup {a}, !.off = @ \ {a}]
      <3>1. PeerOK(v, r) /\ LocalOK(r, Local(system_state))
        BY <1>2, <2>2, InputTypes DEF PeerOK, LocalOK, Peer
      <3>2. [peers EXCEPT ![v].on = @ \cup {a}, ![v].off = @ \ {a}]
              = [peers EXCEPT ![v] = r]
        BY DEF IInv, TableOK, Peers
      <3>3. r.desc = peers[v].desc /\ r.hidden = peers[v].hidden
        BY <1>2, <2>2 DEF PeerOK, Peer
      <3> HIDE DEF r
      <3>4. TableOK([peers EXCEPT ![v] = r], Local(system_state))
        BY <3>1, WriteOK
      <3>5. KeepsTable("USER_PEER_ADDR_ADD", [peers EXCEPT ![v] = r])
        BY <2>2, <3>3, WriteKeeps
      <3>6. IInv' /\ Frame("USER_PEER_ADDR_ADD")
        BY <2>2, <3>2, <3>4, <3>5, ValidatePeersOK, ValidatePeersFrame DEF Events
      <3> QED
        BY <3>6 DEF UserFrame, Events, NetworkEvents
    <2> QED
      BY <1>9, <2>1, <2>2 DEF UserPeerAddrAdd
  <1>10. ASSUME NEW a \in UserAddrs, UserPeerAddrDel(v, a)
         PROVE  IInv' /\ UserFrame
    <2>1. CASE NoWrites("USER_PEER_ADDR_DEL") \/ Abort("USER_PEER_ADDR_DEL")
      BY <2>1, AbortOK DEF UserFrame, Events, NetworkEvents
    <2>2. CASE /\ v \in Known(peers)
               /\ ValidatePeers("USER_PEER_ADDR_DEL",
                    [peers EXCEPT ![v].on = @ \ {a}, ![v].off = @ \ {a}], {v})
      <3> DEFINE r == [peers[v] EXCEPT !.on = @ \ {a}, !.off = @ \ {a}]
      <3>1. PeerOK(v, r) /\ LocalOK(r, Local(system_state))
        BY <1>2, <2>2 DEF PeerOK, LocalOK, Peer
      <3>2. [peers EXCEPT ![v].on = @ \ {a}, ![v].off = @ \ {a}]
              = [peers EXCEPT ![v] = r]
        BY DEF IInv, TableOK, Peers
      <3>3. r.desc = peers[v].desc /\ r.hidden = peers[v].hidden
        BY <1>2, <2>2 DEF PeerOK, Peer
      <3> HIDE DEF r
      <3>4. TableOK([peers EXCEPT ![v] = r], Local(system_state))
        BY <3>1, WriteOK
      <3>5. KeepsTable("USER_PEER_ADDR_DEL", [peers EXCEPT ![v] = r])
        BY <2>2, <3>3, WriteKeeps
      <3>6. IInv' /\ Frame("USER_PEER_ADDR_DEL")
        BY <2>2, <3>2, <3>4, <3>5, ValidatePeersOK, ValidatePeersFrame DEF Events
      <3> QED
        BY <3>6 DEF UserFrame, Events, NetworkEvents
    <2> QED
      BY <1>10, <2>1, <2>2 DEF UserPeerAddrDel
  <1> QED
    BY <1>1, <1>4, <1>5, <1>6, <1>7, <1>8, <1>9, <1>10

\* All of the user's commands.
LEMMA UserStepOK ==
    ASSUME IInv, UserStep
    PROVE  IInv' /\ UserFrame
  <1>1. ASSUME NEW key \in Vk \cup Host \cup Addr, UserRemovePeer(key)
        PROVE  IInv' /\ UserFrame
    <2>1. CASE NoWrites("USER_REMOVE_PEER") \/ Abort("USER_REMOVE_PEER")
      BY <2>1, AbortOK DEF UserFrame, Events, NetworkEvents
    <2>2. ASSUME NEW hit \in Query(peers, key),
                 ValidatePeers("USER_REMOVE_PEER",
                               [peers EXCEPT ![hit[1]] = NoPeer], {})
          PROVE  IInv' /\ UserFrame
      <3>1. hit[1] \in Known(peers) /\ hit[1] \in Vk
        BY DEF Query, WithIp, Enabled, Known
      <3>2. TableOK([peers EXCEPT ![hit[1]] = NoPeer], Local(system_state))
        BY <3>1, WriteOK
      <3>3. KeepsTable("USER_REMOVE_PEER", [peers EXCEPT ![hit[1]] = NoPeer])
        BY <3>1, WriteKeeps
      <3>4. IInv' /\ Frame("USER_REMOVE_PEER")
        BY <2>2, <3>2, <3>3, ValidatePeersOK, ValidatePeersFrame DEF Events
      <3> QED
        BY <3>4 DEF UserFrame, Events, NetworkEvents
    <2> QED
      BY <1>1, <2>1, <2>2 DEF UserRemovePeer
  <1>2. CASE ReleaseGateway
    <2>1. CASE NoWrites("RELEASE_GATEWAY")
      BY <2>1, AbortOK DEF UserFrame, Events, NetworkEvents
    <2>2. ASSUME NEW v \in FlaggedAsGateway(peers),
                 EditPeer("RELEASE_GATEWAY", v,
                          [peers[v] EXCEPT !.use_as_gateway = FALSE])
          PROVE  IInv' /\ UserFrame
      <3> DEFINE q == [peers[v] EXCEPT !.use_as_gateway = FALSE]
      <3>1. v \in Known(peers) /\ v \in Vk
        BY DEF FlaggedAsGateway, Known
      <3>2. PeerOK(v, peers[v])
        BY <3>1, KnownOK
      <3>3. /\ q \in Peer /\ q.desc = peers[v].desc
            /\ q.names \cap q.hidden = {} /\ q.desc.host \in q.names \cup q.hidden
            /\ q.hidden = peers[v].hidden
        BY <3>2 DEF PeerOK, Peer
      <3>4. EditPeer("RELEASE_GATEWAY", v, q)
        BY <2>2
      <3> HIDE DEF q
      <3>5. IInv' /\ Frame("RELEASE_GATEWAY")
        BY <3>1, <3>3, <3>4, EditPeerOK DEF Events
      <3> QED
        BY <3>5 DEF UserFrame, Events, NetworkEvents
    <2> QED
      BY <1>2, <2>1, <2>2 DEF ReleaseGateway
  <1>3. ASSUME NEW pf \in Prefs, EditPrefs(pf)
        PROVE  IInv' /\ UserFrame
    <2>1. KeepsTable("USER_EDIT", peers)
      BY DEF KeepsTable
    <2>2. IInv' /\ Frame("USER_EDIT")
      BY <1>3, <2>1, ValidateOK, ValidateFrame DEF EditPrefs, IInv, Events
    <2> QED
      BY <2>2 DEF UserFrame, Events, NetworkEvents
  <1>4. ASSUME NEW b \in BOOLEAN, SetPinNewPeers(b)
        PROVE  IInv' /\ UserFrame
    <2>1. [prefs EXCEPT !.pin_new_peers = b] \in Prefs
      BY DEF IInv, Prefs
    <2> QED
      BY <1>3, <1>4, <2>1 DEF SetPinNewPeers
  <1>5. ASSUME NEW sn \in Subnet, EditSubnetsAllowed(sn)
        PROVE  IInv' /\ UserFrame
    <2>1. /\ [prefs EXCEPT !.subnets_allowed = @ \cup {sn}] \in Prefs
          /\ [prefs EXCEPT !.subnets_allowed = @ \ {sn}] \in Prefs
      BY DEF IInv, Prefs
    <2> QED
      BY <1>3, <1>5, <2>1 DEF EditSubnetsAllowed
  <1>6. ASSUME NEW dom \in Domain, EditLocalDomains(dom)
        PROVE  IInv' /\ UserFrame
    <2>1. /\ [prefs EXCEPT !.local_domains = @ \cup {dom}] \in Prefs
          /\ [prefs EXCEPT !.local_domains = @ \ {dom}] \in Prefs
      BY DEF IInv, Prefs
    <2> QED
      BY <1>3, <1>6, <2>1 DEF EditLocalDomains
  <1> QED
    BY <1>1, <1>2, <1>4, <1>5, <1>6, UserPeerStepOK
       DEF UserStep, CommandStep, NameStep

-----------------------------------------------------------------------------
(* The inductive invariant *)

\* The default state of the engine satisfies the inductive invariant.
LEMMA InitOK == Init => IInv
  <1> SUFFICES ASSUME Init PROVE IInv
    OBVIOUS
  <1>1. TableOK(peers, Local(system_state))
    BY DEF Init, TableOK, Peers
  <1>2. Conflicts(peers) = {}
    BY DEF Init, Conflicts, EnabledGateways, Enabled, Known
  <1>3. prefs \in Prefs /\ system_state \in SystemState /\ result \in Result
    BY InputTypes DEF Init, SystemState, Result, Events
  <1> QED
    BY <1>1, <1>2, <1>3 DEF IInv

\* Every event preserves the inductive invariant.
LEMMA NextOK == IInv /\ [Next]_vars => IInv'
  <1> SUFFICES ASSUME IInv, [Next]_vars PROVE IInv'
    OBVIOUS
  <1>1. CASE UNCHANGED vars
    BY <1>1 DEF vars, IInv
  <1>2. ASSUME NEW d \in Descs, AcceptDescriptor(d) \/ RejectDescriptor(d)
        PROVE  IInv'
    BY <1>2, AcceptDescriptorOK, AbortOK DEF RejectDescriptor, Events
  <1>3. ASSUME NEW s \in SysStates, NewSystemState(s)
        PROVE  IInv'
    BY <1>3, NewSystemStateOK
  <1> QED
    BY <1>1, <1>2, <1>3, UserStepOK DEF Next, NetworkStep

\* The inductive invariant holds in every reachable state of the engine.
THEOREM Invariance == Spec => []IInv
  BY InitOK, NextOK, PTL DEF Spec

\* Type correctness: every transaction of the engine leaves well-formed
\* peers, each under its own key and without contradictory entries.
THEOREM TypeCorrectness == Spec => []TypeOK
  <1>1. IInv => TypeOK
    BY DEF IInv, TableOK, TypeOK, PeerOK, Known
  <1> QED
    BY <1>1, Invariance, PTL

\* Peer.name, and with it _update_peer, never fails for want of a nickname.
THEOREM HostnameIsNickname == Spec => []NicknamesHoldHostname
  <1>1. IInv => NicknamesHoldHostname
    BY DEF IInv, TableOK, PeerOK, Known, NicknamesHoldHostname
  <1> QED
    BY <1>1, Invariance, PTL

\* Unpinned peers are only ever reached at addresses that are local now.
THEOREM UnpinnedLocality == Spec => []UnpinnedIsLocal
  <1>1. IInv => UnpinnedIsLocal
    BY DEF IInv, TableOK, LocalOK, Known, UnpinnedIsLocal
  <1> QED
    BY <1>1, Invariance, PTL

\* In a table without conflicts what an enabled peer announces is its own.
LEMMA UniqueFromInv == IInv => AnnouncedIsUnique
  <1>1. ASSUME IInv, NEW v \in Enabled(peers), NEW u \in Enabled(peers) \ {v}
        PROVE  /\ peers[v].desc.host \notin peers[u].names
               /\ peers[u].desc.pk # peers[v].desc.pk
               /\ peers[v].desc.addrs \cap peers[u].on = {}
    <2>1. peers[v].desc.vk = v
      BY <1>1, KnownOK DEF Enabled, PeerOK
    <2>2. ConflictsForDescriptor(peers, peers[v].desc) = {}
      BY <1>1 DEF IInv, Conflicts
    <2> QED
      BY <2>1, <2>2 DEF ConflictsForDescriptor, EnabledNames
  <1> QED
    BY <1>1 DEF AnnouncedIsUnique, WithHostname

\* No two enabled peers announce the same name, address or key.
THEOREM AnnouncedUniqueness == Spec => []AnnouncedIsUnique
  BY UniqueFromInv, Invariance, PTL

-----------------------------------------------------------------------------
(* What a step never does *)

\* A pinned peer with an address is not removed by _update_peer and loses
\* nothing.
LEMMA UpdateKeepsPinned ==
    ASSUME NEW q \in Peer, q.pinned, q.desc.addrs # {},
           NEW pf, NEW local, local \subseteq Addr, NEW gws
    PROVE  LET r == UpdatePeer(q, pf, local, gws)
           IN  /\ r # NoPeer
               /\ r.desc = q.desc /\ r.petname = q.petname /\ r.hidden = q.hidden
               /\ r.enabled = q.enabled /\ r.verified = q.verified
               /\ r.pinned
               /\ q.use_as_gateway => r.use_as_gateway
               /\ q.names \subseteq r.names
               /\ q.on \subseteq r.on
  <1>1. q.on \subseteq UsableAddrs(q, pf, local) /\ UsableAddrs(q, pf, local) # {}
    BY DEF UsableAddrs
  <1> QED
    BY <1>1, UpdateFields

\* What the network may do to the peer that is stored under v.
KeptEntry(v) ==
    /\ peers[v].pinned => peers'[v] # NoPeer
    /\ peers'[v] # NoPeer =>
          /\ peers'[v].desc.vf >= peers[v].desc.vf
          /\ peers[v].hidden \subseteq peers'[v].hidden
    /\ peers[v].pinned =>
          /\ peers'[v].pinned
          /\ peers'[v].enabled = peers[v].enabled
          /\ peers'[v].verified = peers[v].verified
          /\ peers'[v].petname = peers[v].petname
          /\ peers[v].use_as_gateway => peers'[v].use_as_gateway
          /\ peers[v].names \subseteq peers'[v].names
          /\ peers[v].on \subseteq peers'[v].on

\* It is enough to look at one entry of the table at a time.
LEMMA KeptEntriesSuffice ==
    ASSUME \A v \in Known(peers) : KeptEntry(v)
    PROVE  KeepsPinned /\ KeepsVf /\ KeepsHidden
  BY DEF KeptEntry, KeepsPinned, KeepsVf, KeepsHidden, Known

\* An entry that no write touched is kept.
LEMMA SameEntryIsKept ==
    ASSUME IInv, NEW v \in Known(peers), peers'[v] = peers[v]
    PROVE  KeptEntry(v)
  <1>1. peers[v] \in Peer /\ peers[v] # NoPeer
    BY KnownOK DEF PeerOK, Known
  <1>2. peers[v].desc.vf \in Nat
    BY <1>1, ConstantTypes DEF Peer, Descriptor
  <1> QED
    BY <1>1, <1>2 DEF KeptEntry

\* What a descriptor that is accepted leaves alone.
LEMMA AcceptDescriptorKeeps ==
    ASSUME IInv, NEW d \in Descs, AcceptDescriptor(d)
    PROVE  KeepsPinned /\ KeepsVf /\ KeepsHidden /\ EvictionSucceeded
  <1> DEFINE ps == [v \in Vk |->
                      IF v = d.vk THEN Updated(WithDescriptor(d))
                      ELSE IF v \in ConflictsForDescriptor(peers, d) THEN NoPeer
                      ELSE peers[v]]
  <1>1. CASE Abort("INCOMING_DESCRIPTOR")
    <2>1. peers' = peers
      BY <1>1 DEF Abort
    <2>2. KeepsPinned /\ KeepsVf /\ KeepsHidden
      BY <2>1, SameEntryIsKept, KeptEntriesSuffice
    <2>3. EvictionSucceeded
      BY <2>1 DEF EvictionSucceeded
    <2> QED
      BY <2>2, <2>3
  <1>2. CASE /\ peers' = ps
             /\ \/ result' = [event |-> "INCOMING_DESCRIPTOR", error |-> FALSE,
                              sync |-> {d.vk} \cap Known(ps)]
                \/ result' = [event |-> "INCOMING_DESCRIPTOR", error |-> TRUE,
                              sync |-> {}]
    <2>1. ASSUME NEW v \in Known(peers) PROVE KeptEntry(v)
      <3>1. v \in Vk /\ PeerOK(v, peers[v])
        BY KnownOK
      <3>2. CASE v = d.vk
        <4> DEFINE q == [peers[v] EXCEPT !.desc = d]
        <4>1. q = WithDescriptor(d)
          BY <3>2 DEF WithDescriptor
        <4>2. /\ q \in Peer /\ q.desc = d /\ q.hidden = peers[v].hidden
              /\ q.pinned = peers[v].pinned /\ q.petname = peers[v].petname
              /\ q.enabled = peers[v].enabled /\ q.verified = peers[v].verified
              /\ q.use_as_gateway = peers[v].use_as_gateway
              /\ q.names = peers[v].names /\ q.on = peers[v].on
          BY <3>1 DEF PeerOK, Peer
        <4> HIDE DEF q
        <4>3. peers'[v] = Updated(q)
          BY <1>2, <3>1, <3>2, <4>1
        <4>4. /\ d.addrs # {} /\ d.vf >= peers[v].desc.vf
              /\ Local(system_state) \subseteq Addr
          BY <3>2, LocalType DEF AcceptDescriptor, Acceptable, IInv
        <4>5. Updated(q) # NoPeer => /\ Updated(q).desc = q.desc
                                     /\ Updated(q).hidden = q.hidden
          BY <4>2, UpdatedKeeps
        <4>6. q.pinned => LET r == Updated(q)
                          IN  /\ r # NoPeer
                              /\ r.petname = q.petname
                              /\ r.enabled = q.enabled /\ r.verified = q.verified
                              /\ r.pinned
                              /\ q.use_as_gateway => r.use_as_gateway
                              /\ q.names \subseteq r.names
                              /\ q.on \subseteq r.on
          BY <4>2, <4>4, UpdateKeepsPinned DEF Updated
        <4> QED
          BY <4>2, <4>3, <4>4, <4>5, <4>6 DEF KeptEntry
      <3>3. CASE v # d.vk /\ v \in ConflictsForDescriptor(peers, d)
        <4>1. peers'[v] = NoPeer /\ ~peers[v].pinned
          BY <1>2, <3>1, <3>3 DEF AcceptDescriptor, Acceptable
        <4> QED
          BY <4>1 DEF KeptEntry
      <3>4. CASE v # d.vk /\ v \notin ConflictsForDescriptor(peers, d)
        BY <1>2, <3>1, <3>4, SameEntryIsKept
      <3> QED
        BY <3>2, <3>3, <3>4
    <2>2. ASSUME Local(system_state) \subseteq Allowed(prefs)
          PROVE  result'.sync # {} \/ result'.error
      <3> DEFINE q == WithDescriptor(d)
      <3>1. /\ d \in Descriptor /\ d.vk \in Vk
            /\ d.addrs \cap Local(system_state) # {}
        BY ConstantTypes DEF Descriptor, AcceptDescriptor, Acceptable
      <3>2. q \in Peer /\ q.desc = d
        <4>1. CASE d.vk \in Known(peers)
          BY <4>1, KnownOK DEF PeerOK, Peer, WithDescriptor
        <4>2. CASE d.vk \notin Known(peers)
          <5>1. q = MakePeer(d, ~d.e /\ prefs.pin_new_peers)
            BY <4>2 DEF WithDescriptor
          <5>2. d.host \in Host /\ d.addrs \subseteq Addr
            BY <3>1 DEF Descriptor
          <5> QED
            BY <5>1, <5>2 DEF MakePeer, Peer
        <4> QED
          BY <4>1, <4>2
      <3> HIDE DEF q
      <3>3. UsableAddrs(q, prefs, Local(system_state)) # {}
        BY <2>2, <3>1, <3>2 DEF UsableAddrs
      <3>4. Local(system_state) \subseteq Addr
        BY LocalType DEF IInv
      <3>5. Updated(q) # NoPeer
        BY <3>2, <3>3, <3>4, UpdateFields DEF Updated
      <3>6. ps[d.vk] # NoPeer
        BY <3>1, <3>5 DEF q
      <3> HIDE DEF ps
      <3>7. d.vk \in Known(ps)
        BY <3>1, <3>6 DEF Known
      <3> QED
        BY <1>2, <3>7
    <2>3. KeepsPinned /\ KeepsVf /\ KeepsHidden
      BY <2>1, KeptEntriesSuffice
    <2> QED
      BY <2>2, <2>3 DEF EvictionSucceeded
  <1> QED
    BY <1>1, <1>2 DEF AcceptDescriptor, ValidatePeers, Validate

\* What a new system state leaves alone.
LEMMA NewSystemStateKeeps ==
    ASSUME IInv, NEW s \in SysStates, NewSystemState(s)
    PROVE  KeepsPinned /\ KeepsVf /\ KeepsHidden
  <1>1. s \in SystemState
    BY InputTypes
  <1>2. PICK cur \in AnyOf(FlaggedAsGateway(peers)) :
          \E hit \in AnyOf(GatewayCandidates(cur, s)) :
            LET ps == [v \in Vk |->
                         IF v \in Known(peers)
                         THEN UpdatePeer(Reflagged(v, LostGateway(cur, s), hit),
                                         prefs, Local(s), system_state.gateways)
                         ELSE NoPeer]
            IN  Validate("NEW_SYSTEM_STATE", ps, prefs, s, Known(ps) \cup hit)
    BY DEF NewSystemState
  <1>3. PICK hit \in AnyOf(GatewayCandidates(cur, s)) :
            LET ps == [v \in Vk |->
                         IF v \in Known(peers)
                         THEN UpdatePeer(Reflagged(v, LostGateway(cur, s), hit),
                                         prefs, Local(s), system_state.gateways)
                         ELSE NoPeer]
            IN  Validate("NEW_SYSTEM_STATE", ps, prefs, s, Known(ps) \cup hit)
    BY <1>2
  <1> DEFINE lost == LostGateway(cur, s)
             ps == [v \in Vk |->
                      IF v \in Known(peers)
                      THEN UpdatePeer(Reflagged(v, lost, hit),
                                      prefs, Local(s), system_state.gateways)
                      ELSE NoPeer]
  <1>4. CASE peers' = peers
    BY <1>4, SameEntryIsKept, KeptEntriesSuffice
  <1>5. CASE peers' = ps
    <2>1. ASSUME NEW v \in Known(peers) PROVE KeptEntry(v)
      <3> DEFINE q == Reflagged(v, lost, hit)
      <3>1. v \in Vk /\ PeerOK(v, peers[v])
        BY KnownOK
      <3>2. /\ q \in Peer /\ q.desc = peers[v].desc /\ q.hidden = peers[v].hidden
            /\ q.pinned = peers[v].pinned /\ q.petname = peers[v].petname
            /\ q.enabled = peers[v].enabled /\ q.verified = peers[v].verified
            /\ q.names = peers[v].names /\ q.on = peers[v].on
            /\ q.use_as_gateway =
                  ((peers[v].use_as_gateway \/ v \in hit) /\ v \notin lost \ hit)
        BY <3>1 DEF PeerOK, Peer, Reflagged
      <3>3. peers[v].pinned /\ peers[v].use_as_gateway => q.use_as_gateway
        BY <3>2 DEF LostGateway
      <3> HIDE DEF q
      <3>4. peers'[v] = UpdatePeer(q, prefs, Local(s), system_state.gateways)
        BY <1>5, <2>1, <3>1 DEF q
      <3>5. Local(s) \subseteq Addr /\ q.desc.addrs # {} /\ q.desc.vf \in Nat
        BY <1>1, <3>1, <3>2, LocalType, ConstantTypes DEF PeerOK, Peer, Descriptor
      <3>6. peers'[v] # NoPeer => peers'[v].desc = q.desc /\ peers'[v].hidden = q.hidden
        <4>1. peers'[v] # NoPeer => UsableAddrs(q, prefs, Local(s)) # {}
          BY <3>4 DEF UpdatePeer
        <4> QED
          BY <3>2, <3>4, <3>5, <4>1, UpdateFields
      <3>7. q.pinned => LET r == peers'[v]
                        IN  /\ r # NoPeer
                            /\ r.petname = q.petname
                            /\ r.enabled = q.enabled /\ r.verified = q.verified
                            /\ r.pinned
                            /\ q.use_as_gateway => r.use_as_gateway
                            /\ q.names \subseteq r.names
                            /\ q.on \subseteq r.on
        BY <3>2, <3>4, <3>5, UpdateKeepsPinned
      <3> QED
        BY <3>2, <3>3, <3>5, <3>6, <3>7 DEF KeptEntry
    <2> QED
      BY <2>1, KeptEntriesSuffice
  <1> QED
    BY <1>3, <1>4, <1>5 DEF Validate, Abort

\* A step of the network, of the user, or none.
LEMMA StepKeeps ==
    ASSUME IInv, [Next]_vars
    PROVE  /\ KeepsVf
           /\ result'.event # "USER_EDIT" => KeepsHidden
           /\ EvictionSucceeded
           /\ result'.event \in NetworkEvents => KeepsPinned
  <1>1. CASE peers' = peers
    <2>1. KeepsPinned /\ KeepsVf /\ KeepsHidden
      BY <1>1, SameEntryIsKept, KeptEntriesSuffice
    <2>2. EvictionSucceeded
      BY <1>1 DEF EvictionSucceeded
    <2> QED
      BY <2>1, <2>2
  <1>2. ASSUME NEW d \in Descs, AcceptDescriptor(d)
        PROVE  KeepsPinned /\ KeepsVf /\ KeepsHidden /\ EvictionSucceeded
    BY <1>2, AcceptDescriptorKeeps
  <1>3. ASSUME NEW s \in SysStates, NewSystemState(s)
        PROVE  KeepsPinned /\ KeepsVf /\ KeepsHidden /\ EvictionSucceeded
    <2>1. result'.event = "NEW_SYSTEM_STATE"
      BY <1>3 DEF NewSystemState, Validate, Abort
    <2> QED
      BY <1>3, <2>1, NewSystemStateKeeps DEF EvictionSucceeded
  <1>4. CASE UserStep
    <2>1. UserFrame
      BY <1>4, UserStepOK
    <2>2. PICK e \in Events \ NetworkEvents : Frame(e)
      BY <2>1 DEF UserFrame
    <2>3. result'.event = e /\ e \notin NetworkEvents
      BY <2>2 DEF Frame
    <2>4. KeepsVf
      <3>1. \A v \in Known(peers) : peers[v].desc.vf \in Nat
        BY KnownOK, ConstantTypes DEF PeerOK, Peer, Descriptor
      <3> QED
        BY <2>2, <3>1 DEF Frame, KeepsTable, KeepsVf
    <2>5. e # "USER_EDIT" => KeepsHidden
      BY <2>2 DEF Frame, KeepsTable, KeepsHidden
    <2> QED
      BY <2>3, <2>4, <2>5 DEF EvictionSucceeded, NetworkEvents
  <1>5. ASSUME NEW d \in Descs, RejectDescriptor(d)
        PROVE  peers' = peers
    BY <1>5 DEF RejectDescriptor, NoWrites
  <1>6. CASE UNCHANGED vars
    BY <1>1, <1>6 DEF vars
  <1> QED
    BY <1>1, <1>2, <1>3, <1>4, <1>5, <1>6 DEF Next, NetworkStep

\* No conflicting descriptor and no change of the system removes a pinned
\* peer or takes a name, an address or the role of gateway from it.
THEOREM PinProtection == Spec => PinnedSurvives
  <1>1. IInv /\ [Next]_vars => [result'.event \in NetworkEvents => KeepsPinned]_vars
    BY StepKeeps
  <1> QED
    BY <1>1, Invariance, PTL DEF Spec, PinnedSurvives

\* An older descriptor never replaces a newer one of the same peer.
THEOREM ReplayProtection == Spec => VfNeverDecreases
  <1>1. IInv /\ [Next]_vars => [KeepsVf]_vars
    BY StepKeeps
  <1> QED
    BY <1>1, Invariance, PTL DEF Spec, VfNeverDecreases

\* Only the user enables a nickname that the user disabled.
THEOREM HiddenNames == Spec => HiddenNameStaysHidden
  <1>1. IInv /\ [Next]_vars => [result'.event # "USER_EDIT" => KeepsHidden]_vars
    BY StepKeeps
  <1> QED
    BY <1>1, Invariance, PTL DEF Spec, HiddenNameStaysHidden

\* A descriptor evicts only in order to stay, if local subnets are allowed.
THEOREM EvictionProtection == Spec => EvictionHasSuccessor
  <1>1. IInv /\ [Next]_vars => [EvictionSucceeded]_vars
    BY StepKeeps
  <1> QED
    BY <1>1, Invariance, PTL DEF Spec, EvictionHasSuccessor
-----------------------------------------------------------------------------
(* What the events of organize do to the standing of one peer *)

SameStanding(v) ==
    /\ peers'[v] = NoPeer <=> peers[v] = NoPeer
    /\ peers[v] # NoPeer => /\ peers'[v].pinned = peers[v].pinned
                            /\ peers'[v].verified = peers[v].verified

\* What the network and the system may do.
MetOrForgotten(v) ==
    \/ SameStanding(v)
    \/ peers[v] # NoPeer /\ ~peers[v].pinned /\ peers'[v] = NoPeer
    \/ peers[v] = NoPeer /\ peers'[v] # NoPeer /\ ~peers'[v].verified

\* Nothing but the entry of v changes.
OthersSame(v) == \A u \in Vk \ {v} : peers'[u] = peers[u]

\* _update_peer removes a peer or keeps its standing, and it removes only a
\* peer that is not pinned.
LEMMA UpdateStanding ==
    ASSUME NEW q \in Peer, q.desc.addrs # {}, NEW pf,
           NEW local, local \subseteq Addr, NEW gws
    PROVE  LET r == UpdatePeer(q, pf, local, gws)
           IN  /\ r = NoPeer => ~q.pinned
               /\ r # NoPeer => r.pinned = q.pinned /\ r.verified = q.verified
  <1>1. CASE UsableAddrs(q, pf, local) = {}
    <2>1. ~q.pinned
      BY <1>1 DEF UsableAddrs
    <2> QED
      BY <1>1, <2>1 DEF UpdatePeer
  <1>2. CASE UsableAddrs(q, pf, local) # {}
    BY <1>2, UpdateFields
  <1> QED
    BY <1>1, <1>2

\* A descriptor that is accepted meets its sender and may forget the peers it
\* conflicts with, none of which is pinned.
LEMMA AcceptStanding ==
    ASSUME IInv, NEW d \in Descs, AcceptDescriptor(d)
    PROVE  \A v \in Vk : MetOrForgotten(v)
  <1> DEFINE ps == [v \in Vk |->
                      IF v = d.vk THEN Updated(WithDescriptor(d))
                      ELSE IF v \in ConflictsForDescriptor(peers, d) THEN NoPeer
                      ELSE peers[v]]
  <1> SUFFICES ASSUME NEW v \in Vk PROVE MetOrForgotten(v)
    OBVIOUS
  <1>1. CASE peers' = peers
    BY <1>1 DEF MetOrForgotten, SameStanding
  <1>2. CASE peers' = ps
    <2>1. CASE v = d.vk
      <3> DEFINE q == WithDescriptor(d)
      <3>1. peers'[v] = Updated(q)
        BY <1>2, <2>1
      <3>2. /\ Acceptable(d) /\ d.addrs # {} /\ d \in Descriptor
            /\ Local(system_state) \subseteq Addr
        BY LocalType, ConstantTypes DEF AcceptDescriptor, Acceptable, IInv
      <3>3. CASE v \in Known(peers)
        <4>1. q = [peers[v] EXCEPT !.desc = d] /\ peers[v] \in Peer
          BY <2>1, <3>3, KnownOK DEF WithDescriptor, PeerOK
        <4>2. /\ q \in Peer /\ q.desc = d
              /\ q.pinned = peers[v].pinned /\ q.verified = peers[v].verified
          BY <4>1 DEF Peer
        <4> HIDE DEF q
        <4>3. LET r == Updated(q)
              IN  /\ r = NoPeer => ~q.pinned
                  /\ r # NoPeer => r.pinned = q.pinned /\ r.verified = q.verified
          BY <3>2, <4>2, UpdateStanding DEF Updated
        <4>4. peers[v] # NoPeer
          BY <3>3 DEF Known
        <4> QED
          BY <3>1, <4>2, <4>3, <4>4 DEF MetOrForgotten, SameStanding
      <3>4. CASE v \notin Known(peers)
        <4>1. q = MakePeer(d, ~d.e /\ prefs.pin_new_peers)
          BY <2>1, <3>4 DEF WithDescriptor
        <4>2. d.host \in Host /\ d.addrs \subseteq Addr
          BY <3>2 DEF Descriptor
        <4>3. q \in Peer /\ q.desc = d /\ q.verified = FALSE
          BY <4>1, <4>2 DEF MakePeer, Peer
        <4> HIDE DEF q
        <4>4. Updated(q) # NoPeer => ~Updated(q).verified
          BY <3>2, <4>3, UpdateStanding DEF Updated
        <4>5. peers[v] = NoPeer
          BY <3>4 DEF Known
        <4> QED
          BY <3>1, <4>4, <4>5 DEF MetOrForgotten, SameStanding
      <3> QED
        BY <3>3, <3>4
    <2>2. CASE v # d.vk /\ v \in ConflictsForDescriptor(peers, d)
      <3>1. peers'[v] = NoPeer /\ ~peers[v].pinned
        BY <1>2, <2>2 DEF AcceptDescriptor, Acceptable
      <3>2. peers[v] # NoPeer
        BY <2>2 DEF ConflictsForDescriptor, Enabled, Known
      <3> QED
        BY <3>1, <3>2 DEF MetOrForgotten
    <2>3. CASE v # d.vk /\ v \notin ConflictsForDescriptor(peers, d)
      BY <1>2, <2>3 DEF MetOrForgotten, SameStanding
    <2> QED
      BY <2>1, <2>2, <2>3
  <1> QED
    BY <1>1, <1>2 DEF AcceptDescriptor, ValidatePeers, Validate, Abort

\* A new system state may forget peers that are not pinned.
LEMMA SystemStanding ==
    ASSUME IInv, NEW s \in SysStates, NewSystemState(s)
    PROVE  \A v \in Vk : MetOrForgotten(v)
  <1> SUFFICES ASSUME NEW v \in Vk PROVE MetOrForgotten(v)
    OBVIOUS
  <1>1. CASE peers' = peers
    BY <1>1 DEF MetOrForgotten, SameStanding
  <1>2. ASSUME NEW lost, NEW hit,
               peers' = [u \in Vk |->
                           IF u \in Known(peers)
                           THEN UpdatePeer(Reflagged(u, lost, hit), prefs,
                                           Local(s), system_state.gateways)
                           ELSE NoPeer]
        PROVE  MetOrForgotten(v)
    <2>1. CASE v \notin Known(peers)
      BY <1>2, <2>1 DEF MetOrForgotten, SameStanding, Known
    <2>2. CASE v \in Known(peers)
      <3> DEFINE q == Reflagged(v, lost, hit)
      <3>1. peers[v] \in Peer /\ peers[v].desc.addrs # {} /\ peers[v] # NoPeer
        BY <2>2, KnownOK DEF PeerOK, Known
      <3>2. /\ q \in Peer /\ q.desc = peers[v].desc
            /\ q.pinned = peers[v].pinned /\ q.verified = peers[v].verified
        BY <3>1 DEF Peer, Reflagged
      <3>3. peers'[v] = UpdatePeer(q, prefs, Local(s), system_state.gateways)
        BY <1>2, <2>2
      <3> HIDE DEF q
      <3>4. Local(s) \subseteq Addr
        BY InputTypes, LocalType
      <3>5. LET r == peers'[v]
            IN  /\ r = NoPeer => ~q.pinned
                /\ r # NoPeer => r.pinned = q.pinned /\ r.verified = q.verified
        BY <3>1, <3>2, <3>3, <3>4, UpdateStanding
      <3> QED
        BY <3>1, <3>2, <3>5 DEF MetOrForgotten, SameStanding
    <2> QED
      BY <2>1, <2>2
  <1> QED
    BY <1>1, <1>2 DEF NewSystemState, Validate, Abort

\* action_EDIT of a peer changes nothing else, and `pinned' and `verified' only
\* as it is told.
LEMMA EditStanding ==
    ASSUME IInv, NEW e, NEW v \in Vk, NEW q, EditPeer(e, v, q),
           v \in Known(peers) => q \in Peer /\ q.desc = peers[v].desc
    PROVE  /\ result'.event = e
           /\ \/ peers' = peers
              \/ /\ v \in Known(peers)
                 /\ OthersSame(v)
                 /\ peers'[v] # NoPeer => peers'[v].verified = q.verified
  <1>1. result'.event = e
    BY DEF EditPeer, ValidatePeers, Validate, Abort
  <1>2. CASE peers' = peers
    BY <1>1, <1>2
  <1>3. CASE v \in Known(peers) /\ peers' = [peers EXCEPT ![v] = Updated(q)]
    <2>1. q \in Peer /\ q.desc.addrs # {} /\ Local(system_state) \subseteq Addr
      BY <1>3, KnownOK, LocalType DEF PeerOK, IInv
    <2>2. Updated(q) # NoPeer => Updated(q).verified = q.verified
      BY <2>1, UpdateStanding DEF Updated
    <2>3. peers'[v] = Updated(q) /\ OthersSame(v)
      BY <1>3 DEF OthersSame, IInv, TableOK, Peers
    <2> QED
      BY <1>1, <1>3, <2>2, <2>3
  <1> QED
    BY <1>2, <1>3 DEF EditPeer, ValidatePeers, Validate, Abort

\* Setting a flag of a peer.
LEMMA FlagStanding ==
    ASSUME IInv, NEW v \in Vk, NEW b \in BOOLEAN,
           NEW field \in EditFields \cap {"enabled", "pinned", "verified",
                                           "gateway"},
           SetFlag(v, field, b)
    PROVE  /\ result'.event = "USER_EDIT"
           /\ \/ peers' = peers
              \/ /\ v \in Known(peers)
                 /\ OthersSame(v)
                 /\ field # "verified" /\ peers'[v] # NoPeer =>
                       peers'[v].verified = peers[v].verified
  <1> DEFINE q == CASE field = "enabled"  -> [peers[v] EXCEPT !.enabled = b]
                    [] field = "pinned"   -> [peers[v] EXCEPT !.pinned = b]
                    [] field = "verified" -> [peers[v] EXCEPT !.verified = b]
                    [] field = "gateway"  -> [peers[v] EXCEPT !.use_as_gateway = b]
  <1>1. ASSUME v \in Known(peers)
        PROVE  /\ q \in Peer /\ q.desc = peers[v].desc
               /\ field # "verified" => q.verified = peers[v].verified
    <2>1. peers[v] \in Peer
      BY <1>1, KnownOK DEF PeerOK
    <2>2. CASE field = "enabled"
      BY <2>1, <2>2 DEF Peer
    <2>3. CASE field = "pinned"
      BY <2>1, <2>3 DEF Peer
    <2>4. CASE field = "verified"
      BY <2>1, <2>4 DEF Peer
    <2>5. CASE field = "gateway"
      BY <2>1, <2>5 DEF Peer
    <2> QED
      BY <2>2, <2>3, <2>4, <2>5
  <1>2. EditPeer("USER_EDIT", v, q)
    BY DEF SetFlag
  <1> HIDE DEF q
  <1> QED
    BY <1>1, <1>2, EditStanding

\* Removing a peer.
LEMMA RemoveStanding ==
    ASSUME IInv, NEW key \in Vk \cup Host, UserRemovePeer(key)
    PROVE  /\ result'.event = "USER_REMOVE_PEER"
           /\ \/ peers' = peers
              \/ \E v \in Known(peers) : OthersSame(v) /\ peers'[v] = NoPeer
  <1>1. CASE NoWrites("USER_REMOVE_PEER") \/ Abort("USER_REMOVE_PEER")
    BY <1>1 DEF NoWrites, Abort
  <1>2. ASSUME NEW hit \in Query(peers, key),
               ValidatePeers("USER_REMOVE_PEER",
                             [peers EXCEPT ![hit[1]] = NoPeer], {})
        PROVE  /\ result'.event = "USER_REMOVE_PEER"
               /\ \/ peers' = peers
                  \/ \E v \in Known(peers) : OthersSame(v) /\ peers'[v] = NoPeer
    <2>1. hit[1] \in Known(peers) /\ hit[1] \in Vk
      BY DEF Query, WithIp, Enabled, Known
    <2>2. /\ result'.event = "USER_REMOVE_PEER"
          /\ peers' = peers \/ peers' = [peers EXCEPT ![hit[1]] = NoPeer]
      BY <1>2 DEF ValidatePeers, Validate, Abort
    <2> QED
      BY <2>1, <2>2 DEF OthersSame, IInv, TableOK, Peers
  <1> QED
    BY <1>1, <1>2 DEF UserRemovePeer

\* event_VERIFY_AND_PIN_PEER verifies and pins the peer with the key that it
\* was given, if that has the name, or does nothing.
LEMMA VerifyStanding ==
    ASSUME IInv, NEW v \in Vk, NEW h, VerifyAndPinPeer(v, h)
    PROVE  /\ result'.event = "VERIFY_AND_PIN_PEER"
           /\ \/ peers' = peers
              \/ /\ v \in Known(peers) /\ h \in peers[v].names
                 /\ OthersSame(v)
                 /\ peers'[v] # NoPeer /\ peers'[v].pinned /\ peers'[v].verified
  <1> DEFINE verified == Updated([peers[v] EXCEPT !.verified = TRUE])
             r == Updated([verified EXCEPT !.pinned = TRUE])
  <1>1. result'.event = "VERIFY_AND_PIN_PEER"
    BY DEF VerifyAndPinPeer, ValidatePeers, Validate, Abort
  <1>2. CASE peers' = peers
    BY <1>1, <1>2
  <1>3. CASE /\ WithHostname(peers, h) = {v}
             /\ verified # NoPeer
             /\ peers' = [peers EXCEPT ![v] = r]
    <2>1. v \in Known(peers) /\ PeerOK(v, peers[v]) /\ h \in peers[v].names
      BY <1>3, KnownOK DEF WithHostname, Enabled
    <2>2. Local(system_state) \subseteq Addr
      BY LocalType DEF IInv
    <2>3. verified \in Peer /\ verified.desc.addrs # {} /\ verified.verified = TRUE
      <3> DEFINE q == [peers[v] EXCEPT !.verified = TRUE]
      <3>1. q \in Peer /\ q.desc = peers[v].desc /\ q.verified = TRUE
        BY <2>1 DEF PeerOK, Peer
      <3>2. verified = Updated(q)
        OBVIOUS
      <3> HIDE DEF q, verified
      <3>3. UsableAddrs(q, prefs, Local(system_state)) # {}
        BY <1>3, <3>2 DEF Updated, UpdatePeer
      <3>4. Updated(q) \in Peer /\ Updated(q).desc = q.desc /\ Updated(q).verified = q.verified
        BY <2>2, <3>1, <3>3, UpdateFields DEF Updated
      <3> QED
        BY <2>1, <3>1, <3>2, <3>4 DEF PeerOK
    <2> HIDE DEF verified
    <2>4. r # NoPeer /\ r.pinned /\ r.verified
      <3> DEFINE q == [verified EXCEPT !.pinned = TRUE]
      <3>1. q \in Peer /\ q.desc = verified.desc /\ q.verified = TRUE /\ q.pinned = TRUE
        BY <2>3 DEF Peer
      <3>2. r = Updated(q)
        OBVIOUS
      <3> HIDE DEF q, r
      <3> QED
        BY <2>2, <2>3, <3>1, <3>2, UpdateStanding DEF Updated
    <2> HIDE DEF r
    <2>5. peers'[v] = r /\ OthersSame(v)
      BY <1>3 DEF OthersSame, IInv, TableOK, Peers
    <2> QED
      BY <1>1, <2>1, <2>4, <2>5
  <1> QED
    BY <1>2, <1>3 DEF VerifyAndPinPeer, ValidatePeers, Validate, Abort
=============================================================================
