------------------------ MODULE OrganizeDaemonProofs ------------------------
(***************************************************************************)
(* Proofs about OrganizeDaemon, for every choice of its constants.         *)
(*                                                                         *)
(* DInv, the type invariant, says of the calls that wait in a thread that  *)
(* they are well formed, and of the state file that it holds a table that  *)
(* the engine has validated; with the invariant of the engine this gives   *)
(* what holds of the table in spite of crashes and restarts.               *)
(*                                                                         *)
(* RepairRestores follows from two more invariants.  Orderly restricts the *)
(* order of the waiting calls: between a call that syncs, or leads to a    *)
(* sync, and the end of get_new_system_state, of run() or of repair after  *)
(* it nothing else changes the kernel.  SyncInv says of a sync() in        *)
(* progress that what is still wrong in the kernel is mended by a call     *)
(* that still waits, and that no waiting call is wrong for the table.      *)
(*                                                                         *)
(* EnabledConfigured follows from TInv, where the system and the peers are *)
(* such that no trigger undoes the work of another: the calls that wait in *)
(* the main thread give the enabled peers what they need and do not have,  *)
(* and a call that takes something from one of them is followed by one     *)
(* that gives it back (Work).                                              *)
(***************************************************************************)
EXTENDS OrganizeDaemon, OrganizeStateProofs, SequenceLemmas

PlainOps ==
    {"sync_gw_routes", "remove_unknown", "list_routes", "sync",
     "get_new_system_state", "start_monitor", "instruct_zeroconf", "main_loop",
     "reply", "catch"}

\* The calls that may wait in a thread.
Calls ==
    [op : PlainOps]
        \cup [op : {"sync_peer"}, vk : Vk]
        \cup [op : {"apply_peerconfig", "sync_routes"}, peer : Peer]
        \cup [op : {"add_routes", "remove_routes"}, dests : SUBSET Addr]
        \cup [op : {"remove_wg_peer"}, pk : Pk]
        \cup [op : {"remove_unknown_peers"}, pks : SUBSET Pk]
        \cup [op : {"del_routes"}, dests : SUBSET Addr, gw : BOOLEAN]
        \cup [op : {"adopt"}, state : SysStates]

DiskOK ==
    /\ TableOK(disk.peers, Local(disk.system_state))
    /\ Conflicts(disk.peers) = {}
    /\ disk.prefs \in Prefs
    /\ disk.system_state \in SystemState

\* No thread waits at the end of a try block.
ThreadsOK ==
    /\ todo \in [Thread -> Seq(Calls)]
    /\ \A t \in Thread : todo[t] # <<>> => todo[t][1].op # "catch"
    /\ status \in [Thread -> {"off", "running", "dead"}]

DInv ==
    /\ IInv
    /\ DiskOK
    /\ KernelTypeOK
    /\ ThreadsOK
    /\ notified \in BOOLEAN
    /\ real \in SysStates
    /\ undisturbed \in [Thread -> BOOLEAN]

-----------------------------------------------------------------------------
(* The invariants behind RepairRestores *)

\* The calls that end get_new_system_state, run() and repair, those that change
\* neither the table nor the kernel, and those that sync sooner or later.
Goal == {"instruct_zeroconf", "main_loop", "reply"}
Neutral == Goal \cup {"start_monitor"}
Source == {"sync", "get_new_system_state", "adopt"}

Orderly(s) ==
    \A a, b, n \in 1..Len(s) :
        a < b /\ b < n /\ s[a].op \in Source /\ s[n].op \in Goal =>
            s[b].op \in Neutral \cup {"sync"}

\* The ends that are reached without another sync().
Goals(s) ==
    {n \in 1..Len(s) : /\ s[n].op \in Goal
                       /\ \A i \in 1..n - 1 : s[i].op # "sync"}

Expected(ps) == UNION {Routes(ps[v]) : v \in Enabled(ps)}

\* A call that neither fails nor does harm, whenever it is made.
Sound(c) ==
    \/ c.op \in Neutral \cup {"catch", "remove_unknown", "list_routes"}
    \/ c.op = "sync_peer" /\ c.vk \in Known(peers)
    \/ /\ c.op \in {"apply_peerconfig", "sync_routes"}
       /\ \E v \in Enabled(peers) : c.peer = peers[v]
    \/ c.op = "sync_gw_routes" /\ EnabledGateways(peers) # {}
    \/ c.op = "remove_unknown_peers" /\ c.pks = EnabledPks(peers)

\* One that does not fail if it is made now.
SoundNow(c) ==
    \/ /\ c.op = "add_routes"
       /\ c.dests \cap routes = {}
       /\ c.dests \subseteq Expected(peers)
    \/ /\ c.op = "del_routes"
       /\ c.dests = routes \ Expected(peers)
       /\ c.gw = gw_routes

\* What the kernel needs for peer v, and what it must not have.
KeyDone(v) ==
    /\ peers[v].desc.pk \in wg_peers
    /\ \A a \in Addr \cup {Default} :
          allowed_ips[a] = peers[v].desc.pk => a \in WgAllowedIps(peers[v])
    /\ \A a \in WgAllowedIps(peers[v]) :
          \E u \in Holders(peers, a) : allowed_ips[a] = peers[u].desc.pk
RoutesDone(v) == Routes(peers[v]) \subseteq routes
GwDone(v) == peers[v].use_as_gateway => gw_routes
PeersClean == wg_peers \subseteq EnabledPks(peers)
RoutesClean ==
    /\ routes \subseteq Expected(peers)
    /\ gw_routes => EnabledGateways(peers) # {}

\* What is not done is done by one of the calls B, or by the first call c.
KeyComes(v, B) ==
    \/ KeyDone(v)
    \/ SyncPeer(v) \in B
    \/ WithPeer("apply_peerconfig", peers[v]) \in B
RoutesCome(v, B, c) ==
    \/ RoutesDone(v)
    \/ SyncPeer(v) \in B
    \/ WithPeer("sync_routes", peers[v]) \in B
    \/ c.op = "add_routes" /\ Routes(peers[v]) \subseteq routes \cup c.dests
GwComes(v, B) ==
    \/ GwDone(v)
    \/ SyncPeer(v) \in B
    \/ Call("sync_gw_routes") \in B
PeersBecomeClean(B) ==
    \/ PeersClean
    \/ Call("remove_unknown") \in B
    \/ \E c \in B : c.op = "remove_unknown_peers"
RoutesBecomeClean(B, c) ==
    \/ RoutesClean
    \/ Call("remove_unknown") \in B
    \/ Call("list_routes") \in B
    \/ c.op = "del_routes"

\* The calls before the n-th, without the first, and with it.
Later(s, n) == {s[i] : i \in 2..n - 1}
Before(s, n) == {s[i] : i \in 1..n - 1}

SyncInv(s, n) ==
    /\ \A c \in Later(s, n) : Sound(c)
    /\ n # 1 => Sound(s[1]) \/ SoundNow(s[1])
    /\ wg_peers \ wgi \subseteq EnabledPks(peers)
    /\ \A v \in Enabled(peers) :
          /\ KeyComes(v, Before(s, n))
          /\ RoutesCome(v, Before(s, n), s[1])
          /\ GwComes(v, Before(s, n))
    /\ PeersBecomeClean(Before(s, n))
    /\ RoutesBecomeClean(Before(s, n), s[1])

RInv ==
    \A t \in Thread :
        /\ Orderly(todo[t])
        /\ undisturbed[t] => \A n \in Goals(todo[t]) : SyncInv(todo[t], n)

-----------------------------------------------------------------------------
(* Lemmas about the calls that wait in a thread *)

\* The arguments of a call, by its name.
LEMMA CallFields ==
    ASSUME NEW c \in Calls
    PROVE  /\ c.op \in Ops
           /\ c.op = "sync_peer" => c.vk \in Vk
           /\ c.op \in {"apply_peerconfig", "sync_routes"} => c.peer \in Peer
           /\ c.op \in {"add_routes", "remove_routes", "del_routes"} =>
                 c.dests \subseteq Addr
           /\ c.op = "remove_wg_peer" => c.pk \in Pk
           /\ c.op = "remove_unknown_peers" => c.pks \subseteq Pk
           /\ c.op = "del_routes" => c.gw \in BOOLEAN
           /\ c.op = "adopt" => c.state \in SysStates
  BY DEF Calls, Ops, PlainOps

\* The calls that the model makes are calls.
LEMMA CallTypes ==
    /\ \A op \in PlainOps : Call(op) \in Calls
    /\ \A v \in Vk : SyncPeer(v) \in Calls
    /\ \A op \in {"apply_peerconfig", "sync_routes"}, q \in Peer :
          WithPeer(op, q) \in Calls
    /\ \A op \in {"add_routes", "remove_routes"}, ds \in SUBSET Addr :
          [op |-> op, dests |-> ds] \in Calls
    /\ \A pk \in Pk : [op |-> "remove_wg_peer", pk |-> pk] \in Calls
    /\ \A pks \in SUBSET Pk :
          [op |-> "remove_unknown_peers", pks |-> pks] \in Calls
    /\ \A ds \in SUBSET Addr, gw \in BOOLEAN :
          [op |-> "del_routes", dests |-> ds, gw |-> gw] \in Calls
    /\ \A s \in SysStates : [op |-> "adopt", state |-> s] \in Calls
  BY DEF Calls, Call, SyncPeer, WithPeer

\* r is what is left of s from its k-th element on.
SuffixFrom(r, s, k) ==
    /\ k \in 1..Len(s) + 1
    /\ Len(r) = Len(s) - k + 1
    /\ \A i \in 1..Len(r) : r[i] = s[i + k - 1]

\* SubSeq up to the end.
LEMMA SubSeqSuffix ==
    ASSUME NEW S, NEW s \in Seq(S), NEW k \in 1..Len(s) + 1
    PROVE  SubSeq(s, k, Len(s)) \in Seq(S) /\ SuffixFrom(SubSeq(s, k, Len(s)), s, k)
  BY DEF SuffixFrom

\* A suffix of a suffix.
LEMMA SuffixOfSuffix ==
    ASSUME NEW S, NEW q \in Seq(S), NEW r \in Seq(S), NEW s \in Seq(S),
           NEW k, NEW m, SuffixFrom(q, r, k), SuffixFrom(r, s, m)
    PROVE  SuffixFrom(q, s, k + m - 1)
  <1>1. /\ k \in 1..Len(r) + 1 /\ m \in 1..Len(s) + 1
        /\ Len(q) = Len(r) - k + 1 /\ Len(r) = Len(s) - m + 1
    BY DEF SuffixFrom
  <1>2. /\ k + m - 1 \in 1..Len(s) + 1
        /\ Len(q) = Len(s) - (k + m - 1) + 1
    BY <1>1
  <1>3. ASSUME NEW i \in 1..Len(q)
        PROVE  q[i] = s[i + (k + m - 1) - 1]
    <2>1. i + k - 1 \in 1..Len(r) /\ (i + k - 1) + m - 1 = i + (k + m - 1) - 1
      BY <1>1
    <2>2. q[i] = r[i + k - 1]
      BY DEF SuffixFrom
    <2>3. r[i + k - 1] = s[(i + k - 1) + m - 1]
      BY <2>1 DEF SuffixFrom
    <2> QED
      BY <2>1, <2>2, <2>3
  <1> QED
    BY <1>2, <1>3 DEF SuffixFrom

\* Resumed skips the ends of try blocks, and nothing else.
LEMMA ResumedSuffix ==
    ASSUME NEW s \in Seq(Calls)
    PROVE  /\ Resumed(s) \in Seq(Calls)
           /\ Resumed(s) # <<>> => Resumed(s)[1].op # "catch"
           /\ \E k \in 1..Len(s) + 1 :
                 /\ SuffixFrom(Resumed(s), s, k)
                 /\ \A i \in 1..k - 1 : s[i].op = "catch"
  <1> DEFINE I == {i \in 1..Len(s) : s[i].op # "catch"}
             m == IF I # {} THEN Min(I) ELSE 0
  <1>1. Resumed(s) = IF m = 0 THEN <<>> ELSE SubSeq(s, m, Len(s))
    BY DEF Resumed, SelectInSeq
  <1>2. CASE I = {}
    <2>1. Resumed(s) = <<>>
      BY <1>1, <1>2
    <2>2. SuffixFrom(<<>>, s, Len(s) + 1)
      BY DEF SuffixFrom
    <2> QED
      BY <1>2, <2>1, <2>2
  <1>3. CASE I # {}
    <2>1. I \subseteq Nat
      OBVIOUS
    <2>2. m \in I /\ \A y \in I : m <= y
      BY <1>3, <2>1, MinIsLeast
    <2> HIDE DEF m
    <2>3. m \in 1..Len(s) /\ s[m].op # "catch" /\ m # 0
      BY <2>2
    <2>4. Resumed(s) = SubSeq(s, m, Len(s))
      BY <1>1, <2>3
    <2>5. \A i \in 1..m - 1 : s[i].op = "catch"
      BY <2>2, <2>3
    <2>6. Resumed(s) \in Seq(Calls) /\ SuffixFrom(Resumed(s), s, m)
      BY <2>3, <2>4, SubSeqSuffix
    <2>7. Resumed(s)[1] = s[m]
      BY <2>3, <2>6 DEF SuffixFrom
    <2> QED
      BY <2>3, <2>5, <2>6, <2>7
  <1> QED
    BY <1>2, <1>3

\* What a thread has left once it has made its first call.
LEMMA RestType ==
    ASSUME ThreadsOK, NEW t \in Thread, todo[t] # <<>>
    PROVE  /\ Rest(t) \in Seq(Calls)
           /\ Head(todo[t]) \in Calls /\ Head(todo[t]) = todo[t][1]
           /\ SuffixFrom(Rest(t), todo[t], 2)
  <1>1. todo[t] \in Seq(Calls)
    BY DEF ThreadsOK
  <1> QED
    BY <1>1 DEF Rest, SuffixFrom

\* A thread that goes on.
LEMMA ContinueOK ==
    ASSUME ThreadsOK, NEW t \in Thread, NEW calls \in Seq(Calls),
           Continue(t, calls)
    PROVE  ThreadsOK'
  <1>1. /\ Resumed(calls) \in Seq(Calls)
        /\ Resumed(calls) # <<>> => Resumed(calls)[1].op # "catch"
    BY ResumedSuffix
  <1>2. todo' = [todo EXCEPT ![t] = Resumed(calls)] /\ status' = status
    BY DEF Continue
  <1> QED
    BY <1>1, <1>2 DEF ThreadsOK

\* An exception leaves a thread with nothing, or with what follows a catch.
LEMMA RaiseForm ==
    ASSUME ThreadsOK, NEW t \in Thread, todo[t] # <<>>, Raise(t)
    PROVE  /\ ThreadsOK'
           /\ \A u \in Thread \ {t} : todo'[u] = todo[u]
           /\ \/ todo'[t] = <<>>
              \/ \E b \in 2..Len(todo[t]), k \in 2..Len(todo[t]) + 1 :
                    /\ b < k
                    /\ \A i \in b..k - 1 : todo[t][i].op = "catch"
                    /\ SuffixFrom(todo'[t], todo[t], k)
  <1> DEFINE r == Rest(t)
             I == {i \in 1..Len(r) : r[i].op = "catch"}
             m == IF I # {} THEN Min(I) ELSE 0
  <1>1. /\ r \in Seq(Calls)
        /\ SuffixFrom(r, todo[t], 2)
    BY RestType
  <1>2. m = SelectInSeq(Rest(t), LAMBDA c : c.op = "catch")
    BY DEF SelectInSeq
  <1>3. CASE I = {}
    <2>1. \/ Continue(t, <<>>)
          \/ /\ status' = [status EXCEPT ![t] = "dead"]
             /\ todo' = [todo EXCEPT ![t] = <<>>]
      BY <1>2, <1>3 DEF Raise
    <2>2. Resumed(<<>>) = <<>>
      <3>1. <<>> \in Seq(Calls)
        OBVIOUS
      <3>2. PICK k \in 1..Len(<<>>) + 1 : SuffixFrom(Resumed(<<>>), <<>>, k)
        BY <3>1, ResumedSuffix
      <3> QED
        BY <3>1, <3>2, ResumedSuffix DEF SuffixFrom
    <2>3. todo' = [todo EXCEPT ![t] = <<>>]
      BY <2>1, <2>2 DEF Continue
    <2>4. status' \in [Thread -> {"off", "running", "dead"}]
      BY <2>1 DEF Continue, ThreadsOK
    <2>5. <<>> \in Seq(Calls)
      OBVIOUS
    <2>6. ThreadsOK'
      BY <2>3, <2>4, <2>5 DEF ThreadsOK
    <2> QED
      BY <2>3, <2>6 DEF ThreadsOK
  <1>4. CASE I # {}
    <2>1. I \subseteq Nat
      OBVIOUS
    <2>2. m \in I
      BY <1>4, <2>1, MinIsLeast
    <2> HIDE DEF m
    <2>3. m \in 1..Len(r) /\ r[m].op = "catch" /\ m # 0
      BY <2>2
    <2> DEFINE calls == SubSeq(r, m, Len(r))
    <2>4. calls \in Seq(Calls) /\ SuffixFrom(calls, r, m)
      BY <1>1, <2>3, SubSeqSuffix
    <2>5. Continue(t, calls)
      BY <1>2, <2>3 DEF Raise
    <2> HIDE DEF calls, r
    <2>6. PICK k \in 1..Len(calls) + 1 :
             /\ SuffixFrom(Resumed(calls), calls, k)
             /\ \A i \in 1..k - 1 : calls[i].op = "catch"
      BY <2>4, ResumedSuffix
    <2>7. Resumed(calls) # <<>> => Resumed(calls)[1].op # "catch"
      BY <2>4, ResumedSuffix
    <2>8. /\ todo' = [todo EXCEPT ![t] = Resumed(calls)]
          /\ todo'[t] = Resumed(calls)
      BY <2>5 DEF Continue, ThreadsOK
    <2>9. Resumed(calls) \in Seq(Calls)
      BY <2>4, ResumedSuffix
    <2>10. calls[1] = r[m] /\ Len(calls) >= 1
      BY <2>3, <2>4 DEF SuffixFrom
    <2>11. k # 1
      <3> SUFFICES ASSUME k = 1 PROVE FALSE
        OBVIOUS
      <3>1. Len(Resumed(calls)) = Len(calls) /\ Resumed(calls)[1] = calls[1]
        BY <2>6, <2>10 DEF SuffixFrom
      <3> QED
        BY <2>3, <2>7, <2>9, <2>10, <3>1
    <2>12. m + 1 \in 2..Len(todo[t])
      BY <1>1, <2>3 DEF SuffixFrom
    <2>13. SuffixFrom(Resumed(calls), todo[t], k + m)
      <3>1. todo[t] \in Seq(Calls)
        BY DEF ThreadsOK
      <3>2. SuffixFrom(Resumed(calls), r, k + m - 1)
        BY <1>1, <2>4, <2>6, <2>9, SuffixOfSuffix
      <3>3. SuffixFrom(Resumed(calls), todo[t], (k + m - 1) + 2 - 1)
        BY <1>1, <2>9, <3>1, <3>2, SuffixOfSuffix
      <3>4. (k + m - 1) + 2 - 1 = k + m
        BY <2>3
      <3> QED
        BY <3>3, <3>4
    <2>14. k + m \in 2..Len(todo[t]) + 1 /\ m + 1 < k + m
      BY <1>1, <2>3, <2>4, <2>6, <2>11 DEF SuffixFrom
    <2>15. ThreadsOK'
      BY <2>4, <2>5, ContinueOK
    <2>16. ASSUME NEW i \in m + 1..(k + m) - 1
           PROVE  todo[t][i].op = "catch"
      <3>1. i - m \in 1..k - 1 /\ i - m \in 1..Len(calls)
        BY <2>3, <2>6
      <3>2. calls[i - m] = r[(i - m) + m - 1]
        BY <2>4, <3>1 DEF SuffixFrom
      <3>3. (i - m) + m - 1 = i - 1 /\ i - 1 \in 1..Len(r) /\ (i - 1) + 2 - 1 = i
        BY <1>1, <2>3, <2>4, <3>1 DEF SuffixFrom
      <3>4. r[i - 1] = todo[t][(i - 1) + 2 - 1]
        BY <1>1, <3>3 DEF SuffixFrom
      <3> QED
        BY <2>6, <3>1, <3>2, <3>3, <3>4
    <2> QED
      BY <2>8, <2>12, <2>13, <2>14, <2>15, <2>16
  <1> QED
    BY <1>3, <1>4

\* The calls of Protected are those given and the ends of try blocks.
LEMMA ProtectedType ==
    ASSUME NEW S, Catch \in S, NEW calls \in Seq(S)
    PROVE  /\ Protected(calls) \in Seq(S)
           /\ Elems(calls) \subseteq Elems(Protected(calls))
  <1> DEFINE ss == [i \in DOMAIN calls |-> <<calls[i], Catch>>]
  <1>1. ss \in Seq(Seq(S)) /\ Len(ss) = Len(calls)
    <2>1. \A i \in DOMAIN calls : <<calls[i], Catch>> \in Seq(S)
      OBVIOUS
    <2>2. DOMAIN calls = 1..Len(calls) /\ Len(calls) \in Nat
      OBVIOUS
    <2>3. ss \in [1..Len(calls) -> Seq(S)]
      BY <2>1, <2>2
    <2> HIDE DEF ss
    <2> QED
      BY <2>2, <2>3
  <1>2. ASSUME NEW i \in 1..Len(calls)
        PROVE  calls[i] \in Elems(ss[i])
    <2>1. ss[i] = <<calls[i], Catch>>
      OBVIOUS
    <2>2. ss[i][1] = calls[i] /\ 1 \in 1..Len(ss[i])
      BY <2>1
    <2> QED
      BY <2>2 DEF Elems
  <1> HIDE DEF ss
  <1>3. /\ FlattenSeq(ss) \in Seq(S)
        /\ Elems(FlattenSeq(ss)) = UNION {Elems(ss[i]) : i \in 1..Len(ss)}
    BY <1>1, FlattenElems
  <1>4. Protected(calls) = FlattenSeq(ss)
    BY DEF Protected, ss
  <1>5. Elems(calls) \subseteq Elems(FlattenSeq(ss))
    <2>1. \A i \in 1..Len(calls) : calls[i] \in Elems(FlattenSeq(ss))
      BY <1>1, <1>2, <1>3, Zenon
    <2> QED
      BY <2>1, Zenon DEF Elems
  <1> QED
    BY <1>3, <1>4, <1>5

\* The calls that a trigger makes, but for reading the system.
WorkCalls ==
    {c \in Calls : c.op \in {"sync_peer", "remove_wg_peer", "remove_routes",
                             "remove_unknown", "catch"}}

TriggerCalls == WorkCalls \cup {Call("get_new_system_state")}

\* The fields of a peer that end up in a call.
LEMMA PeerFields ==
    ASSUME NEW q \in Peer
    PROVE  /\ q.desc.pk \in Pk /\ q.desc.p \in Addr
           /\ q.on \subseteq Addr /\ q.off \subseteq Addr
           /\ Routes(q) \subseteq Addr
           /\ WgAllowedIps(q) \subseteq Addr \cup {Default}
           /\ q.enabled \in BOOLEAN /\ q.use_as_gateway \in BOOLEAN
  <1>1. q.desc \in Descriptor
    BY ConstantTypes DEF Peer
  <1>2. /\ q.desc.pk \in Pk /\ q.desc.p \in Addr
        /\ q.on \subseteq Addr /\ q.off \subseteq Addr
        /\ q.enabled \in BOOLEAN /\ q.use_as_gateway \in BOOLEAN
    BY <1>1 DEF Peer, Descriptor
  <1>3. Routes(q) \subseteq Addr
    BY <1>2 DEF Routes, EnabledIps
  <1>4. WgAllowedIps(q) \subseteq Addr \cup {Default}
    BY <1>3 DEF WgAllowedIps
  <1> QED
    BY <1>2, <1>3, <1>4

\* The calls for one peer.
LEMMA PeerCallsType ==
    ASSUME IInv, IInv', NEW v, v \in Touched,
           result'.event = "USER_PEER_ADDR_DEL" => result'.sync \subseteq Known(peers)
    PROVE  PeerCalls(v) \in Seq(WorkCalls)
  <1>1. v \in Vk
    BY DEF Touched
  <1>2. SyncPeer(v) \in WorkCalls /\ Call("remove_unknown") \in WorkCalls
    BY <1>1, CallTypes DEF WorkCalls, SyncPeer, Call, PlainOps
  <1>3. ASSUME NEW ds \in SUBSET Addr
        PROVE  [op |-> "remove_routes", dests |-> ds] \in WorkCalls
    BY CallTypes DEF WorkCalls
  <1>4. ASSUME NEW pk \in Pk
        PROVE  [op |-> "remove_wg_peer", pk |-> pk] \in WorkCalls
    BY CallTypes DEF WorkCalls
  <1>5. ASSUME v \in Known(peers)
        PROVE  peers[v] \in Peer
    BY <1>5, KnownOK DEF PeerOK
  <1>6. CASE Gone(v)
    <2>1. peers[v] \in Peer
      BY <1>1, <1>5, <1>6 DEF Gone, Known
    <2>2. /\ [op |-> "remove_wg_peer", pk |-> peers[v].desc.pk] \in WorkCalls
          /\ [op |-> "remove_routes", dests |-> Routes(peers[v])] \in WorkCalls
      BY <1>3, <1>4, <2>1, PeerFields
    <2>3. PeerCalls(v) = <<[op |-> "remove_wg_peer", pk |-> peers[v].desc.pk],
                           [op |-> "remove_routes", dests |-> Routes(peers[v])]>>
      BY <1>6 DEF PeerCalls, RemovePeerCalls
    <2> QED
      BY <2>2, <2>3
  <1>7. CASE ~Gone(v) /\ result'.event = "USER_PEER_ADDR_DEL"
    <2> DEFINE ds == (peers[v].on \ peers'[v].on)
                        \cup (peers[v].off \ peers'[v].off)
    <2>1. peers[v] \in Peer
      BY <1>5, <1>7 DEF Touched
    <2>2. ds \in SUBSET Addr
      BY <2>1, PeerFields
    <2>3. PeerCalls(v) = <<SyncPeer(v), [op |-> "remove_routes", dests |-> ds]>>
      BY <1>7 DEF PeerCalls
    <2> HIDE DEF ds
    <2> QED
      BY <1>2, <1>3, <2>2, <2>3
  <1>8. CASE ~Gone(v) /\ result'.event = "VERIFY_AND_PIN_PEER"
    <2>1. PeerCalls(v) = <<SyncPeer(v), Call("remove_unknown"), SyncPeer(v)>>
      BY <1>8 DEF PeerCalls
    <2> QED
      BY <1>2, <2>1
  <1>9. CASE /\ ~Gone(v)
             /\ result'.event \notin {"USER_PEER_ADDR_DEL", "VERIFY_AND_PIN_PEER"}
    <2>1. PeerCalls(v) = <<SyncPeer(v)>>
      BY <1>9 DEF PeerCalls
    <2> QED
      BY <1>2, <2>1
  <1> QED
    BY <1>6, <1>7, <1>8, <1>9

\* The triggers of an event: none of them syncs, and none of those of
\* NEW_SYSTEM_STATE reads the system.
LEMMA TriggersType ==
    ASSUME IInv, IInv', NEW calls, calls \in Triggers,
           result'.event = "USER_PEER_ADDR_DEL" => result'.sync \subseteq Known(peers)
    PROVE  /\ calls \in Seq(TriggerCalls)
           /\ result'.event = "NEW_SYSTEM_STATE" => calls \in Seq(WorkCalls)
  <1>1. Catch \in WorkCalls /\ Call("remove_unknown") \in WorkCalls
    BY CallTypes DEF WorkCalls, Catch, Call, PlainOps
  <1>2. CASE result'.error
    <2>1. calls = <<>>
      BY <1>2 DEF Triggers
    <2> QED
      BY <2>1
  <1>3. CASE ~result'.error
    <2>1. PICK order \in VisitOrders :
             calls = Protected(FlattenSeq([i \in DOMAIN order |-> PeerCalls(order[i])])
                                 \o FurtherCalls)
      BY <1>3 DEF Triggers
    <2> DEFINE ss == [i \in DOMAIN order |-> PeerCalls(order[i])]
    <2>2. order \in Seq(Touched)
      <3>1. IsFiniteSet(Touched)
        BY BoundTypes, FS_Subset DEF Touched
      <3>2. order \in SetToSeqs(Touched)
        BY DEF VisitOrders
      <3> QED
        BY <3>1, <3>2, OrdersOfSet
    <2>3. \A i \in DOMAIN order : PeerCalls(order[i]) \in Seq(WorkCalls)
      BY <2>2, PeerCallsType
    <2>4. ss \in Seq(Seq(WorkCalls))
      BY <2>2, <2>3
    <2>5. FlattenSeq(ss) \in Seq(WorkCalls)
      <3> HIDE DEF ss
      <3> QED
        BY <2>4, FlattenElems
    <2>6. /\ FurtherCalls \in Seq(TriggerCalls)
          /\ result'.event = "NEW_SYSTEM_STATE" => FurtherCalls = <<>>
      <3>1. FurtherCalls \in {<<>>, <<Call("remove_unknown")>>,
                <<Call("get_new_system_state"), Call("remove_unknown")>>,
                <<Call("remove_unknown"), Call("get_new_system_state")>>}
        BY DEF FurtherCalls
      <3>2. result'.event = "NEW_SYSTEM_STATE" => FurtherCalls = <<>>
        BY DEF FurtherCalls
      <3>3. /\ Call("remove_unknown") \in TriggerCalls
            /\ Call("get_new_system_state") \in TriggerCalls
        BY <1>1 DEF TriggerCalls
      <3>4. /\ <<Call("remove_unknown")>> \in Seq(TriggerCalls)
            /\ <<Call("get_new_system_state"), Call("remove_unknown")>>
                  \in Seq(TriggerCalls)
            /\ <<Call("remove_unknown"), Call("get_new_system_state")>>
                  \in Seq(TriggerCalls)
        BY <3>3
      <3>5. <<>> \in Seq(TriggerCalls)
        OBVIOUS
      <3> QED
        BY <3>1, <3>2, <3>4, <3>5, Zenon
    <2>7. calls = Protected(FlattenSeq(ss) \o FurtherCalls)
      BY <2>1
    <2> HIDE DEF ss
    <2>8. FlattenSeq(ss) \o FurtherCalls \in Seq(TriggerCalls)
      BY <2>5, <2>6 DEF TriggerCalls
    <2>9. result'.event = "NEW_SYSTEM_STATE" =>
             FlattenSeq(ss) \o FurtherCalls \in Seq(WorkCalls)
      BY <2>5, <2>6
    <2>10. Catch \in TriggerCalls
      BY <1>1 DEF TriggerCalls
    <2> QED
      BY <1>1, <2>7, <2>8, <2>9, <2>10, ProtectedType
  <1> QED
    BY <1>2, <1>3

-----------------------------------------------------------------------------
(* The type invariant *)

\* The peers that a command syncs are in the table afterwards.
LEMMA SyncedIsKnown ==
    ASSUME UserStep
    PROVE  result'.sync \subseteq Known(peers')
  <1>1. ASSUME NEW e, Abort(e) \/ NoWrites(e)
        PROVE  result'.sync \subseteq Known(peers')
    BY <1>1 DEF Abort, NoWrites
  <1>2. ASSUME NEW e, NEW ps, NEW sync, ValidatePeers(e, ps, sync)
        PROVE  result'.sync \subseteq Known(peers')
    BY <1>1, <1>2 DEF ValidatePeers, Validate
  <1>3. ASSUME NEW pf, EditPrefs(pf)
        PROVE  result'.sync \subseteq Known(peers')
    BY <1>1, <1>3 DEF EditPrefs, Validate
  <1>4. ASSUME NEW e, NEW v, NEW q, EditPeer(e, v, q)
        PROVE  result'.sync \subseteq Known(peers')
    BY <1>1, <1>2, <1>4 DEF EditPeer
  <1>5. CASE UserPeerStep
    <2>1. ASSUME NEW v, NEW field, NEW b, SetFlag(v, field, b)
          PROVE  result'.sync \subseteq Known(peers')
      BY <1>4, <2>1 DEF SetFlag
    <2>2. ASSUME NEW v, NEW h, VerifyAndPinPeer(v, h)
          PROVE  result'.sync \subseteq Known(peers')
      BY <1>1, <1>2, <2>2 DEF VerifyAndPinPeer
    <2>3. ASSUME NEW v, NEW a, NEW b, SetAddr(v, a, b)
          PROVE  result'.sync \subseteq Known(peers')
      BY <1>4, <2>3 DEF SetAddr
    <2>4. ASSUME NEW v, NEW a, UserPeerAddrAdd(v, a)
          PROVE  result'.sync \subseteq Known(peers')
      BY <1>1, <1>2, <2>4 DEF UserPeerAddrAdd
    <2>5. ASSUME NEW v, NEW a, UserPeerAddrDel(v, a)
          PROVE  result'.sync \subseteq Known(peers')
      BY <1>1, <1>2, <2>5 DEF UserPeerAddrDel
    <2> QED
      BY <1>5, <2>1, <2>2, <2>3, <2>4, <2>5, Zenon DEF UserPeerStep
  <1>6. CASE NameStep
    BY <1>3, <1>4, <1>6
       DEF NameStep, PeerNameStep, SetPetname, SetNickname, EditLocalDomains
  <1>7. ASSUME NEW key, UserRemovePeer(key)
        PROVE  result'.sync \subseteq Known(peers')
    BY <1>1, <1>2, <1>7 DEF UserRemovePeer
  <1>8. CASE ReleaseGateway
    BY <1>1, <1>4, <1>8 DEF ReleaseGateway
  <1>9. ASSUME NEW b, SetPinNewPeers(b)
        PROVE  result'.sync \subseteq Known(peers')
    BY <1>3, <1>9 DEF SetPinNewPeers
  <1>10. ASSUME NEW sn, EditSubnetsAllowed(sn)
         PROVE  result'.sync \subseteq Known(peers')
    BY <1>3, <1>10 DEF EditSubnetsAllowed
  <1> QED
    BY <1>5, <1>6, <1>7, <1>8, <1>9, <1>10 DEF UserStep, CommandStep

\* The commands are steps of the engine.
LEMMA CommandIsUserStep == Command => UserStep
  <1> SUFFICES ASSUME Command PROVE UserStep
    OBVIOUS
  <1>1. CASE \E v \in Vk : "remove" \in Commands /\ UserRemovePeer(v)
    BY <1>1 DEF UserStep, CommandStep
  <1>2. CASE "release_gateway" \in Commands /\ ReleaseGateway
    BY <1>2 DEF UserStep, CommandStep
  <1>3. CASE \E sn \in Subnet : EditSubnetsAllowed(sn)
    BY <1>3 DEF UserStep, CommandStep
  <1>4. CASE UserPeerStep
    BY <1>4 DEF UserStep, CommandStep
  <1>5. UserPeerStep
           \/ (\E v \in Vk : "remove" \in Commands /\ UserRemovePeer(v))
           \/ ("release_gateway" \in Commands /\ ReleaseGateway)
           \/ (\E sn \in Subnet : EditSubnetsAllowed(sn))
    BY DEF Command, UserPeerStep
  <1> QED
    BY <1>1, <1>2, <1>3, <1>4, <1>5

\* What the main loop handles keeps the invariant of the engine.
LEMMA EventOK ==
    ASSUME IInv,
           \/ \E d \in Descs : AcceptDescriptor(d) \/ RejectDescriptor(d)
           \/ Command
           \/ \E s \in SysStates : NewSystemState(s)
    PROVE  /\ IInv'
           /\ result'.event = "USER_PEER_ADDR_DEL" =>
                 result'.sync \subseteq Known(peers)
  <1>1. CASE NetworkStep
    <2>1. IInv'
      BY <1>1, NextOK DEF Next
    <2>2. result'.event # "USER_PEER_ADDR_DEL"
      BY <1>1 DEF NetworkStep, AcceptDescriptor, RejectDescriptor, NewSystemState,
                  ValidatePeers, Validate, Abort, NoWrites
    <2> QED
      BY <2>1, <2>2
  <1>2. CASE UserStep
    <2>1. IInv' /\ UserFrame
      BY <1>2, UserStepOK
    <2>2. result'.sync \subseteq Known(peers')
      BY <1>2, SyncedIsKnown
    <2>3. Known(peers') \subseteq Known(peers)
      BY <2>1 DEF UserFrame, Frame, KeepsTable
    <2> QED
      BY <2>1, <2>2, <2>3
  <1> QED
    BY <1>1, <1>2, CommandIsUserStep DEF NetworkStep

\* The state file holds a valid table after it is saved, or not saved.
LEMMA SaveOK ==
    ASSUME IInv', DiskOK, Save
    PROVE  DiskOK'
  <1>1. CASE disk' = disk
    BY <1>1 DEF DiskOK
  <1>2. CASE disk' = [peers |-> peers', prefs |-> prefs',
                      system_state |-> system_state']
    BY <1>2 DEF DiskOK, IInv
  <1> QED
    BY <1>1, <1>2 DEF Save

\* The operations on the kernel keep its types.
LEMMA KernelSteps ==
    ASSUME KernelTypeOK,
           \/ WgQuery
           \/ \E q \in Peer : ApplyPeerConfig(q)
           \/ \E pk : RemoveWgPeer(pk)
           \/ \E ds \in SUBSET Addr : AddRoutes(ds) \/ AddRoutesFails(ds)
           \/ SyncGwRoutes
           \/ \E pks : RemoveUnknownPeers(pks)
           \/ \E ds, gw : DelRoutes(ds, gw) \/ DelRoutesFails(ds, gw)
    PROVE  KernelTypeOK'
  <1>1. ASSUME NEW pks PROVE Unrouted(pks) \in [Addr \cup {Default} -> Pk \cup {NoPk}]
    BY DEF KernelTypeOK, Unrouted
  <1>2. CASE WgQuery
    BY <1>2 DEF KernelTypeOK, WgQuery, kernel
  <1>3. ASSUME NEW q \in Peer, ApplyPeerConfig(q)
        PROVE  KernelTypeOK'
    <2>1. q.desc.pk \in Pk
      BY PeerFields
    <2> QED
      BY <1>3, <2>1 DEF KernelTypeOK, ApplyPeerConfig
  <1>4. ASSUME NEW pk, RemoveWgPeer(pk)
        PROVE  KernelTypeOK'
    BY <1>1, <1>4 DEF KernelTypeOK, RemoveWgPeer
  <1>5. ASSUME NEW ds \in SUBSET Addr, AddRoutes(ds) \/ AddRoutesFails(ds)
        PROVE  KernelTypeOK'
    BY <1>5 DEF KernelTypeOK, AddRoutes, AddRoutesFails
  <1>6. CASE SyncGwRoutes
    BY <1>6 DEF KernelTypeOK, SyncGwRoutes
  <1>7. ASSUME NEW pks, RemoveUnknownPeers(pks)
        PROVE  KernelTypeOK'
    BY <1>1, <1>7 DEF KernelTypeOK, RemoveUnknownPeers
  <1>8. ASSUME NEW ds, NEW gw, DelRoutes(ds, gw) \/ DelRoutesFails(ds, gw)
        PROVE  KernelTypeOK'
    BY <1>8 DEF KernelTypeOK, DelRoutes, DelRoutesFails
  <1> QED
    BY <1>2, <1>3, <1>4, <1>5, <1>6, <1>7, <1>8

\* The step that a call takes.
LEMMA DoCases ==
    ASSUME NEW t \in Thread, NEW c \in Calls, c.op # "catch", Do(t, c)
    PROVE  \/ c.op = "sync_peer" /\ DoSyncPeer(t, c.vk)
           \/ c.op = "apply_peerconfig" /\ DoApplyPeerConfig(t, c.peer)
           \/ c.op = "sync_routes" /\ DoSyncRoutes(t, c.peer)
           \/ c.op = "add_routes" /\ DoAddRoutes(t, c.dests)
           \/ c.op = "sync_gw_routes" /\ DoSyncGwRoutes(t)
           \/ c.op = "remove_wg_peer" /\ DoRemoveWgPeer(t, c.pk)
           \/ c.op = "remove_routes" /\ DoRemoveRoutes(t, c.dests)
           \/ c.op = "remove_unknown" /\ DoRemoveUnknown(t)
           \/ c.op = "remove_unknown_peers" /\ DoRemoveUnknownPeers(t, c.pks)
           \/ c.op = "list_routes" /\ DoListRoutes(t)
           \/ c.op = "del_routes" /\ DoDelRoutes(t, c.dests, c.gw)
           \/ c.op = "sync" /\ DoSync(t)
           \/ c.op = "get_new_system_state" /\ DoGetNewSystemState(t)
           \/ c.op = "adopt" /\ DoAdopt(t, c.state)
           \/ c.op = "start_monitor" /\ DoStartMonitor(t)
           \/ c.op \in Goal /\ DoNothing(t)
  <1>1. c.op \in Ops \ {"catch"}
    BY CallFields
  <1>2. c.op = "sync_peer" => DoSyncPeer(t, c.vk)
    BY DEF Do
  <1>3. c.op = "apply_peerconfig" => DoApplyPeerConfig(t, c.peer)
    BY DEF Do
  <1>4. c.op = "sync_routes" => DoSyncRoutes(t, c.peer)
    BY DEF Do
  <1>5. c.op = "add_routes" => DoAddRoutes(t, c.dests)
    BY DEF Do
  <1>6. c.op = "sync_gw_routes" => DoSyncGwRoutes(t)
    BY DEF Do
  <1>7. c.op = "remove_wg_peer" => DoRemoveWgPeer(t, c.pk)
    BY DEF Do
  <1>8. c.op = "remove_routes" => DoRemoveRoutes(t, c.dests)
    BY DEF Do
  <1>9. c.op = "remove_unknown" => DoRemoveUnknown(t)
    BY DEF Do
  <1>10. c.op = "remove_unknown_peers" => DoRemoveUnknownPeers(t, c.pks)
    BY DEF Do
  <1>11. c.op = "list_routes" => DoListRoutes(t)
    BY DEF Do
  <1>12. c.op = "del_routes" => DoDelRoutes(t, c.dests, c.gw)
    BY DEF Do
  <1>13. c.op = "sync" => DoSync(t)
    BY DEF Do
  <1>14. c.op = "get_new_system_state" => DoGetNewSystemState(t)
    BY DEF Do
  <1>15. c.op = "adopt" => DoAdopt(t, c.state)
    BY DEF Do
  <1>16. c.op = "start_monitor" => DoStartMonitor(t)
    BY DEF Do
  <1>17. c.op \in Goal => DoNothing(t)
    BY DEF Do, Goal
  <1> QED
    BY <1>1, <1>2, <1>3, <1>4, <1>5, <1>6, <1>7, <1>8, <1>9, <1>10, <1>11,
       <1>12, <1>13, <1>14, <1>15, <1>16, <1>17 DEF Ops, Goal

\* The calls of sync().
SyncCalls(order) ==
    Protected([i \in DOMAIN order |-> SyncPeer(order[i])])
        \o <<Call("remove_unknown")>>

\* They are all of sync_peer for known peers, the ends of try blocks and
\* remove_unknown; and all of these are among them.
LEMMA SyncCallsType ==
    ASSUME NEW ps \in Peers, NEW order \in SetToSeqs(Known(ps))
    PROVE  /\ SyncCalls(order) \in Seq({SyncPeer(v) : v \in Known(ps)}
                                       \cup {Catch, Call("remove_unknown")})
           /\ \A v \in Known(ps) : SyncPeer(v) \in Elems(SyncCalls(order))
           /\ Call("remove_unknown") \in Elems(SyncCalls(order))
  <1> DEFINE S == {SyncPeer(v) : v \in Known(ps)} \cup {Catch, Call("remove_unknown")}
             calls == [i \in DOMAIN order |-> SyncPeer(order[i])]
             end == <<Call("remove_unknown")>>
  <1>1. order \in Seq(Known(ps)) /\ Elems(order) = Known(ps)
    <2>1. IsFiniteSet(Known(ps))
      BY BoundTypes, FS_Subset DEF Known
    <2> QED
      BY <2>1, OrdersOfSet
  <1>2. Catch \in S /\ end \in Seq(S)
    <2>1. Call("remove_unknown") \in S
      OBVIOUS
    <2> HIDE DEF S
    <2>2. end \in Seq(S)
      BY <2>1
    <2> QED
      BY <2>2 DEF S
  <1>3. \A i \in DOMAIN order : SyncPeer(order[i]) \in S
    BY <1>1
  <1> HIDE DEF S
  <1>4. calls \in Seq(S) /\ Len(calls) = Len(order)
    BY <1>1, <1>3
  <1>5. \A i \in 1..Len(order) : SyncPeer(order[i]) \in Elems(calls)
    BY <1>1, <1>4 DEF Elems
  <1> HIDE DEF calls
  <1>6. /\ Protected(calls) \in Seq(S)
        /\ Elems(calls) \subseteq Elems(Protected(calls))
    BY <1>2, <1>4, ProtectedType
  <1>7. Elems(Protected(calls) \o end) = Elems(Protected(calls)) \cup Elems(end)
    BY <1>2, <1>6, ElemsConcat, ZenonT(40)
  <1>8. SyncCalls(order) = Protected(calls) \o end
    BY DEF SyncCalls, calls
  <1>9. Protected(calls) \o end \in Seq(S)
    BY <1>2, <1>6
  <1>10. ASSUME NEW v \in Known(ps)
         PROVE  SyncPeer(v) \in Elems(calls)
    <2>1. PICK i \in 1..Len(order) : order[i] = v
      BY <1>1 DEF Elems
    <2> QED
      BY <1>5, <2>1
  <1>11. Call("remove_unknown") \in Elems(end)
    <2>1. Len(end) = 1 /\ end[1] = Call("remove_unknown") /\ 1 \in 1..1
      OBVIOUS
    <2> HIDE DEF end
    <2> QED
      BY <2>1 DEF Elems
  <1> QED
    BY <1>6, <1>7, <1>8, <1>9, <1>10, <1>11 DEF S

\* A call keeps what DInv says of the engine, the state file, the kernel and
\* the waiting calls.
LEMMA DoOK ==
    ASSUME DInv, NEW t \in Thread, todo[t] # <<>>, Do(t, Head(todo[t]))
    PROVE  IInv' /\ DiskOK' /\ KernelTypeOK' /\ ThreadsOK'
  <1> DEFINE c == Head(todo[t])
  <1>1. /\ IInv /\ DiskOK /\ KernelTypeOK /\ ThreadsOK
        /\ real \in SysStates
    BY DEF DInv
  <1>2. Rest(t) \in Seq(Calls) /\ c \in Calls /\ c.op # "catch"
    BY <1>1, RestType DEF ThreadsOK
  <1>3. ASSUME NEW new \in Seq(Calls)
        PROVE  new \o Rest(t) \in Seq(Calls)
    BY <1>2
  <1> HIDE DEF c
  <1>4. ASSUME UNCHANGED <<evars, disk>>
        PROVE  IInv' /\ DiskOK'
    BY <1>1, <1>4 DEF evars, IInv, DiskOK
  <1>5. ASSUME UNCHANGED kvars
        PROVE  KernelTypeOK'
    BY <1>1, <1>5 DEF kvars, KernelTypeOK
  <1>6. ASSUME NEW v \in Known(peers)
        PROVE  peers[v] \in Peer
    BY <1>1, KnownOK DEF PeerOK
  <1>7. Raise(t) => ThreadsOK'
    BY <1>1, RaiseForm
  <1>8. Continue(t, Rest(t)) => ThreadsOK'
    BY <1>1, <1>2, ContinueOK
  <1>9. ASSUME NEW x \in Calls, Continue(t, <<x>> \o Rest(t))
        PROVE  ThreadsOK'
    <2>1. <<x>> \o Rest(t) \in Seq(Calls)
      BY <1>2, <1>9
    <2> QED
      BY <1>1, <1>9, <2>1, ContinueOK
  <1>10. CASE c.op = "sync_peer" /\ DoSyncPeer(t, c.vk)
    <2>1. c.vk \in Vk
      BY <1>2, <1>10, CallFields
    <2>2. UNCHANGED <<evars, kvars, disk>>
      BY <1>10 DEF DoSyncPeer
    <2>3. CASE Raise(t)
      BY <1>4, <1>5, <1>7, <2>2, <2>3
    <2>4. CASE Continue(t, <<Call("remove_unknown")>> \o Rest(t))
      BY <1>4, <1>5, <1>9, <2>2, <2>4, CallTypes DEF PlainOps
    <2>5. CASE /\ peers[c.vk] # NoPeer
               /\ Continue(t, <<WithPeer("apply_peerconfig", peers[c.vk]),
                                WithPeer("sync_routes", peers[c.vk])>>
                              \o (IF peers[c.vk].use_as_gateway
                                  THEN <<Call("sync_gw_routes")>> ELSE <<>>)
                              \o Rest(t))
      <3> DEFINE a == WithPeer("apply_peerconfig", peers[c.vk])
                 b == WithPeer("sync_routes", peers[c.vk])
                 g == IF peers[c.vk].use_as_gateway
                      THEN <<Call("sync_gw_routes")>> ELSE <<>>
      <3>1. peers[c.vk] \in Peer
        BY <1>6, <2>1, <2>5 DEF Known
      <3>2. a \in Calls /\ b \in Calls /\ Call("sync_gw_routes") \in Calls
        BY <3>1, CallTypes DEF PlainOps
      <3>3. g \in Seq(Calls)
        BY <3>2
      <3> HIDE DEF a, b, g
      <3>4. <<a, b>> \o g \o Rest(t) \in Seq(Calls)
        BY <1>2, <3>2, <3>3
      <3>5. Continue(t, <<a, b>> \o g \o Rest(t))
        BY <2>5 DEF a, b, g
      <3> QED
        BY <1>1, <1>4, <1>5, <2>2, <3>4, <3>5, ContinueOK
    <2> QED
      BY <1>10, <2>3, <2>4, <2>5 DEF DoSyncPeer
  <1>11. CASE c.op = "apply_peerconfig" /\ DoApplyPeerConfig(t, c.peer)
    BY <1>1, <1>2, <1>4, <1>8, <1>11, CallFields, KernelSteps DEF DoApplyPeerConfig
  <1>12. CASE c.op = "sync_routes" /\ DoSyncRoutes(t, c.peer)
    <2>1. Routes(c.peer) \ routes \in SUBSET Addr
      BY <1>2, <1>12, CallFields, PeerFields
    <2>2. [op |-> "add_routes", dests |-> Routes(c.peer) \ routes] \in Calls
      BY <2>1, CallTypes
    <2> QED
      BY <1>4, <1>5, <1>9, <1>12, <2>2 DEF DoSyncRoutes
  <1>13. CASE c.op = "add_routes" /\ DoAddRoutes(t, c.dests)
    <2>1. c.dests \in SUBSET Addr
      BY <1>2, <1>13, CallFields
    <2>2. KernelTypeOK'
      BY <1>1, <1>13, <2>1, KernelSteps DEF DoAddRoutes
    <2> QED
      BY <1>4, <1>7, <1>8, <1>13, <2>2 DEF DoAddRoutes
  <1>14. CASE c.op = "sync_gw_routes" /\ DoSyncGwRoutes(t)
    BY <1>1, <1>4, <1>8, <1>14, KernelSteps DEF DoSyncGwRoutes
  <1>15. CASE c.op = "remove_wg_peer" /\ DoRemoveWgPeer(t, c.pk)
    BY <1>1, <1>4, <1>8, <1>15, KernelSteps DEF DoRemoveWgPeer
  <1>16. CASE c.op = "remove_routes" /\ DoRemoveRoutes(t, c.dests)
    <2>1. c.dests \cap routes \in SUBSET Addr
      BY <1>1 DEF KernelTypeOK
    <2>2. [op |-> "del_routes", dests |-> c.dests \cap routes, gw |-> FALSE] \in Calls
      BY <2>1, CallTypes
    <2> QED
      BY <1>4, <1>5, <1>9, <1>16, <2>2 DEF DoRemoveRoutes
  <1>17. CASE c.op = "remove_unknown" /\ DoRemoveUnknown(t)
    <2> DEFINE a == [op |-> "remove_unknown_peers",
                     pks |-> {peers[v].desc.pk : v \in Enabled(peers)}]
    <2>1. {peers[v].desc.pk : v \in Enabled(peers)} \in SUBSET Pk
      BY <1>6, PeerFields DEF Enabled
    <2>2. a \in Calls /\ Call("list_routes") \in Calls
      BY <2>1, CallTypes DEF PlainOps
    <2>3. Continue(t, <<a, Call("list_routes")>> \o Rest(t))
      BY <1>17 DEF DoRemoveUnknown
    <2> HIDE DEF a
    <2>4. <<a, Call("list_routes")>> \o Rest(t) \in Seq(Calls)
      BY <1>2, <2>2
    <2>5. UNCHANGED <<evars, kvars, disk>>
      BY <1>17 DEF DoRemoveUnknown
    <2> QED
      BY <1>1, <1>4, <1>5, <2>3, <2>4, <2>5, ContinueOK
  <1>18. CASE c.op = "remove_unknown_peers" /\ DoRemoveUnknownPeers(t, c.pks)
    BY <1>1, <1>4, <1>8, <1>18, KernelSteps DEF DoRemoveUnknownPeers
  <1>19. CASE c.op = "list_routes" /\ DoListRoutes(t)
    <2> DEFINE ds == routes \ UNION {Routes(peers[v]) : v \in Enabled(peers)}
    <2>1. ds \in SUBSET Addr /\ gw_routes \in BOOLEAN
      BY <1>1 DEF KernelTypeOK
    <2>2. UNCHANGED <<evars, kvars, disk>>
      BY <1>19 DEF DoListRoutes
    <2>3. Continue(t, <<[op |-> "del_routes", dests |-> ds, gw |-> gw_routes]>>
                        \o Rest(t))
      BY <1>19 DEF DoListRoutes
    <2> HIDE DEF ds
    <2>4. [op |-> "del_routes", dests |-> ds, gw |-> gw_routes] \in Calls
      BY <2>1, CallTypes
    <2> QED
      BY <1>4, <1>5, <1>9, <2>2, <2>3, <2>4
  <1>20. CASE c.op = "del_routes" /\ DoDelRoutes(t, c.dests, c.gw)
    BY <1>1, <1>4, <1>7, <1>8, <1>20, KernelSteps DEF DoDelRoutes
  <1>21. CASE c.op = "sync" /\ DoSync(t)
    <2>1. PICK order \in SetToSeqs(Known(peers)) :
             Continue(t, SyncCalls(order) \o Rest(t))
      BY <1>21 DEF DoSync, SyncCalls
    <2> DEFINE S == {SyncPeer(v) : v \in Known(peers)}
                       \cup {Catch, Call("remove_unknown")}
    <2>2. S \subseteq Calls
      BY CallTypes DEF Known, Catch, PlainOps
    <2>3. SyncCalls(order) \in Seq(Calls)
      <3>1. peers \in Peers
        BY <1>1 DEF IInv, TableOK
      <3>2. SyncCalls(order) \in Seq(S)
        BY <3>1, SyncCallsType
      <3> HIDE DEF S
      <3> QED
        BY <2>2, <3>2
    <2>4. SyncCalls(order) \o Rest(t) \in Seq(Calls)
      BY <1>3, <2>3
    <2>5. WgQuery /\ UNCHANGED <<evars, disk>>
      BY <1>21 DEF DoSync
    <2> QED
      BY <1>1, <1>4, <2>1, <2>4, <2>5, ContinueOK, KernelSteps
  <1>22. CASE c.op = "get_new_system_state" /\ DoGetNewSystemState(t)
    BY <1>1, <1>4, <1>5, <1>8, <1>9, <1>22, CallTypes DEF DoGetNewSystemState
  <1>23. CASE c.op = "adopt" /\ DoAdopt(t, c.state)
    <2>1. c.state \in SysStates
      BY <1>2, <1>23, CallFields
    <2>2. NewSystemState(c.state) /\ Save /\ UNCHANGED kvars
      BY <1>23 DEF DoAdopt
    <2>3. /\ IInv'
          /\ result'.event = "USER_PEER_ADDR_DEL" =>
                result'.sync \subseteq Known(peers)
      BY <1>1, <2>1, <2>2, EventOK
    <2>4. DiskOK'
      BY <1>1, <2>2, <2>3, SaveOK
    <2>5. CASE Raise(t)
      BY <1>5, <1>7, <2>2, <2>3, <2>4, <2>5
    <2>6. ASSUME NEW calls, calls \in Triggers,
                 Continue(t, calls \o <<Call("sync"), Call("instruct_zeroconf")>>
                               \o Rest(t))
          PROVE  ThreadsOK'
      <3>1. calls \in Seq(TriggerCalls)
        BY <1>1, <2>3, <2>6, TriggersType
      <3>2. /\ TriggerCalls \subseteq Calls
            /\ Call("sync") \in Calls /\ Call("instruct_zeroconf") \in Calls
        BY CallTypes DEF TriggerCalls, WorkCalls, PlainOps
      <3>3. calls \in Seq(Calls)
        BY <3>1, <3>2
      <3>4. calls \o <<Call("sync"), Call("instruct_zeroconf")>> \o Rest(t)
              \in Seq(Calls)
        BY <1>2, <3>2, <3>3
      <3> QED
        BY <1>1, <2>6, <3>4, ContinueOK
    <2> QED
      BY <1>5, <1>23, <2>2, <2>3, <2>4, <2>5, <2>6 DEF DoAdopt
  <1>24. CASE c.op = "start_monitor" /\ DoStartMonitor(t)
    <2>1. /\ Resumed(Rest(t)) \in Seq(Calls)
          /\ Resumed(Rest(t)) # <<>> => Resumed(Rest(t))[1].op # "catch"
      BY <1>2, ResumedSuffix
    <2>2. ThreadsOK'
      BY <1>1, <1>24, <2>1 DEF DoStartMonitor, ThreadsOK
    <2> QED
      BY <1>4, <1>5, <1>24, <2>2 DEF DoStartMonitor
  <1>25. CASE c.op \in Goal /\ DoNothing(t)
    BY <1>4, <1>5, <1>8, <1>25 DEF DoNothing
  <1>26. Do(t, c)
    BY DEF c
  <1> QED
    BY <1>2, <1>10, <1>11, <1>12, <1>13, <1>14, <1>15, <1>16, <1>17, <1>18, <1>19,
       <1>20, <1>21, <1>22, <1>23, <1>24, <1>25, <1>26, DoCases

\* The threads of a daemon that has just started.
LEMMA StartedOK ==
    ASSUME NEW todos, NEW stats,
           todos = [t \in Thread |-> IF t = "dbus" THEN Startup ELSE <<>>],
           stats = [t \in Thread |-> IF t = "dbus" THEN "running" ELSE "off"]
    PROVE  /\ todos \in [Thread -> Seq(Calls)]
           /\ \A t \in Thread : todos[t] # <<>> => todos[t][1].op # "catch"
           /\ stats \in [Thread -> {"off", "running", "dead"}]
  <1>1. /\ Call("get_new_system_state") \in Calls /\ Call("start_monitor") \in Calls
        /\ Call("instruct_zeroconf") \in Calls /\ Call("sync") \in Calls
        /\ Call("main_loop") \in Calls
    BY CallTypes DEF PlainOps
  <1>2. Startup \in Seq(Calls)
    BY <1>1 DEF Startup
  <1>3. Startup[1].op = "get_new_system_state"
    BY DEF Startup, Call
  <1>4. <<>> \in Seq(Calls)
    OBVIOUS
  <1> QED
    BY <1>2, <1>3, <1>4

\* The type invariant holds initially.
LEMMA DInvInit == DaemonInit => DInv
  <1> SUFFICES ASSUME DaemonInit PROVE DInv
    OBVIOUS
  <1>1. IInv
    BY InitOK DEF DaemonInit
  <1>2. DiskOK
    BY <1>1 DEF DaemonInit, DiskOK, IInv
  <1>3. KernelTypeOK
    BY DEF DaemonInit, KernelInit, KernelTypeOK
  <1>4. ThreadsOK
    BY StartedOK DEF DaemonInit, ThreadsOK
  <1> QED
    BY <1>1, <1>2, <1>3, <1>4 DEF DaemonInit, DInv

\* A restart loads a table that is fine.
LEMMA RestartedOK ==
    ASSUME DInv, Restarted
    PROVE  DInv'
  <1>1. IInv'
    <2>1. result' \in Result
      BY DEF Restarted, Result, Events
    <2>2. /\ peers' = disk.peers /\ prefs' = disk.prefs
          /\ system_state' = disk.system_state
      BY DEF Restarted
    <2> QED
      BY <2>1, <2>2 DEF DInv, DiskOK, IInv
  <1>2. DiskOK'
    BY DEF DInv, DiskOK, Restarted
  <1>3. KernelTypeOK'
    BY DEF DInv, KernelTypeOK, Restarted, kernel
  <1>4. ThreadsOK'
    BY StartedOK DEF Restarted, Started, ThreadsOK
  <1> QED
    BY <1>1, <1>2, <1>3, <1>4 DEF DInv, Restarted, Started

\* Every step keeps the type invariant.
LEMMA DInvNext == DInv /\ [DaemonNext]_allvars => DInv'
  <1> SUFFICES ASSUME DInv, [DaemonNext]_allvars PROVE DInv'
    OBVIOUS
  <1>1. CASE UNCHANGED allvars
    BY <1>1 DEF allvars, evars, kvars, dvars, DInv, IInv, DiskOK, KernelTypeOK,
                ThreadsOK
  <1>2. ASSUME NEW t \in Thread, ThreadStep(t)
        PROVE  DInv'
    <2>1. IInv' /\ DiskOK' /\ KernelTypeOK' /\ ThreadsOK'
      BY <1>2, DoOK DEF ThreadStep
    <2>2. notified' \in BOOLEAN
      BY <1>2 DEF ThreadStep, Notify
    <2>3. undisturbed' \in [Thread -> BOOLEAN]
      BY <1>2 DEF ThreadStep, DInv
    <2> QED
      BY <1>2, <2>1, <2>2, <2>3 DEF DInv, ThreadStep
  <1>3. CASE MonitorWakes
    <2>1. <<Call("get_new_system_state")>> \in Seq(Calls)
      BY CallTypes DEF PlainOps
    <2>2. <<Call("get_new_system_state")>>[1].op # "catch"
      BY DEF Call
    <2>3. ThreadsOK'
      BY <1>3, <2>1, <2>2 DEF MonitorWakes, ThreadsOK, DInv
    <2> QED
      BY <1>3, <2>3 DEF MonitorWakes, DInv, IInv, DiskOK, KernelTypeOK, evars, kvars
  <1>4. CASE DbusEvent
    <2>1. /\ IInv'
          /\ result'.event = "USER_PEER_ADDR_DEL" =>
                result'.sync \subseteq Known(peers)
      BY <1>4, EventOK DEF DbusEvent, DInv
    <2>2. DiskOK'
      BY <1>4, <2>1, SaveOK DEF DbusEvent, DInv
    <2>3. PICK calls \in Triggers : Continue("dbus", calls)
      BY <1>4 DEF DbusEvent
    <2>4. calls \in Seq(TriggerCalls)
      BY <2>1, TriggersType DEF DInv
    <2>5. TriggerCalls \subseteq Calls
      BY CallTypes DEF TriggerCalls, WorkCalls, PlainOps
    <2>6. calls \in Seq(Calls)
      BY <2>4, <2>5
    <2>7. ThreadsOK'
      BY <2>3, <2>6, ContinueOK DEF DInv, Thread
    <2> QED
      BY <1>4, <2>1, <2>2, <2>7
         DEF DbusEvent, DInv, KernelTypeOK, kvars, StartsWork
  <1>5. CASE Repair
    <2>1. <<Call("sync"), Call("reply")>> \in Seq(Calls)
      BY CallTypes DEF PlainOps
    <2>2. ThreadsOK'
      BY <1>5, <2>1, ContinueOK DEF DInv, Repair, Thread
    <2> QED
      BY <1>5, <2>2 DEF Repair, StartsWork, DInv, IInv, DiskOK, KernelTypeOK, evars,
                        kvars
  <1>6. CASE ShowPeer
    <2>1. KernelTypeOK'
      BY <1>6, KernelSteps DEF ShowPeer, DInv
    <2> QED
      BY <1>6, <2>1 DEF ShowPeer, DInv, IInv, DiskOK, ThreadsOK, evars
  <1>7. CASE SystemChanges
    BY <1>7 DEF SystemChanges, DInv, IInv, DiskOK, ThreadsOK, KernelTypeOK, evars,
                kvars
  <1>8. CASE Crash \/ Exit
    BY <1>8, RestartedOK DEF Crash, Exit
  <1> QED
    BY <1>1, <1>2, <1>3, <1>4, <1>5, <1>6, <1>7, <1>8 DEF DaemonNext

\* The type invariant of the daemon, with the invariant of the engine.
THEOREM DaemonInvariance == DaemonSpec => []DInv
  BY DInvInit, DInvNext, PTL DEF DaemonSpec

\* Type correctness of the daemon: whatever the two threads, crashes, restarts
\* and failed saves do, every waiting call is one the daemon knows, and the
\* state file holds a table that passes the validation of the schema.
THEOREM DaemonTypeCorrectness == DaemonSpec => []DaemonTypeOK
  <1>1. DInv => DaemonTypeOK
    <2> SUFFICES ASSUME DInv PROVE DaemonTypeOK
      OBVIOUS
    <2>1. TypeOK
      BY DEF DInv, IInv, TableOK, TypeOK, PeerOK, Known
    <2>2. \A t \in Thread : \A i \in DOMAIN todo[t] : todo[t][i].op \in Ops
      BY CallFields DEF DInv, ThreadsOK
    <2> QED
      BY <2>1, <2>2 DEF DInv, DaemonTypeOK, ThreadsOK, DiskOK, TableOK
  <1> QED
    BY <1>1, DaemonInvariance, PTL

\* What the rules of the engine guarantee of the table holds in the daemon
\* too, across crashes, restarts from the state file and saves that fail:
\* host names, addresses and keys are unique among the enabled peers, every
\* peer has its host name among its nicknames, and unpinned peers have local
\* addresses only.
THEOREM DaemonTableIsValid ==
    DaemonSpec => [](AnnouncedIsUnique /\ NicknamesHoldHostname /\ UnpinnedIsLocal)
  <1>1. IInv => NicknamesHoldHostname /\ UnpinnedIsLocal
    BY DEF IInv, TableOK, PeerOK, LocalOK, Known, NicknamesHoldHostname,
           UnpinnedIsLocal
  <1>2. DInv => AnnouncedIsUnique /\ NicknamesHoldHostname /\ UnpinnedIsLocal
    BY <1>1, UniqueFromInv DEF DInv
  <1> QED
    BY <1>2, DaemonInvariance, PTL

-----------------------------------------------------------------------------
(* The daemon changes its table by the events of the engine only *)

\* Of the calls of a thread only NEW_SYSTEM_STATE is an event.
LEMMA ThreadActs ==
    ASSUME DInv, NEW t \in Thread, ThreadStep(t)
    PROVE  (Next /\ Save) \/ UNCHANGED <<evars, disk>>
  <1>1. todo[t] # <<>> /\ Do(t, Head(todo[t]))
    BY DEF ThreadStep
  <1>2. PICK c : c = Head(todo[t])
    OBVIOUS
  <1>3. c \in Calls /\ c.op # "catch"
    BY <1>1, <1>2, RestType DEF DInv, ThreadsOK
  <1>4. CASE c.op = "adopt" /\ DoAdopt(t, c.state)
    <2>1. c.state \in SysStates
      BY <1>3, <1>4, CallFields
    <2> QED
      BY <1>4, <2>1 DEF DoAdopt, Next, NetworkStep
  <1>5. CASE c.op # "adopt"
    <2>1. \/ DoSyncPeer(t, c.vk)
          \/ DoApplyPeerConfig(t, c.peer)
          \/ DoSyncRoutes(t, c.peer)
          \/ DoAddRoutes(t, c.dests)
          \/ DoSyncGwRoutes(t)
          \/ DoRemoveWgPeer(t, c.pk)
          \/ DoRemoveRoutes(t, c.dests)
          \/ DoRemoveUnknown(t)
          \/ DoRemoveUnknownPeers(t, c.pks)
          \/ DoListRoutes(t)
          \/ DoDelRoutes(t, c.dests, c.gw)
          \/ DoSync(t)
          \/ DoGetNewSystemState(t)
          \/ DoStartMonitor(t)
          \/ DoNothing(t)
      BY <1>1, <1>2, <1>3, <1>5, DoCases
    <2>2. UNCHANGED <<evars, kvars, disk>> \/ UNCHANGED <<evars, disk>>
      BY <2>1, Zenon
         DEF DoSyncPeer, DoApplyPeerConfig, DoSyncRoutes, DoAddRoutes,
             DoSyncGwRoutes, DoRemoveWgPeer, DoRemoveRoutes, DoRemoveUnknown,
             DoRemoveUnknownPeers, DoListRoutes, DoDelRoutes, DoSync,
             DoGetNewSystemState, DoStartMonitor, DoNothing
    <2> QED
      BY <2>2
  <1>6. c.op = "adopt" => DoAdopt(t, c.state)
    <2>1. Do(t, c)
      BY <1>1, <1>2
    <2> QED
      BY <1>3, <2>1, DoCases DEF Goal
  <1> QED
    BY <1>4, <1>5, <1>6

\* Every step of the daemon is an event that is saved, or a restart, or leaves
\* the table and the state file alone.
LEMMA DaemonActs ==
    ASSUME DInv, [DaemonNext]_allvars
    PROVE  (Next /\ Save) \/ UNCHANGED <<evars, disk>> \/ Restarted
  <1>1. CASE \E t \in Thread : ThreadStep(t)
    BY <1>1, ThreadActs
  <1>2. CASE DbusEvent
    <2>1. Next
      BY <1>2, CommandIsUserStep DEF DbusEvent, Next, NetworkStep
    <2> QED
      BY <1>2, <2>1 DEF DbusEvent
  <1> QED
    BY <1>1, <1>2
       DEF DaemonNext, allvars, dvars, MonitorWakes, Repair, ShowPeer,
           SystemChanges, Crash, Exit

\* The state file has what the daemon has, where saving never fails.
DiskIsCurrent ==
    disk = [peers |-> peers, prefs |-> prefs, system_state |-> system_state]

\* An event without an error is saved.
LEMMA EventIsSaved ==
    ASSUME Next, Save, ~SaveFaults, DiskIsCurrent
    PROVE  DiskIsCurrent'
  <1>1. CASE UNCHANGED <<peers, prefs, system_state>>
    BY <1>1 DEF Save, DiskIsCurrent
  <1>2. result'.error => UNCHANGED <<peers, prefs, system_state>>
    <2>1. ASSUME NEW e, NEW ps, NEW pf, NEW ss, NEW sync,
                 Validate(e, ps, pf, ss, sync)
          PROVE  result'.error => UNCHANGED <<peers, prefs, system_state>>
      BY <2>1 DEF Validate, Abort
    <2>2. ASSUME NEW e, NoWrites(e) \/ Abort(e)
          PROVE  UNCHANGED <<peers, prefs, system_state>>
      BY <2>2 DEF NoWrites, Abort
    <2>3. ASSUME NEW e, NEW ps, NEW sync, ValidatePeers(e, ps, sync)
          PROVE  result'.error => UNCHANGED <<peers, prefs, system_state>>
      BY <2>1, <2>3 DEF ValidatePeers
    <2>4. ASSUME NEW e, NEW v, NEW q, EditPeer(e, v, q)
          PROVE  result'.error => UNCHANGED <<peers, prefs, system_state>>
      BY <2>2, <2>3, <2>4 DEF EditPeer
    <2>5. CASE NetworkStep
      BY <2>1, <2>2, <2>3, <2>5
         DEF NetworkStep, AcceptDescriptor, RejectDescriptor, NewSystemState
    <2>6. CASE UserPeerStep \/ PeerNameStep
      <3>1. ASSUME NEW v, NEW field, NEW b,
                   SetFlag(v, field, b) \/ SetAddr(v, field, b)
            PROVE  result'.error => UNCHANGED <<peers, prefs, system_state>>
        BY <2>4, <3>1 DEF SetFlag, SetAddr
      <3>2. ASSUME NEW v, NEW h, VerifyAndPinPeer(v, h)
            PROVE  result'.error => UNCHANGED <<peers, prefs, system_state>>
        BY <2>2, <2>3, <3>2 DEF VerifyAndPinPeer
      <3>3. ASSUME NEW v, NEW a, UserPeerAddrAdd(v, a) \/ UserPeerAddrDel(v, a)
            PROVE  result'.error => UNCHANGED <<peers, prefs, system_state>>
        BY <2>2, <2>3, <3>3 DEF UserPeerAddrAdd, UserPeerAddrDel
      <3>4. ASSUME NEW v, NEW n, NEW b,
                   SetPetname(v, n) \/ SetNickname(v, n, b)
            PROVE  result'.error => UNCHANGED <<peers, prefs, system_state>>
        BY <2>2, <2>4, <3>4 DEF SetPetname, SetNickname
      <3> QED
        BY <2>6, <3>1, <3>2, <3>3, <3>4, Zenon DEF UserPeerStep, PeerNameStep
    <2>7. ASSUME NEW key, UserRemovePeer(key)
          PROVE  result'.error => UNCHANGED <<peers, prefs, system_state>>
      BY <2>2, <2>3, <2>7 DEF UserRemovePeer
    <2>8. CASE ReleaseGateway
      BY <2>2, <2>4, <2>8 DEF ReleaseGateway
    <2>9. ASSUME NEW pf, EditPrefs(pf)
          PROVE  result'.error => UNCHANGED <<peers, prefs, system_state>>
      BY <2>1, <2>9 DEF EditPrefs
    <2> QED
      BY <2>5, <2>6, <2>7, <2>8, <2>9
         DEF Next, UserStep, CommandStep, NameStep, SetPinNewPeers,
             EditSubnetsAllowed, EditLocalDomains
  <1>3. CASE ~UNCHANGED <<peers, prefs, system_state>>
    BY <1>2, <1>3 DEF Save, DiskIsCurrent
  <1> QED
    BY <1>1, <1>3

\* No step leaves the state file behind.
LEMMA DiskStep ==
    ASSUME DInv, DiskIsCurrent, ~SaveFaults, [DaemonNext]_allvars
    PROVE  DiskIsCurrent'
  <1>1. CASE Next /\ Save
    BY <1>1, EventIsSaved
  <1>2. CASE UNCHANGED <<evars, disk>>
    BY <1>2 DEF DiskIsCurrent, evars
  <1>3. CASE Restarted
    BY <1>3 DEF DiskIsCurrent, Restarted
  <1> QED
    BY <1>1, <1>2, <1>3, DaemonActs

\* Where saving never fails a restart forgets nothing: a crash between any two
\* steps, of either thread, loses no event that took place.
THEOREM NothingIsForgotten ==
    ASSUME ~SaveFaults
    PROVE  DaemonSpec => []DiskIsCurrent
  <1>1. DaemonInit => DiskIsCurrent
    BY DEF DaemonInit, DiskIsCurrent
  <1>2. DInv /\ DiskIsCurrent /\ [DaemonNext]_allvars => DiskIsCurrent'
    BY DiskStep
  <1> QED
    BY <1>1, <1>2, DaemonInvariance, PTL DEF DaemonSpec

\* In the daemon too, whatever its two threads interleave and wherever it is
\* restarted, no descriptor and no change of the system takes anything from a
\* pinned peer, and who evicts a peer stays.
THEOREM DaemonProtectsPinned ==
    DaemonSpec => PinnedSurvives /\ EvictionHasSuccessor
  <1>1. DInv /\ [DaemonNext]_allvars =>
           /\ [result'.event \in NetworkEvents => KeepsPinned]_vars
           /\ [EvictionSucceeded]_vars
    <2> SUFFICES ASSUME DInv, [DaemonNext]_allvars
                 PROVE  /\ [result'.event \in NetworkEvents => KeepsPinned]_vars
                        /\ [EvictionSucceeded]_vars
      OBVIOUS
    <2>1. CASE Next
      BY <2>1, StepKeeps DEF DInv
    <2>2. CASE UNCHANGED evars
      BY <2>2 DEF evars, vars
    <2>3. CASE Restarted
      <3>1. result'.event = "none"
        BY <2>3 DEF Restarted
      <3> QED
        BY <3>1 DEF NetworkEvents, EvictionSucceeded
    <2> QED
      BY <2>1, <2>2, <2>3, DaemonActs
  <1> QED
    BY <1>1, DaemonInvariance, PTL
       DEF DaemonSpec, PinnedSurvives, EvictionHasSuccessor

\* Where saving never fails no descriptor of a known peer is replaced by an
\* older one and no hidden name comes back, across restarts as well.
THEOREM NoReplayAfterRestart ==
    ASSUME ~SaveFaults
    PROVE  DaemonSpec => VfNeverDecreases /\ HiddenNameStaysHidden
  <1>1. DInv /\ DiskIsCurrent /\ [DaemonNext]_allvars =>
           /\ [KeepsVf]_vars
           /\ [result'.event # "USER_EDIT" => KeepsHidden]_vars
    <2> SUFFICES ASSUME DInv, DiskIsCurrent, [DaemonNext]_allvars
                 PROVE  /\ [KeepsVf]_vars
                        /\ [result'.event # "USER_EDIT" => KeepsHidden]_vars
      OBVIOUS
    <2>1. CASE Next
      BY <2>1, StepKeeps DEF DInv
    <2>2. CASE UNCHANGED evars
      BY <2>2 DEF evars, vars
    <2>3. CASE Restarted
      <3>1. peers' = peers
        BY <2>3 DEF Restarted, DiskIsCurrent
      <3>2. KeepsVf /\ KeepsHidden
        BY <3>1, SameEntryIsKept, KeptEntriesSuffice DEF DInv
      <3> QED
        BY <3>2
    <2> QED
      BY <2>1, <2>2, <2>3, DaemonActs
  <1> QED
    BY <1>1, DaemonInvariance, NothingIsForgotten, PTL
       DEF DaemonSpec, VfNeverDecreases, HiddenNameStaysHidden

-----------------------------------------------------------------------------
(* The order of the waiting calls *)

\* What is left of an orderly sequence is orderly.
LEMMA OrderlySuffix ==
    ASSUME NEW s \in Seq(Calls), NEW r \in Seq(Calls), NEW k,
           SuffixFrom(r, s, k), Orderly(s)
    PROVE  Orderly(r)
  <1> SUFFICES ASSUME NEW a \in 1..Len(r), NEW b \in 1..Len(r), NEW n \in 1..Len(r),
                      a < b, b < n, r[a].op \in Source, r[n].op \in Goal
               PROVE  r[b].op \in Neutral \cup {"sync"}
    BY DEF Orderly
  <1>1. /\ k \in 1..Len(s) + 1
        /\ Len(r) = Len(s) - k + 1
    BY DEF SuffixFrom
  <1>2. /\ r[a] = s[a + k - 1] /\ r[b] = s[b + k - 1] /\ r[n] = s[n + k - 1]
    BY DEF SuffixFrom
  <1>3. /\ a + k - 1 \in 1..Len(s) /\ b + k - 1 \in 1..Len(s)
        /\ n + k - 1 \in 1..Len(s)
        /\ a + k - 1 < b + k - 1 /\ b + k - 1 < n + k - 1
    BY <1>1
  <1> QED
    BY <1>2, <1>3 DEF Orderly

\* So is a sequence whose first call is replaced by others, if these contain
\* a source only if it was one, and after it nothing but what may follow.
LEMMA OrderlyReplaced ==
    ASSUME NEW s \in Seq(Calls), NEW r \in Seq(Calls), NEW new \in Seq(Calls),
           SuffixFrom(r, s, 2), Orderly(s),
           \A a \in 1..Len(new) : new[a].op \in Source =>
              /\ s[1].op \in Source
              /\ \A b \in a + 1..Len(new) : new[b].op \in Neutral \cup {"sync"}
    PROVE  Orderly(new \o r)
  <1> DEFINE w == new \o r
  <1> SUFFICES ASSUME NEW a \in 1..Len(w), NEW b \in 1..Len(w), NEW n \in 1..Len(w),
                      a < b, b < n, w[a].op \in Source, w[n].op \in Goal
               PROVE  w[b].op \in Neutral \cup {"sync"}
    BY DEF Orderly
  <1>1. /\ Len(w) = Len(new) + Len(r)
        /\ \A i \in 1..Len(new) : w[i] = new[i]
        /\ \A i \in 1..Len(w) : i > Len(new) => w[i] = r[i - Len(new)]
    OBVIOUS
  <1> HIDE DEF w
  <1>2. Len(s) \in Nat /\ Len(new) \in Nat /\ Len(r) \in Nat /\ Len(r) = Len(s) - 1
    BY DEF SuffixFrom
  <1>3. ASSUME NEW i \in 1..Len(w), i > Len(new)
        PROVE  /\ i - Len(new) + 1 \in 2..Len(s)
               /\ w[i] = s[i - Len(new) + 1]
    <2>1. i - Len(new) \in 1..Len(r) /\ (i - Len(new)) + 2 - 1 = i - Len(new) + 1
      BY <1>1, <1>2, <1>3
    <2>2. r[i - Len(new)] = s[(i - Len(new)) + 2 - 1]
      BY <2>1 DEF SuffixFrom
    <2> QED
      BY <1>1, <1>2, <1>3, <2>1, <2>2
  <1>4. CASE b <= Len(new)
    <2>1. a \in 1..Len(new) /\ b \in a + 1..Len(new) /\ b \in 1..Len(new)
      BY <1>2, <1>4
    <2> QED
      BY <1>1, <2>1
  <1>5. CASE b > Len(new) /\ a <= Len(new)
    <2>1. s[1].op \in Source
      BY <1>1, <1>2, <1>5, SMTT(20)
    <2> DEFINE x == b - Len(new) + 1
               y == n - Len(new) + 1
    <2>2. x \in 2..Len(s) /\ w[b] = s[x] /\ y \in 2..Len(s) /\ w[n] = s[y] /\ x < y
      BY <1>2, <1>3, <1>5
    <2> HIDE DEF x, y
    <2> QED
      BY <1>2, <2>1, <2>2 DEF Orderly
  <1>6. CASE b > Len(new) /\ a > Len(new)
    <2> DEFINE x == b - Len(new) + 1
               y == n - Len(new) + 1
               z == a - Len(new) + 1
    <2>1. /\ x \in 2..Len(s) /\ w[b] = s[x] /\ y \in 2..Len(s) /\ w[n] = s[y]
          /\ z \in 2..Len(s) /\ w[a] = s[z] /\ x < y /\ z < x
      BY <1>2, <1>3, <1>6
    <2> HIDE DEF x, y, z
    <2> QED
      BY <1>2, <2>1 DEF Orderly
  <1> QED
    BY <1>2, <1>4, <1>5, <1>6

\* An end that is reached once the first call of s is replaced by new was
\* reached in s, and what waits before it is what waited, and new.
Moved(s, n, new, s2, n2) ==
    /\ n \in 2..Len(s)
    /\ \A c \in Elems(new) \cup Later(s, n) :
          c.op # "catch" => c \in Before(s2, n2)
    /\ Later(s2, n2) \subseteq Later(new, Len(new) + 1) \cup Later(s, n)
    /\ n2 # 1 => s2[1] \in Elems(new) \cup Later(s, n)
    /\ s2[1].op \in Goal \/ s2[1] \in Elems(new) \cup Later(s, n)
    /\ new # <<>> /\ new[1].op # "catch" => n2 # 1 /\ s2[1] = new[1]

\* A call that is replaced by the calls it makes (new): each goal that can be
\* resumed afterwards was one before, and nothing that comes before it is lost.
LEMMA ReplacedGoals ==
    ASSUME NEW s \in Seq(Calls), NEW r \in Seq(Calls), NEW new \in Seq(Calls),
           SuffixFrom(r, s, 2), NEW s2, s2 = Resumed(new \o r),
           \A i \in 1..Len(new) : new[i].op \notin Goal,
           NEW n2 \in Goals(s2)
    PROVE  \E n \in 2..Len(s) :
              /\ s[n].op \in Goal
              /\ \A i \in 2..n - 1 : s[i].op # "sync"
              /\ Moved(s, n, new, s2, n2)
  <1> DEFINE w == new \o r
  <1>1. /\ Len(w) = Len(new) + Len(r)
        /\ \A i \in 1..Len(new) : w[i] = new[i]
        /\ \A i \in 1..Len(w) : i > Len(new) => w[i] = r[i - Len(new)]
        /\ w \in Seq(Calls)
    OBVIOUS
  <1>2. PICK k \in 1..Len(w) + 1 :
           /\ SuffixFrom(s2, w, k)
           /\ \A i \in 1..k - 1 : w[i].op = "catch"
    BY <1>1, ResumedSuffix
  <1> HIDE DEF w
  <1>3. /\ s2 \in Seq(Calls)
        /\ Len(s2) = Len(w) - k + 1
        /\ \A i \in 1..Len(s2) : s2[i] = w[i + k - 1]
    BY <1>1, <1>2, ResumedSuffix DEF SuffixFrom, w
  <1>4. /\ Len(s) \in Nat /\ Len(new) \in Nat /\ Len(r) \in Nat
        /\ Len(r) = Len(s) - 1 /\ Len(s2) \in Nat
        /\ Len(w) = Len(new) + Len(r) /\ k \in Nat /\ k >= 1
        /\ Len(s2) = Len(w) - k + 1
    BY <1>1, <1>3 DEF SuffixFrom
  <1>5. \A j \in 1..Len(r) : r[j] = s[j + 1]
    <2> SUFFICES ASSUME NEW j \in 1..Len(r) PROVE r[j] = s[j + 1]
      OBVIOUS
    <2>1. r[j] = s[j + 2 - 1] /\ j + 2 - 1 = j + 1
      BY <1>4 DEF SuffixFrom
    <2> QED
      BY <2>1
  <1>6. n2 \in 1..Len(s2) /\ s2[n2].op \in Goal /\ \A i \in 1..n2 - 1 : s2[i].op # "sync"
    BY DEF Goals
  <1> DEFINE g == n2 + k - 1
             n == g - Len(new) + 1
  <1>7. g \in 1..Len(w) /\ w[g] = s2[n2]
    BY <1>3, <1>4, <1>6
  <1>8. g > Len(new)
    <2> SUFFICES ASSUME ~(g > Len(new)) PROVE FALSE
      OBVIOUS
    <2>1. g \in 1..Len(new)
      BY <1>4, <1>7
    <2> HIDE DEF g
    <2> QED
      BY <1>1, <1>6, <1>7, <2>1
  <1>9. /\ n \in 2..Len(s) /\ n - 1 \in 1..Len(r) /\ g - Len(new) = n - 1
        /\ (n - 1) + 1 = n /\ n \in Nat /\ g \in Nat
    <2>1. g \in 1..Len(new) + Len(r)
      BY <1>4, <1>7
    <2> HIDE DEF g
    <2> QED
      BY <1>4, <1>8, <2>1
  <1>10. s[n] = s2[n2]
    BY <1>1, <1>5, <1>7, <1>8, <1>9
  \* The i-th call of w, by where it comes from and where it goes to.
  <1>11. ASSUME NEW i \in 1..g - 1, i >= k
         PROVE  /\ i - k + 1 \in 1..n2 - 1
                /\ w[i] = s2[i - k + 1]
    <2>1. i - k + 1 \in 1..n2 - 1 /\ (i - k + 1) + k - 1 = i
      BY <1>4, <1>6, <1>11
    <2>2. i - k + 1 \in 1..Len(s2)
      BY <1>4, <1>6, <2>1
    <2> QED
      BY <1>3, <2>1, <2>2
  <1>12. ASSUME NEW j \in 2..n - 1
         PROVE  /\ j - 1 + Len(new) \in 1..g - 1
                /\ w[j - 1 + Len(new)] = s[j]
    <2>1. /\ j - 1 + Len(new) \in 1..g - 1 /\ j - 1 + Len(new) > Len(new)
          /\ (j - 1 + Len(new)) - Len(new) = j - 1 /\ (j - 1) + 1 = j
          /\ j - 1 \in 1..Len(r) /\ j - 1 + Len(new) \in 1..Len(w)
      <3>1. j - 1 < n - 1 /\ j >= 2 /\ g = n - 1 + Len(new) /\ j \in Nat
        BY <1>4, <1>9, SMTT(20)
      <3> HIDE DEF n, g
      <3> QED
        BY <1>4, <1>9, <3>1
    <2> HIDE DEF n, g
    <2> QED
      BY <1>1, <1>5, <2>1
  <1>13. ASSUME NEW i \in 1..g - 1
         PROVE  w[i].op = "catch" \/ w[i] \in Before(s2, n2)
    <2>1. CASE i < k
      BY <1>2, <2>1
    <2>2. CASE i >= k
      BY <1>11, <2>2 DEF Before
    <2> QED
      BY <1>4, <2>1, <2>2
  <1>14. ASSUME NEW j \in 2..n - 1
         PROVE  s[j].op # "sync"
    <2> DEFINE i == j - 1 + Len(new)
    <2>1. i \in 1..g - 1 /\ w[i] = s[j]
      BY <1>12
    <2> HIDE DEF i
    <2>2. CASE i < k
      BY <1>2, <2>1, <2>2
    <2>3. CASE i >= k
      BY <1>6, <1>11, <2>1, <2>3
    <2> QED
      BY <1>4, <2>1, <2>2, <2>3
  <1>15. \A c \in Elems(new) \cup Later(s, n) : c.op # "catch" => c \in Before(s2, n2)
    <2>1. ASSUME NEW c \in Elems(new), c.op # "catch" PROVE c \in Before(s2, n2)
      <3>1. PICK i \in 1..Len(new) : c = new[i]
        BY DEF Elems
      <3>2. i \in 1..g - 1 /\ w[i] = c
        BY <1>1, <1>4, <1>7, <1>8, <3>1
      <3> QED
        BY <1>13, <2>1, <3>2
    <2>2. ASSUME NEW c \in Later(s, n), c.op # "catch" PROVE c \in Before(s2, n2)
      <3>1. PICK j \in 2..n - 1 : c = s[j]
        BY DEF Later
      <3> QED
        BY <1>12, <1>13, <2>2, <3>1
    <2> QED
      BY <2>1, <2>2
  \* The other way round.
  <1>16. ASSUME NEW i \in 1..n2 - 1
         PROVE  /\ i + k - 1 <= Len(new) => s2[i] = new[i + k - 1]
                /\ i + k - 1 > Len(new) => s2[i] \in Later(s, n)
                /\ i + k - 1 >= i
    <2> DEFINE x == i + k - 1
    <2>1. i \in 1..Len(s2) /\ x \in 1..g - 1 /\ x \in 1..Len(w) /\ x >= i
      <3>1. n2 <= Len(s2) /\ n2 \in Nat /\ i \in Nat /\ i >= 1 /\ i < n2
        BY <1>4, <1>6
      <3> QED
        BY <1>4, <3>1
    <2>2. s2[i] = w[x]
      BY <1>3, <2>1
    <2>3. ASSUME x > Len(new)
          PROVE  s2[i] \in Later(s, n)
      <3>1. /\ x - Len(new) \in 1..Len(r)
            /\ (x - Len(new)) + 1 \in 2..n - 1
        <4>1. x \in Nat /\ x < g /\ g - Len(new) = n - 1 /\ n - 1 <= Len(r)
          BY <1>4, <1>9, <2>1
        <4> HIDE DEF x, n, g
        <4> QED
          BY <1>4, <1>9, <2>3, <4>1
      <3> HIDE DEF x, n
      <3>2. w[x] = s[(x - Len(new)) + 1]
        BY <1>1, <1>5, <2>1, <2>3, <3>1
      <3> QED
        BY <2>2, <3>1, <3>2 DEF Later
    <2>4. x <= Len(new) => s2[i] = new[x]
      BY <1>1, <1>4, <2>1, <2>2
    <2> QED
      BY <2>1, <2>3, <2>4
  <1>17. Later(s2, n2) \subseteq Later(new, Len(new) + 1) \cup Later(s, n)
    <2> SUFFICES ASSUME NEW i \in 2..n2 - 1
                 PROVE  s2[i] \in Later(new, Len(new) + 1) \cup Later(s, n)
      BY DEF Later
    <2> DEFINE x == i + k - 1
    <2>1. i \in 1..n2 - 1 /\ x \in Int
      BY <1>4, <1>6
    <2>2. /\ x <= Len(new) => s2[i] = new[x]
          /\ x > Len(new) => s2[i] \in Later(s, n)
          /\ x >= 2
      BY <1>16, <2>1
    <2> HIDE DEF x, n
    <2>3. CASE x <= Len(new)
      <3>1. x \in 2..(Len(new) + 1) - 1
        BY <1>4, <2>1, <2>2, <2>3
      <3> QED
        BY <2>2, <2>3, <3>1 DEF Later
    <2> QED
      BY <1>4, <2>1, <2>2, <2>3
  <1>18. ASSUME n2 # 1
         PROVE  s2[1] \in Elems(new) \cup Later(s, n)
    <2>1. 1 \in 1..n2 - 1 /\ 1 + k - 1 = k
      BY <1>4, <1>6, <1>18
    <2>2. /\ k <= Len(new) => s2[1] = new[k]
          /\ k > Len(new) => s2[1] \in Later(s, n)
      BY <1>16, <2>1
    <2> HIDE DEF n
    <2> QED
      BY <1>4, <2>2 DEF Elems
  <1>19. n2 = 1 => s2[1].op \in Goal
    BY <1>6
  <1>20. ASSUME new # <<>>, new[1].op # "catch"
         PROVE  n2 # 1 /\ s2[1] = new[1]
    <2>1. Len(new) >= 1
      BY <1>20
    <2>2. k = 1
      BY <1>1, <1>2, <1>4, <1>20, <2>1
    <2>3. n2 # 1 /\ 1 \in 1..n2 - 1
      BY <1>4, <1>6, <1>8, <2>1, <2>2
    <2> QED
      BY <1>16, <2>1, <2>2, <2>3
  <1> HIDE DEF n, g
  <1>21. Moved(s, n, new, s2, n2)
    BY <1>9, <1>15, <1>17, <1>18, <1>19, <1>20 DEF Moved
  <1> QED
    BY <1>6, <1>9, <1>10, <1>14, <1>21

-----------------------------------------------------------------------------
(* A sync() in progress: what each of its calls does to SyncInv *)

\* A call that waits, and is not the first, goes on waiting.
LEMMA MovedPending ==
    ASSUME NEW s, NEW n, NEW new, NEW s2, NEW n2, Moved(s, n, new, s2, n2),
           NEW x \in Before(s, n), x # s[1], x.op # "catch"
    PROVE  x \in Before(s2, n2)
  <1>1. x \in Later(s, n)
    <2>1. PICK i \in 1..n - 1 : x = s[i]
      BY DEF Before
    <2>2. i \in 2..n - 1
      BY <2>1
    <2> QED
      BY <2>1, <2>2 DEF Later
  <1> QED
    BY <1>1 DEF Moved

\* The waiting calls stay sound if the new ones are.
LEMMA MovedSound ==
    ASSUME NEW s, NEW n, NEW new, NEW s2, NEW n2, Moved(s, n, new, s2, n2),
           SyncInv(s, n), peers' = peers,
           \A x \in Later(new, Len(new) + 1) : Sound(x),
           \/ Elems(new) = {}
           \/ /\ new # <<>> /\ new[1].op # "catch"
              /\ Sound(new[1]) \/ SoundNow(new[1])'
    PROVE  /\ \A c \in Later(s2, n2) : Sound(c)'
           /\ n2 # 1 => Sound(s2[1])' \/ SoundNow(s2[1])'
  <1>1. ASSUME NEW x PROVE Sound(x)' <=> Sound(x)
    BY DEF Sound
  <1>2. \A c \in Later(s, n) : Sound(c)
    BY DEF SyncInv
  <1>3. \A c \in Later(s2, n2) : Sound(c)'
    BY <1>1, <1>2 DEF Moved
  <1>4. CASE Elems(new) = {}
    BY <1>1, <1>2, <1>3, <1>4 DEF Moved
  <1>5. CASE /\ new # <<>> /\ new[1].op # "catch"
             /\ Sound(new[1]) \/ SoundNow(new[1])'
    BY <1>1, <1>3, <1>5 DEF Moved
  <1> QED
    BY <1>4, <1>5

\* The names of the calls that are looked for.
LEMMA CallNames ==
    /\ \A op : Call(op).op = op
    /\ \A v : SyncPeer(v).op = "sync_peer" /\ SyncPeer(v).vk = v
    /\ \A op, q : WithPeer(op, q).op = op /\ WithPeer(op, q).peer = q
  BY DEF Call, SyncPeer, WithPeer

\* A call that changes neither the table nor the kernel: what it should have
\* mended is mended by the calls that replace it.
LEMMA ReplacedKeeps ==
    ASSUME NEW s, NEW n, NEW new, NEW s2, NEW n2, Moved(s, n, new, s2, n2),
           SyncInv(s, n), peers' = peers, UNCHANGED kvars,
           \A x \in Later(new, Len(new) + 1) : Sound(x),
           \/ Elems(new) = {}
           \/ /\ new # <<>> /\ new[1].op # "catch"
              /\ Sound(new[1]) \/ SoundNow(new[1]),
           s[1].op \notin {"apply_peerconfig", "sync_gw_routes", "add_routes",
                          "remove_unknown_peers", "del_routes"},
           \A v \in Enabled(peers) : s[1] = SyncPeer(v) =>
              /\ WithPeer("apply_peerconfig", peers[v]) \in Elems(new)
              /\ WithPeer("sync_routes", peers[v]) \in Elems(new)
              /\ peers[v].use_as_gateway => Call("sync_gw_routes") \in Elems(new),
           \A v \in Enabled(peers) : s[1] = WithPeer("sync_routes", peers[v]) =>
              /\ new # <<>> /\ new[1].op = "add_routes"
              /\ Routes(peers[v]) \subseteq routes \cup new[1].dests,
           s[1] = Call("remove_unknown") =>
              /\ \E c \in Elems(new) : c.op = "remove_unknown_peers"
              /\ Call("list_routes") \in Elems(new),
           s[1] = Call("list_routes") => new # <<>> /\ new[1].op = "del_routes"
    PROVE  SyncInv(s2, n2)'
  <1> DEFINE B == Before(s, n)
             B2 == Before(s2, n2)
  <1>1. UNCHANGED <<peers, wg_peers, allowed_ips, wgi, routes, gw_routes>>
    BY DEF kvars
  <1>2. /\ \A c \in Later(s2, n2) : Sound(c)'
        /\ n2 # 1 => Sound(s2[1])' \/ SoundNow(s2[1])'
    <2>1. ASSUME NEW x PROVE SoundNow(x)' <=> SoundNow(x)
      BY <1>1 DEF SoundNow
    <2> QED
      BY <2>1, MovedSound
  <1>3. ASSUME NEW x \in B, x # s[1], x.op # "catch"
        PROVE  x \in B2
    BY <1>3, MovedPending
  <1>4. ASSUME NEW x \in Elems(new), x.op # "catch"
        PROVE  x \in B2
    BY <1>4 DEF Moved
  <1>5. new # <<>> /\ new[1].op # "catch" => s2[1] = new[1]
    BY DEF Moved
  <1>6. ASSUME NEW v \in Enabled(peers)
        PROVE  /\ KeyComes(v, B2)'
               /\ RoutesCome(v, B2, s2[1])'
               /\ GwComes(v, B2)'
    <2>1. /\ KeyComes(v, B) /\ RoutesCome(v, B, s[1]) /\ GwComes(v, B)
      BY DEF SyncInv
    <2>2. KeyDone(v)' <=> KeyDone(v)
      BY <1>1 DEF KeyDone
    <2>3. RoutesDone(v)' <=> RoutesDone(v)
      BY <1>1 DEF RoutesDone
    <2>4. GwDone(v)' <=> GwDone(v)
      BY <1>1 DEF GwDone
    <2> HIDE DEF B, B2
    <2>5. SyncPeer(v) \in B =>
             \/ SyncPeer(v) \in B2
             \/ /\ WithPeer("apply_peerconfig", peers[v]) \in B2
                /\ WithPeer("sync_routes", peers[v]) \in B2
                /\ GwDone(v) \/ Call("sync_gw_routes") \in B2
      BY <1>3, <1>4, CallNames DEF GwDone
    <2>6. KeyComes(v, B2)'
      <3>1. WithPeer("apply_peerconfig", peers[v]) \in B =>
               WithPeer("apply_peerconfig", peers[v]) \in B2
        BY <1>3, CallNames
      <3>2. KeyDone(v) \/ SyncPeer(v) \in B2 \/ WithPeer("apply_peerconfig", peers[v]) \in B2
        BY <2>1, <2>5, <3>1 DEF KeyComes
      <3> QED
        BY <1>1, <2>2, <3>2 DEF KeyComes
    <2>7. GwComes(v, B2)'
      <3>1. Call("sync_gw_routes") \in B => Call("sync_gw_routes") \in B2
        BY <1>3, CallNames
      <3>2. GwDone(v) \/ SyncPeer(v) \in B2 \/ Call("sync_gw_routes") \in B2
        BY <2>1, <2>5, <3>1 DEF GwComes
      <3> QED
        BY <1>1, <2>4, <3>2 DEF GwComes
    <2>8. RoutesCome(v, B2, s2[1])'
      <3>1. WithPeer("sync_routes", peers[v]) \in B =>
               \/ WithPeer("sync_routes", peers[v]) \in B2
               \/ s2[1].op = "add_routes" /\ Routes(peers[v]) \subseteq routes \cup s2[1].dests
        BY <1>3, <1>5, CallNames
      <3>2. s[1].op # "add_routes"
        OBVIOUS
      <3>3. \/ RoutesDone(v) \/ SyncPeer(v) \in B2
            \/ WithPeer("sync_routes", peers[v]) \in B2
            \/ s2[1].op = "add_routes" /\ Routes(peers[v]) \subseteq routes \cup s2[1].dests
        BY <2>1, <2>5, <3>1, <3>2 DEF RoutesCome
      <3> QED
        BY <1>1, <2>3, <3>3 DEF RoutesCome
    <2> QED
      BY <2>6, <2>7, <2>8
  <1>7. PeersBecomeClean(B2)'
    <2>1. PeersBecomeClean(B)
      BY DEF SyncInv
    <2>2. PeersClean' <=> PeersClean
      BY <1>1 DEF PeersClean
    <2> HIDE DEF B, B2
    <2>3. Call("remove_unknown") \in B =>
             Call("remove_unknown") \in B2 \/ \E c \in B2 : c.op = "remove_unknown_peers"
      BY <1>3, <1>4, CallNames
    <2>4. (\E c \in B : c.op = "remove_unknown_peers") =>
             \E c \in B2 : c.op = "remove_unknown_peers"
      BY <1>3
    <2> QED
      BY <2>1, <2>2, <2>3, <2>4 DEF PeersBecomeClean
  <1>8. RoutesBecomeClean(B2, s2[1])'
    <2>1. RoutesBecomeClean(B, s[1])
      BY DEF SyncInv
    <2>2. RoutesClean' <=> RoutesClean
      BY <1>1 DEF RoutesClean
    <2> HIDE DEF B, B2
    <2>3. Call("remove_unknown") \in B =>
             Call("remove_unknown") \in B2 \/ Call("list_routes") \in B2
      BY <1>3, <1>4, CallNames
    <2>4. Call("list_routes") \in B =>
             Call("list_routes") \in B2 \/ s2[1].op = "del_routes"
      BY <1>3, <1>5, CallNames
    <2> QED
      BY <2>1, <2>2, <2>3, <2>4 DEF RoutesBecomeClean
  <1>9. (wg_peers \ wgi \subseteq EnabledPks(peers))'
    BY <1>1 DEF SyncInv
  <1> QED
    BY <1>1, <1>2, <1>6, <1>7, <1>8, <1>9 DEF SyncInv

\* A call that changes the kernel: what is right stays so, and what this call
\* is for is right afterwards.
LEMMA ChangeKeeps ==
    ASSUME NEW s, NEW n, NEW s2, NEW n2, Moved(s, n, <<>>, s2, n2),
           SyncInv(s, n), peers' = peers,
           s[1].op \in {"apply_peerconfig", "sync_gw_routes", "add_routes",
                       "remove_unknown_peers", "del_routes"},
           (wg_peers \ wgi \subseteq EnabledPks(peers))',
           \A v \in Enabled(peers) :
              KeyDone(v) \/ s[1] = WithPeer("apply_peerconfig", peers[v]) => KeyDone(v)',
           \A v \in Enabled(peers) :
              \/ RoutesDone(v)
              \/ s[1].op = "add_routes" /\ Routes(peers[v]) \subseteq routes \cup s[1].dests
              => RoutesDone(v)',
           \A v \in Enabled(peers) :
              GwDone(v) \/ s[1] = Call("sync_gw_routes") => GwDone(v)',
           PeersClean \/ s[1].op = "remove_unknown_peers" => PeersClean',
           RoutesClean \/ s[1].op = "del_routes" => RoutesClean'
    PROVE  SyncInv(s2, n2)'
  <1> DEFINE B == Before(s, n)
             B2 == Before(s2, n2)
  <1>1. Elems(<<>>) = {} /\ Later(<<>>, Len(<<>>) + 1) = {}
    BY DEF Elems, Later
  <1>2. /\ \A c \in Later(s2, n2) : Sound(c)'
        /\ n2 # 1 => Sound(s2[1])' \/ SoundNow(s2[1])'
    BY <1>1, MovedSound
  <1>3. ASSUME NEW x \in B, x # s[1], x.op # "catch"
        PROVE  x \in B2
    BY <1>3, MovedPending
  <1>4. ASSUME NEW v \in Enabled(peers)
        PROVE  /\ KeyComes(v, B2)'
               /\ RoutesCome(v, B2, s2[1])'
               /\ GwComes(v, B2)'
    <2>1. /\ KeyComes(v, B) /\ RoutesCome(v, B, s[1]) /\ GwComes(v, B)
      BY DEF SyncInv
    <2> HIDE DEF B, B2
    <2>2. SyncPeer(v) \in B => SyncPeer(v) \in B2
      BY <1>3, CallNames
    <2>3. WithPeer("sync_routes", peers[v]) \in B => WithPeer("sync_routes", peers[v]) \in B2
      BY <1>3, CallNames
    <2>4. WithPeer("apply_peerconfig", peers[v]) \in B =>
             \/ WithPeer("apply_peerconfig", peers[v]) \in B2
             \/ KeyDone(v)'
      BY <1>3, CallNames
    <2>5. Call("sync_gw_routes") \in B => Call("sync_gw_routes") \in B2 \/ GwDone(v)'
      BY <1>3, CallNames
    <2>6. KeyDone(v)' \/ SyncPeer(v) \in B2 \/ WithPeer("apply_peerconfig", peers[v]) \in B2
      BY <2>1, <2>2, <2>4 DEF KeyComes
    <2>7. RoutesDone(v)' \/ SyncPeer(v) \in B2 \/ WithPeer("sync_routes", peers[v]) \in B2
      BY <2>1, <2>2, <2>3 DEF RoutesCome
    <2>8. GwDone(v)' \/ SyncPeer(v) \in B2 \/ Call("sync_gw_routes") \in B2
      BY <2>1, <2>2, <2>5 DEF GwComes
    <2> QED
      BY <2>6, <2>7, <2>8 DEF KeyComes, RoutesCome, GwComes
  <1>5. PeersBecomeClean(B2)'
    <2>1. PeersBecomeClean(B)
      BY DEF SyncInv
    <2> HIDE DEF B, B2
    <2>2. Call("remove_unknown") \in B => Call("remove_unknown") \in B2
      BY <1>3, CallNames
    <2>3. (\E c \in B : c.op = "remove_unknown_peers") =>
             (\E c \in B2 : c.op = "remove_unknown_peers") \/ PeersClean'
      BY <1>3
    <2> QED
      BY <2>1, <2>2, <2>3 DEF PeersBecomeClean
  <1>6. RoutesBecomeClean(B2, s2[1])'
    <2>1. RoutesBecomeClean(B, s[1])
      BY DEF SyncInv
    <2> HIDE DEF B, B2
    <2>2. Call("remove_unknown") \in B => Call("remove_unknown") \in B2
      BY <1>3, CallNames
    <2>3. Call("list_routes") \in B => Call("list_routes") \in B2
      BY <1>3, CallNames
    <2> QED
      BY <2>1, <2>2, <2>3 DEF RoutesBecomeClean
  <1>7. Enabled(peers)' = Enabled(peers)
    BY DEF Enabled, Known
  <1> QED
    BY <1>2, <1>4, <1>5, <1>6, <1>7 DEF SyncInv

\* Among the enabled peers a key names one.
LEMMA PkNames ==
    ASSUME IInv, NEW u \in Enabled(peers), NEW v \in Enabled(peers),
           peers[u].desc.pk = peers[v].desc.pk
    PROVE  u = v
  BY UniqueFromInv DEF AnnouncedIsUnique

\* apply_peerconfig() of an enabled peer.
LEMMA ApplyKeeps ==
    ASSUME DInv, NEW s, NEW n, NEW s2, NEW n2, Moved(s, n, <<>>, s2, n2),
           SyncInv(s, n), peers' = peers, s[1].op = "apply_peerconfig",
           ApplyPeerConfig(s[1].peer)
    PROVE  SyncInv(s2, n2)'
  <1>1. PICK u \in Enabled(peers) : s[1].peer = peers[u]
    BY DEF SyncInv, Sound, SoundNow, Moved, Neutral, Goal
  <1> DEFINE pk == peers[u].desc.pk
  <1>2. /\ wgi' = wg_peers
        /\ wg_peers' = wg_peers \cup {pk}
        /\ UNCHANGED <<routes, gw_routes>>
        /\ allowed_ips' =
              [a \in Addr \cup {Default} |->
                  IF a \in WgAllowedIps(peers[u]) THEN pk
                  ELSE IF allowed_ips[a] = pk THEN NoPk
                  ELSE allowed_ips[a]]
    BY <1>1 DEF ApplyPeerConfig
  <1>3. pk \in EnabledPks(peers)
    BY DEF EnabledPks
  <1>4. /\ IInv /\ KernelTypeOK
        /\ \A v \in Enabled(peers) :
              v \in Known(peers) /\ peers[v] \in Peer /\ peers[v].desc.pk \in Pk
    BY KnownOK, PeerFields DEF DInv, Enabled, PeerOK
  <1>5. \A v \in Enabled(peers) : WgAllowedIps(peers[v]) \subseteq Addr \cup {Default}
    BY <1>4, PeerFields
  <1> HIDE DEF pk
  <1>6. ASSUME NEW v \in Enabled(peers), KeyDone(v)
        PROVE  KeyDone(v)'
    <2>1. (peers[v].desc.pk \in wg_peers)'
      BY <1>2, <1>6 DEF KeyDone
    <2>2. ASSUME NEW a \in Addr \cup {Default}, allowed_ips'[a] = peers[v].desc.pk
          PROVE  a \in WgAllowedIps(peers[v])
      <3>1. CASE a \in WgAllowedIps(peers[u])
        <4>1. peers[v].desc.pk = peers[u].desc.pk
          BY <1>2, <2>2, <3>1 DEF pk
        <4> QED
          BY <1>4, <3>1, <4>1, PkNames
      <3>2. CASE a \notin WgAllowedIps(peers[u])
        <4>1. allowed_ips[a] = peers[v].desc.pk
          BY <1>2, <1>4, <2>2, <3>2, KernelTypes
        <4> QED
          BY <1>6, <4>1 DEF KeyDone
      <3> QED
        BY <3>1, <3>2
    <2>3. ASSUME NEW a \in WgAllowedIps(peers[v])
          PROVE  \E w \in Holders(peers, a) : allowed_ips'[a] = peers[w].desc.pk
      <3>1. a \in Addr \cup {Default}
        BY <1>5
      <3>2. CASE a \in WgAllowedIps(peers[u])
        BY <1>2, <3>1, <3>2 DEF Holders, pk
      <3>3. CASE a \notin WgAllowedIps(peers[u])
        <4>1. PICK w \in Holders(peers, a) : allowed_ips[a] = peers[w].desc.pk
          BY <1>6 DEF KeyDone
        <4>2. w # u /\ w \in Enabled(peers)
          BY <3>3 DEF Holders
        <4>3. peers[w].desc.pk # pk
          BY <1>4, <4>2, PkNames DEF pk
        <4>4. allowed_ips'[a] = allowed_ips[a]
          BY <1>2, <3>1, <3>3, <4>1, <4>3
        <4> QED
          BY <4>1, <4>4
      <3> QED
        BY <3>2, <3>3
    <2> QED
      BY <2>1, <2>2, <2>3 DEF KeyDone
  <1>7. ASSUME NEW v \in Enabled(peers), peers[v] = peers[u]
        PROVE  KeyDone(v)'
    <2>1. (peers[v].desc.pk \in wg_peers)'
      BY <1>2, <1>7 DEF pk
    <2>2. ASSUME NEW a \in Addr \cup {Default}, allowed_ips'[a] = pk
          PROVE  a \in WgAllowedIps(peers[v])
      BY <1>2, <1>4, <1>7, <2>2, KernelTypes DEF pk
    <2>3. ASSUME NEW a \in WgAllowedIps(peers[v])
          PROVE  \E w \in Holders(peers, a) : allowed_ips'[a] = peers[w].desc.pk
      <3>1. a \in Addr \cup {Default}
        BY <1>5
      <3> QED
        BY <1>2, <1>7, <3>1 DEF Holders, pk
    <2> QED
      BY <1>7, <2>1, <2>2, <2>3 DEF KeyDone, pk
  <1>8. \A v \in Enabled(peers) :
           KeyDone(v) \/ s[1] = WithPeer("apply_peerconfig", peers[v]) => KeyDone(v)'
    BY <1>1, <1>6, <1>7, CallNames
  <1>9. (wg_peers \ wgi \subseteq EnabledPks(peers))'
    BY <1>2, <1>3
  <1>10. PeersClean => PeersClean'
    BY <1>2, <1>3 DEF PeersClean
  <1>11. /\ RoutesClean => RoutesClean'
         /\ \A v \in Enabled(peers) : RoutesDone(v) => RoutesDone(v)'
         /\ \A v \in Enabled(peers) : GwDone(v) => GwDone(v)'
    BY <1>2 DEF RoutesClean, RoutesDone, GwDone
  <1> QED
    BY <1>8, <1>9, <1>10, <1>11, CallNames, ChangeKeeps

\* The removal of the unknown peers, by the keys of the enabled ones.
LEMMA RemoveUnknownPeersKeeps ==
    ASSUME DInv, NEW s, NEW n, NEW s2, NEW n2, Moved(s, n, <<>>, s2, n2),
           SyncInv(s, n), peers' = peers, s[1].op = "remove_unknown_peers",
           RemoveUnknownPeers(s[1].pks)
    PROVE  SyncInv(s2, n2)'
  <1>1. s[1].pks = EnabledPks(peers)
    BY DEF SyncInv, Sound, SoundNow, Moved, Neutral, Goal
  <1> DEFINE unknown == wgi \ EnabledPks(peers)
  <1>2. /\ wg_peers' = wg_peers \ unknown
        /\ allowed_ips' = Unrouted(unknown)
        /\ \/ unknown = {} /\ UNCHANGED wgi
           \/ \E last \in unknown : wgi' = wg_peers \ (unknown \ {last})
        /\ UNCHANGED <<routes, gw_routes>>
    BY <1>1 DEF RemoveUnknownPeers
  <1>3. wg_peers \ wgi \subseteq EnabledPks(peers)
    BY DEF SyncInv
  <1>4. \A v \in Enabled(peers) :
           /\ peers[v].desc.pk \in EnabledPks(peers)
           /\ peers[v].desc.pk \in Pk
           /\ WgAllowedIps(peers[v]) \subseteq Addr \cup {Default}
    BY KnownOK, PeerFields DEF DInv, Enabled, PeerOK, EnabledPks
  <1>5. ASSUME NEW v \in Enabled(peers), NEW a \in Addr \cup {Default}
        PROVE  allowed_ips'[a] = peers[v].desc.pk <=> allowed_ips[a] = peers[v].desc.pk
    BY <1>2, <1>4, KernelTypes DEF Unrouted
  <1>6. ASSUME NEW v \in Enabled(peers), KeyDone(v)
        PROVE  KeyDone(v)'
    <2>1. (peers[v].desc.pk \in wg_peers)'
      BY <1>2, <1>4, <1>6 DEF KeyDone
    <2>2. ASSUME NEW a \in Addr \cup {Default}, allowed_ips'[a] = peers[v].desc.pk
          PROVE  a \in WgAllowedIps(peers[v])
      BY <1>5, <1>6, <2>2 DEF KeyDone
    <2>3. ASSUME NEW a \in WgAllowedIps(peers[v])
          PROVE  \E w \in Holders(peers, a) : allowed_ips'[a] = peers[w].desc.pk
      <3>1. PICK w \in Holders(peers, a) : allowed_ips[a] = peers[w].desc.pk
        BY <1>6 DEF KeyDone
      <3>2. w \in Enabled(peers) /\ a \in Addr \cup {Default}
        BY <1>4 DEF Holders
      <3> QED
        BY <1>5, <3>1, <3>2
    <2> QED
      BY <2>1, <2>2, <2>3 DEF KeyDone
  <1>7. PeersClean'
    BY <1>2, <1>3 DEF PeersClean
  <1>8. (wg_peers \ wgi \subseteq EnabledPks(peers))'
    BY <1>7 DEF PeersClean
  <1>9. /\ RoutesClean => RoutesClean'
        /\ \A v \in Enabled(peers) : RoutesDone(v) => RoutesDone(v)'
        /\ \A v \in Enabled(peers) : GwDone(v) => GwDone(v)'
    BY <1>2 DEF RoutesClean, RoutesDone, GwDone
  <1> QED
    BY <1>6, <1>7, <1>8, <1>9, CallNames, ChangeKeeps

\* The operations on routes.  None of them fails while nobody interferes.
LEMMA RoutesKeep ==
    ASSUME DInv, NEW s, NEW n, NEW s2, NEW n2, Moved(s, n, <<>>, s2, n2),
           SyncInv(s, n), peers' = peers,
           \/ s[1].op = "add_routes" /\ AddRoutes(s[1].dests)
           \/ s[1].op = "sync_gw_routes" /\ SyncGwRoutes
           \/ /\ s[1].op = "del_routes"
              /\ DelRoutes(s[1].dests, s[1].gw /\ EnabledGateways(peers) = {})
    PROVE  SyncInv(s2, n2)'
  <1>1. Sound(s[1]) \/ SoundNow(s[1])
    BY DEF SyncInv, Moved
  <1>2. UNCHANGED <<wg_peers, allowed_ips, wgi>>
    BY DEF AddRoutes, SyncGwRoutes, DelRoutes
  <1>3. /\ PeersClean => PeersClean'
        /\ \A v \in Enabled(peers) : KeyDone(v) => KeyDone(v)'
        /\ (wg_peers \ wgi \subseteq EnabledPks(peers))'
    BY <1>2 DEF PeersClean, KeyDone, SyncInv
  <1>4. \A v \in Enabled(peers) : Routes(peers[v]) \subseteq Expected(peers)
    BY DEF Expected
  <1>5. \A v \in Enabled(peers) : peers[v].use_as_gateway => EnabledGateways(peers) # {}
    BY DEF EnabledGateways, FlaggedAsGateway, Enabled
  <1>6. gw_routes \in BOOLEAN
    BY DEF DInv, KernelTypeOK
  <1>7. CASE s[1].op = "add_routes" /\ AddRoutes(s[1].dests)
    <2>1. s[1].dests \subseteq Expected(peers)
      BY <1>1, <1>7 DEF Sound, SoundNow, Neutral, Goal
    <2>2. routes' = routes \cup s[1].dests /\ gw_routes' = gw_routes
      BY <1>7 DEF AddRoutes
    <2>3. RoutesClean => RoutesClean'
      BY <2>1, <2>2 DEF RoutesClean
    <2>4. \A v \in Enabled(peers) :
             \/ RoutesDone(v)
             \/ s[1].op = "add_routes" /\ Routes(peers[v]) \subseteq routes \cup s[1].dests
             => RoutesDone(v)'
      BY <2>2 DEF RoutesDone
    <2>5. \A v \in Enabled(peers) : GwDone(v) => GwDone(v)'
      BY <2>2 DEF GwDone
    <2> QED
      BY <1>3, <1>7, <2>3, <2>4, <2>5, CallNames, ChangeKeeps
  <1>8. CASE s[1].op = "sync_gw_routes" /\ SyncGwRoutes
    <2>1. EnabledGateways(peers) # {}
      BY <1>1, <1>8 DEF Sound, SoundNow, Neutral, Goal
    <2>2. routes' = routes /\ gw_routes' = TRUE
      BY <1>8 DEF SyncGwRoutes
    <2>3. RoutesClean => RoutesClean'
      BY <2>1, <2>2 DEF RoutesClean
    <2>4. \A v \in Enabled(peers) : RoutesDone(v) => RoutesDone(v)'
      BY <2>2 DEF RoutesDone
    <2>5. \A v \in Enabled(peers) : GwDone(v)'
      BY <2>2 DEF GwDone
    <2> QED
      BY <1>3, <1>8, <2>3, <2>4, <2>5, CallNames, ChangeKeeps
  <1>9. CASE /\ s[1].op = "del_routes"
             /\ DelRoutes(s[1].dests, s[1].gw /\ EnabledGateways(peers) = {})
    <2>1. s[1].dests = routes \ Expected(peers) /\ s[1].gw = gw_routes
      BY <1>1, <1>9 DEF Sound, SoundNow, Neutral, Goal
    <2>2. /\ routes' = routes \ s[1].dests
          /\ gw_routes' = (gw_routes /\ ~(s[1].gw /\ EnabledGateways(peers) = {}))
      BY <1>9 DEF DelRoutes
    <2>3. RoutesClean'
      BY <2>1, <2>2 DEF RoutesClean
    <2>4. \A v \in Enabled(peers) : RoutesDone(v) => RoutesDone(v)'
      BY <1>4, <2>1, <2>2 DEF RoutesDone
    <2>5. \A v \in Enabled(peers) : GwDone(v) => GwDone(v)'
      BY <1>5, <1>6, <2>2 DEF GwDone
    <2> QED
      BY <1>3, <1>9, <2>3, <2>4, <2>5, CallNames, ChangeKeeps
  <1> QED
    BY <1>7, <1>8, <1>9

\* The elements of short sequences.
LEMMA ShortSeqs ==
    /\ Elems(<<>>) = {} /\ Later(<<>>, Len(<<>>) + 1) = {}
    /\ \A x : Elems(<<x>>) = {x} /\ Later(<<x>>, Len(<<x>>) + 1) = {}
    /\ \A x, y : /\ Elems(<<x, y>>) = {x, y}
                 /\ Later(<<x, y>>, Len(<<x, y>>) + 1) = {y}
    /\ \A x, y, z : /\ Elems(<<x, y, z>>) = {x, y, z}
                    /\ Later(<<x, y, z>>, Len(<<x, y, z>>) + 1) = {y, z}
  <1>1. Elems(<<>>) = {} /\ Later(<<>>, Len(<<>>) + 1) = {}
    BY DEF Elems, Later
  <1>2. ASSUME NEW x
        PROVE  Elems(<<x>>) = {x} /\ Later(<<x>>, Len(<<x>>) + 1) = {}
    BY DEF Elems, Later
  <1>3. ASSUME NEW x, NEW y
        PROVE  /\ Elems(<<x, y>>) = {x, y}
               /\ Later(<<x, y>>, Len(<<x, y>>) + 1) = {y}
    <2>1. Len(<<x, y>>) = 2 /\ 1..2 = {1, 2} /\ 2..(2 + 1) - 1 = {2}
      OBVIOUS
    <2> QED
      BY <2>1 DEF Elems, Later
  <1>4. ASSUME NEW x, NEW y, NEW z
        PROVE  /\ Elems(<<x, y, z>>) = {x, y, z}
               /\ Later(<<x, y, z>>, Len(<<x, y, z>>) + 1) = {y, z}
    <2>1. Len(<<x, y, z>>) = 3 /\ 1..3 = {1, 2, 3} /\ 2..(3 + 1) - 1 = {2, 3}
      OBVIOUS
    <2> QED
      BY <2>1 DEF Elems, Later
  <1> QED
    BY <1>1, <1>2, <1>3, <1>4

\* A pair and one more.
LEMMA ConcatPair ==
    ASSUME NEW x, NEW y, NEW z
    PROVE  <<x, y>> \o <<z>> = <<x, y, z>>
  <1> DEFINE S == {x, y, z}
             s == <<x, y>> \o <<z>>
             r == <<x, y, z>>
  <1>1. <<x, y>> \in Seq(S) /\ <<z>> \in Seq(S) /\ r \in Seq(S)
    OBVIOUS
  <1>2. s \in Seq(S)
    BY <1>1
  <1>3. Len(s) = 3 /\ Len(r) = 3
    BY <1>1
  <1>4. s[1] = r[1] /\ s[2] = r[2] /\ s[3] = r[3]
    BY <1>1
  <1> HIDE DEF S, s, r
  <1>5. \A i \in 1..3 : s[i] = r[i]
    BY <1>4
  <1>6. s = r
    BY <1>1, <1>2, <1>3, <1>5, SeqEqual
  <1> QED
    BY <1>6 DEF s, r

\* SyncInv in the next state, for the calls that wait then.
LEMMA NextSyncInv ==
    ASSUME NEW t \in Thread, NEW s2, s2 = todo'[t], NEW n2, SyncInv(s2, n2)'
    PROVE  SyncInv(todo[t], n2)'
  BY DEF SyncInv, Later, Before, Sound, SoundNow, KeyComes, RoutesCome, GwComes,
         PeersBecomeClean, RoutesBecomeClean

\* A sync() that is still to come covers the ends behind it.
LEMMA SyncCovers ==
    ASSUME NEW w \in Seq(Calls), NEW m \in 1..Len(w), w[m].op = "sync",
           \A i \in 1..m - 1 : w[i].op \notin Goal
    PROVE  Goals(Resumed(w)) = {}
  <1> DEFINE s2 == Resumed(w)
  <1> SUFFICES ASSUME NEW n2 \in Goals(s2) PROVE FALSE
    OBVIOUS
  <1>1. PICK k \in 1..Len(w) + 1 :
           /\ SuffixFrom(s2, w, k)
           /\ \A i \in 1..k - 1 : w[i].op = "catch"
    BY ResumedSuffix
  <1> HIDE DEF s2
  <1>2. /\ n2 \in 1..Len(s2) /\ s2[n2].op \in Goal
        /\ \A i \in 1..n2 - 1 : s2[i].op # "sync"
    BY DEF Goals
  <1>3. k <= m
    <2> SUFFICES ASSUME k > m PROVE FALSE
      OBVIOUS
    <2>1. m \in 1..k - 1
      OBVIOUS
    <2> QED
      BY <1>1, <2>1
  <1>4. Len(s2) = Len(w) - k + 1 /\ \A i \in 1..Len(s2) : s2[i] = w[i + k - 1]
    BY <1>1 DEF SuffixFrom
  <1>5. w[n2 + k - 1].op \in Goal
    BY <1>2, <1>4
  <1>6. n2 + k - 1 > m
    <2> SUFFICES ASSUME n2 + k - 1 <= m PROVE FALSE
      BY <1>2, <1>4
    <2>1. n2 + k - 1 \in 1..m - 1 \/ n2 + k - 1 = m
      BY <1>2
    <2> QED
      BY <1>5, <2>1 DEF Goal
  <1>7. /\ m - k + 1 \in 1..n2 - 1 /\ m - k + 1 \in 1..Len(s2)
        /\ (m - k + 1) + k - 1 = m
    BY <1>2, <1>3, <1>4, <1>6
  <1>8. s2[m - k + 1] = w[m]
    BY <1>4, <1>7
  <1> QED
    BY <1>2, <1>7, <1>8

\* An exception does not bring an end within reach.
LEMMA RaiseGoals ==
    ASSUME NEW s \in Seq(Calls), NEW s2 \in Seq(Calls), Orderly(s),
           s[1].op # "sync", NEW b \in 2..Len(s), NEW k \in 2..Len(s) + 1,
           b < k, \A i \in b..k - 1 : s[i].op = "catch",
           SuffixFrom(s2, s, k), NEW n2 \in Goals(s2)
    PROVE  \E n \in Goals(s) : n # 1
  <1> DEFINE n == n2 + k - 1
  <1>1. /\ n2 \in 1..Len(s2) /\ s2[n2].op \in Goal
        /\ \A i \in 1..n2 - 1 : s2[i].op # "sync"
    BY DEF Goals
  <1>2. /\ Len(s2) = Len(s) - k + 1
        /\ \A i \in 1..Len(s2) : s2[i] = s[i + k - 1]
    BY DEF SuffixFrom
  <1>3. n \in 1..Len(s) /\ n # 1 /\ s[n].op \in Goal /\ b < n
    BY <1>1, <1>2
  <1>4. ASSUME NEW i \in 1..n - 1, s[i].op = "sync"
        PROVE  FALSE
    <2>1. CASE i < b
      <3>1. i \in 1..Len(s) /\ b \in 1..Len(s)
        BY <1>3
      <3>2. s[b].op \in Neutral \cup {"sync"}
        BY <1>3, <1>4, <2>1, <3>1 DEF Orderly, Source
      <3>3. s[b].op = "catch"
        OBVIOUS
      <3> QED
        BY <3>2, <3>3 DEF Neutral, Goal
    <2>2. CASE i \in b..k - 1
      BY <1>4, <2>2
    <2>3. CASE i >= k
      <3>1. /\ i - k + 1 \in 1..n2 - 1 /\ i - k + 1 \in 1..Len(s2)
            /\ (i - k + 1) + k - 1 = i
        <4>1. i \in Nat /\ i < n2 + k - 1 /\ n2 \in Nat /\ n2 <= Len(s2)
          BY <1>1, <1>3
        <4> HIDE DEF n
        <4> QED
          BY <2>3, <4>1
      <3> HIDE DEF n
      <3>2. s2[i - k + 1] = s[i]
        BY <1>2, <3>1
      <3> QED
        BY <1>1, <1>4, <3>1, <3>2
    <2> QED
      BY <1>3, <2>1, <2>2, <2>3
  <1> HIDE DEF n
  <1>5. n \in Goals(s)
    BY <1>3, <1>4 DEF Goals
  <1> QED
    BY <1>3, <1>5

\* Every call other than sync() keeps SyncInv for the ends within reach.
LEMMA SyncGoesOn ==
    ASSUME DInv, NEW t \in Thread, todo[t] # <<>>, Do(t, Head(todo[t])),
           Head(todo[t]).op # "sync", Orderly(todo[t]),
           \A n \in Goals(todo[t]) : SyncInv(todo[t], n),
           NEW s2, s2 = todo'[t], NEW n2 \in Goals(s2)
    PROVE  SyncInv(s2, n2)'
  <1>1. PICK s : s = todo[t]
    OBVIOUS
  <1>2. /\ IInv /\ KernelTypeOK /\ ThreadsOK /\ real \in SysStates
        /\ s \in Seq(Calls) /\ s # <<>>
    BY <1>1 DEF DInv, ThreadsOK
  <1>3. /\ Rest(t) \in Seq(Calls) /\ s[1] \in Calls /\ s[1].op \notin {"catch", "sync"}
        /\ SuffixFrom(Rest(t), s, 2) /\ Do(t, s[1])
    BY <1>1, <1>2, RestType DEF ThreadsOK
  <1>4. \A n \in Goals(s) : SyncInv(s, n)
    BY <1>1
  <1>5. ASSUME NEW new \in Seq(Calls), Continue(t, new \o Rest(t)),
               \A i \in 1..Len(new) : new[i].op \notin Goal
        PROVE  \E n \in Goals(s) : n # 1 /\ SyncInv(s, n) /\ Moved(s, n, new, s2, n2)
    <2>1. s2 = Resumed(new \o Rest(t))
      BY <1>2, <1>5 DEF Continue, ThreadsOK
    <2>2. PICK n \in 2..Len(s) :
             /\ s[n].op \in Goal
             /\ \A i \in 2..n - 1 : s[i].op # "sync"
             /\ Moved(s, n, new, s2, n2)
      BY <1>2, <1>3, <1>5, <2>1, ReplacedGoals
    <2>3. n \in Goals(s)
      BY <1>3, <2>2 DEF Goals
    <2> QED
      BY <1>4, <2>2, <2>3
  <1>6. ASSUME Continue(t, Rest(t))
        PROVE  \E n \in Goals(s) : n # 1 /\ SyncInv(s, n) /\ Moved(s, n, <<>>, s2, n2)
    <2>1. <<>> \o Rest(t) = Rest(t) /\ <<>> \in Seq(Calls)
      BY <1>3
    <2>2. \A i \in 1..Len(<<>>) : <<>>[i].op \notin Goal
      OBVIOUS
    <2> QED
      BY <1>5, <1>6, <2>1, <2>2, Zenon
  <1>7. ASSUME NEW x \in Calls, Continue(t, <<x>> \o Rest(t)), x.op \notin Goal
        PROVE  \E n \in Goals(s) : n # 1 /\ SyncInv(s, n) /\ Moved(s, n, <<x>>, s2, n2)
    <2>1. <<x>> \in Seq(Calls) /\ \A i \in 1..Len(<<x>>) : <<x>>[i].op \notin Goal
      BY <1>7
    <2> QED
      BY <1>5, <1>7, <2>1
  <1>8. ASSUME NEW n \in Goals(s), n # 1
        PROVE  Sound(s[1]) \/ SoundNow(s[1])
    BY <1>4, <1>8 DEF SyncInv
  <1>9. ASSUME Raise(t)
        PROVE  Sound(s[1]) \/ SoundNow(s[1])
    <2>1. ThreadsOK' /\ s2 # <<>>
      BY <1>1, <1>2, <1>9, RaiseForm DEF Goals
    <2>2. PICK b \in 2..Len(s), k \in 2..Len(s) + 1 :
             /\ b < k
             /\ \A i \in b..k - 1 : s[i].op = "catch"
             /\ SuffixFrom(s2, s, k)
      BY <1>1, <1>2, <1>9, <2>1, RaiseForm
    <2>3. s2 \in Seq(Calls)
      BY <2>1 DEF ThreadsOK
    <2>4. \E n \in Goals(s) : n # 1
      BY <1>1, <1>2, <1>3, <2>2, <2>3, RaiseGoals
    <2> QED
      BY <1>8, <2>4
  <1>10. ASSUME NEW v \in Enabled(peers)
         PROVE  /\ v \in Known(peers) /\ v \in Vk /\ peers[v] # NoPeer
                /\ peers[v].enabled /\ peers[v] \in Peer
    BY <1>2, KnownOK DEF Enabled, Known, PeerOK
  <1>11. UNCHANGED evars => peers' = peers
    BY DEF evars
  <1>12. CASE s[1].op = "sync_peer" /\ DoSyncPeer(t, s[1].vk)
    <2> DEFINE v == s[1].vk
    <2>1. v \in Vk
      BY <1>3, <1>12, CallFields
    <2>2. peers' = peers /\ UNCHANGED kvars
      BY <1>11, <1>12 DEF DoSyncPeer
    <2>3. Sound(s[1]) \/ SoundNow(s[1]) => v \in Known(peers)
      BY <1>12 DEF Sound, SoundNow, Neutral, Goal
    <2>4. s[1] # Call("remove_unknown") /\ s[1] # Call("list_routes")
      BY <1>12, CallNames
    <2>5. \A u : s[1] # WithPeer("sync_routes", peers[u])
      BY <1>12, CallNames
    <2>6. \A u : s[1] = SyncPeer(u) => u = v
      BY CallNames
    <2>7. CASE peers[v] = NoPeer /\ Raise(t)
      BY <1>9, <2>3, <2>7 DEF Known
    <2>8. CASE ~peers[v].enabled /\ Continue(t, <<Call("remove_unknown")>> \o Rest(t))
      <3>1. /\ Call("remove_unknown") \in Calls
            /\ Call("remove_unknown").op = "remove_unknown"
            /\ Sound(Call("remove_unknown"))
        BY CallTypes, CallNames DEF PlainOps, Sound
      <3>2. PICK n \in Goals(s) :
               SyncInv(s, n) /\ Moved(s, n, <<Call("remove_unknown")>>, s2, n2)
        BY <1>7, <2>8, <3>1 DEF Goal
      <3>3. v \notin Enabled(peers)
        BY <2>8 DEF Enabled
      <3> DEFINE new == <<Call("remove_unknown")>>
      <3>4. /\ new # <<>> /\ new[1] = Call("remove_unknown")
            /\ Later(new, Len(new) + 1) = {}
        BY ShortSeqs
      <3> HIDE DEF new, v
      <3>5. /\ Moved(s, n, new, s2, n2)
            /\ s[1].op = "sync_peer"
        BY <1>12, <3>2 DEF new
      <3> QED
        BY <2>2, <2>4, <2>5, <2>6, <3>1, <3>2, <3>3, <3>4, <3>5, ReplacedKeeps
    <2>9. CASE /\ peers[v] # NoPeer /\ peers[v].enabled
               /\ Continue(t, <<WithPeer("apply_peerconfig", peers[v]),
                                WithPeer("sync_routes", peers[v])>>
                              \o (IF peers[v].use_as_gateway
                                  THEN <<Call("sync_gw_routes")>> ELSE <<>>)
                              \o Rest(t))
      <3> DEFINE a == WithPeer("apply_peerconfig", peers[v])
                 b == WithPeer("sync_routes", peers[v])
                 g == Call("sync_gw_routes")
                 new == IF peers[v].use_as_gateway THEN <<a, b, g>> ELSE <<a, b>>
      <3>1. v \in Enabled(peers) /\ peers[v] \in Peer
        BY <1>2, <2>1, <2>9, KnownOK DEF Enabled, Known, PeerOK
      <3>2. /\ a \in Calls /\ b \in Calls /\ g \in Calls
            /\ a.op = "apply_peerconfig" /\ b.op = "sync_routes" /\ g.op = "sync_gw_routes"
        BY <3>1, CallTypes, CallNames DEF PlainOps
      <3>3. Sound(a) /\ Sound(b) /\ (peers[v].use_as_gateway => Sound(g))
        BY <3>1, CallNames DEF Sound, EnabledGateways, FlaggedAsGateway, Enabled
      <3>4. Continue(t, new \o Rest(t))
        <4>1. CASE peers[v].use_as_gateway
          <5>1. Continue(t, <<a, b>> \o <<g>> \o Rest(t))
            BY <2>9, <4>1
          <5>2. <<a, b>> \o <<g>> = <<a, b, g>>
            BY ConcatPair
          <5> QED
            BY <4>1, <5>1, <5>2
        <4>2. CASE ~peers[v].use_as_gateway
          <5>1. Continue(t, <<a, b>> \o <<>> \o Rest(t))
            BY <2>9, <4>2
          <5>2. <<a, b>> \o <<>> = <<a, b>>
            BY <3>2
          <5> QED
            BY <4>2, <5>1, <5>2
        <4> QED
          BY <4>1, <4>2
      <3> HIDE DEF a, b, g, v
      <3>5. /\ new \in Seq(Calls) /\ new # <<>> /\ new[1] = a
            /\ \A i \in 1..Len(new) : new[i].op \notin Goal
        <4>1. <<a, b, g>> \in Seq(Calls) /\ <<a, b>> \in Seq(Calls)
          BY <3>2
        <4>2. /\ \A i \in 1..Len(<<a, b, g>>) : <<a, b, g>>[i].op \notin Goal
              /\ \A i \in 1..Len(<<a, b>>) : <<a, b>>[i].op \notin Goal
          BY <3>2 DEF Goal
        <4> QED
          BY <4>1, <4>2
      <3>6. PICK n \in Goals(s) : SyncInv(s, n) /\ Moved(s, n, new, s2, n2)
        BY <1>5, <3>4, <3>5
      <3>7. /\ a \in Elems(new) /\ b \in Elems(new)
            /\ peers[v].use_as_gateway => g \in Elems(new)
            /\ \A x \in Later(new, Len(new) + 1) : Sound(x)
        <4>1. CASE peers[v].use_as_gateway
          BY <3>3, <4>1, ShortSeqs
        <4>2. CASE ~peers[v].use_as_gateway
          BY <3>3, <4>2, ShortSeqs
        <4> QED
          BY <4>1, <4>2
      <3> HIDE DEF new
      <3>8. \A u \in Enabled(peers) : s[1] = SyncPeer(u) =>
               /\ WithPeer("apply_peerconfig", peers[u]) \in Elems(new)
               /\ WithPeer("sync_routes", peers[u]) \in Elems(new)
               /\ peers[u].use_as_gateway => Call("sync_gw_routes") \in Elems(new)
        BY <2>6, <3>7 DEF a, b, g
      <3>9. new[1].op # "catch" /\ Sound(new[1]) /\ s[1].op = "sync_peer"
        BY <1>12, <3>2, <3>3, <3>5
      <3> QED
        BY <2>2, <2>4, <2>5, <3>5, <3>6, <3>7, <3>8, <3>9, ReplacedKeeps
    <2> QED
      BY <1>12, <2>7, <2>8, <2>9 DEF DoSyncPeer
  <1>13. CASE s[1].op = "apply_peerconfig" /\ DoApplyPeerConfig(t, s[1].peer)
    BY <1>6, <1>11, <1>13, ApplyKeeps DEF DoApplyPeerConfig
  <1>14. CASE s[1].op = "sync_routes" /\ DoSyncRoutes(t, s[1].peer)
    <2> DEFINE x == [op |-> "add_routes", dests |-> Routes(s[1].peer) \ routes]
               new == <<x>>
    <2>1. x \in Calls
      <3>1. Routes(s[1].peer) \ routes \in SUBSET Addr
        BY <1>3, <1>14, CallFields, PeerFields
      <3> QED
        BY <3>1, CallTypes
    <2>2. peers' = peers /\ UNCHANGED kvars /\ Continue(t, <<x>> \o Rest(t))
      BY <1>11, <1>14 DEF DoSyncRoutes
    <2>3. x.op = "add_routes" /\ x.dests = Routes(s[1].peer) \ routes
      OBVIOUS
    <2> HIDE DEF x
    <2>4. PICK n \in Goals(s) : n # 1 /\ SyncInv(s, n) /\ Moved(s, n, new, s2, n2)
      BY <1>7, <2>1, <2>2, <2>3 DEF Goal
    <2>5. \E u \in Enabled(peers) : s[1].peer = peers[u]
      BY <1>8, <1>14, <2>4 DEF Sound, SoundNow, Neutral, Goal
    <2>6. SoundNow(x)
      BY <2>3, <2>5 DEF SoundNow, Expected
    <2>7. /\ new # <<>> /\ new[1] = x /\ Later(new, Len(new) + 1) = {}
      BY ShortSeqs
    <2> HIDE DEF new
    <2>8. \A u : s[1] = WithPeer("sync_routes", peers[u]) =>
             Routes(peers[u]) \subseteq routes \cup x.dests
      BY <2>3, CallNames
    <2>9. /\ s[1] # Call("remove_unknown") /\ s[1] # Call("list_routes")
          /\ \A u : s[1] # SyncPeer(u)
      BY <1>14, CallNames
    <2> QED
      BY <1>14, <2>2, <2>3, <2>4, <2>6, <2>7, <2>8, <2>9, ReplacedKeeps
  <1>15. CASE s[1].op = "add_routes" /\ DoAddRoutes(t, s[1].dests)
    <2>1. CASE AddRoutes(s[1].dests) /\ Continue(t, Rest(t))
      BY <1>6, <1>11, <1>15, <2>1, RoutesKeep DEF DoAddRoutes
    <2>2. CASE AddRoutesFails(s[1].dests) /\ Raise(t)
      BY <1>9, <1>15, <2>2 DEF AddRoutesFails, Sound, SoundNow, Neutral, Goal
    <2> QED
      BY <1>15, <2>1, <2>2 DEF DoAddRoutes
  <1>16. CASE s[1].op = "sync_gw_routes" /\ DoSyncGwRoutes(t)
    BY <1>6, <1>11, <1>16, RoutesKeep DEF DoSyncGwRoutes
  <1>17. CASE s[1].op = "remove_wg_peer" /\ DoRemoveWgPeer(t, s[1].pk)
    BY <1>6, <1>8, <1>17 DEF DoRemoveWgPeer, Sound, SoundNow, Neutral, Goal
  <1>18. CASE s[1].op = "remove_routes" /\ DoRemoveRoutes(t, s[1].dests)
    <2> DEFINE x == [op |-> "del_routes", dests |-> s[1].dests \cap routes, gw |-> FALSE]
    <2>1. x \in Calls /\ x.op \notin Goal
      <3>1. s[1].dests \cap routes \in SUBSET Addr
        BY <1>2 DEF KernelTypeOK
      <3> QED
        BY <3>1, CallTypes DEF Goal
    <2>2. Continue(t, <<x>> \o Rest(t))
      BY <1>18 DEF DoRemoveRoutes
    <2> HIDE DEF x
    <2> QED
      BY <1>7, <1>8, <1>18, <2>1, <2>2 DEF Sound, SoundNow, Neutral, Goal
  <1>19. CASE s[1].op = "remove_unknown" /\ DoRemoveUnknown(t)
    <2> DEFINE x == [op |-> "remove_unknown_peers",
                     pks |-> {peers[v].desc.pk : v \in Enabled(peers)}]
               y == Call("list_routes")
               new == <<x, y>>
    <2>1. {peers[v].desc.pk : v \in Enabled(peers)} \in SUBSET Pk
      BY <1>10, PeerFields
    <2>2. x \in Calls /\ y \in Calls
      BY <2>1, CallTypes DEF PlainOps
    <2>3. x.op = "remove_unknown_peers" /\ y.op = "list_routes" /\ Sound(x) /\ Sound(y)
      BY CallNames DEF Sound, EnabledPks
    <2>4. peers' = peers /\ UNCHANGED kvars /\ Continue(t, new \o Rest(t))
      BY <1>11, <1>19 DEF DoRemoveUnknown
    <2>5. y = Call("list_routes")
      OBVIOUS
    <2> HIDE DEF x, y
    <2>6. /\ new \in Seq(Calls) /\ new # <<>> /\ new[1] = x
          /\ \A i \in 1..Len(new) : new[i].op \notin Goal
      BY <2>2, <2>3 DEF Goal
    <2>7. Elems(new) = {x, y} /\ Later(new, Len(new) + 1) = {y}
      BY ShortSeqs
    <2> HIDE DEF new
    <2>8. PICK n \in Goals(s) : SyncInv(s, n) /\ Moved(s, n, new, s2, n2)
      BY <1>5, <2>4, <2>6
    <2>9. /\ s[1] # Call("list_routes") /\ \A u : s[1] # SyncPeer(u)
          /\ \A u : s[1] # WithPeer("sync_routes", peers[u])
      BY <1>19, CallNames
    <2> QED
      BY <1>19, <2>3, <2>4, <2>5, <2>6, <2>7, <2>8, <2>9, ReplacedKeeps
  <1>20. CASE s[1].op = "remove_unknown_peers" /\ DoRemoveUnknownPeers(t, s[1].pks)
    BY <1>6, <1>11, <1>20, RemoveUnknownPeersKeeps DEF DoRemoveUnknownPeers
  <1>21. CASE s[1].op = "list_routes" /\ DoListRoutes(t)
    <2> DEFINE ds == routes \ Expected(peers)
               x == [op |-> "del_routes", dests |-> ds, gw |-> gw_routes]
               new == <<x>>
    <2>1. ds \in SUBSET Addr /\ gw_routes \in BOOLEAN
      BY <1>2 DEF KernelTypeOK
    <2>2. x \in Calls
      <3> HIDE DEF ds
      <3> QED
        BY <2>1, CallTypes
    <2>3. x.op = "del_routes" /\ SoundNow(x)
      BY DEF SoundNow
    <2>4. peers' = peers /\ UNCHANGED kvars /\ Continue(t, new \o Rest(t))
      BY <1>11, <1>21 DEF DoListRoutes, Expected
    <2> HIDE DEF x
    <2>5. PICK n \in Goals(s) : SyncInv(s, n) /\ Moved(s, n, new, s2, n2)
      BY <1>7, <2>2, <2>3, <2>4 DEF Goal
    <2>6. /\ new # <<>> /\ new[1] = x /\ Later(new, Len(new) + 1) = {}
      BY ShortSeqs
    <2> HIDE DEF new
    <2>7. /\ s[1] # Call("remove_unknown") /\ \A u : s[1] # SyncPeer(u)
          /\ \A u : s[1] # WithPeer("sync_routes", peers[u])
      BY <1>21, CallNames
    <2> QED
      BY <1>21, <2>3, <2>4, <2>5, <2>6, <2>7, ReplacedKeeps
  <1>22. CASE s[1].op = "del_routes" /\ DoDelRoutes(t, s[1].dests, s[1].gw)
    <2> DEFINE ng == s[1].gw /\ EnabledGateways(peers) = {}
    <2>1. CASE DelRoutes(s[1].dests, ng) /\ Continue(t, Rest(t))
      BY <1>6, <1>11, <1>22, <2>1, RoutesKeep DEF DoDelRoutes
    <2>2. CASE DelRoutesFails(s[1].dests, ng) /\ Raise(t)
      <3>1. s[1].dests = routes \ Expected(peers) /\ s[1].gw = gw_routes
        BY <1>9, <1>22, <2>2 DEF Sound, SoundNow, Neutral, Goal
      <3> QED
        BY <2>2, <3>1 DEF DelRoutesFails
    <2> QED
      BY <1>22, <2>1, <2>2 DEF DoDelRoutes
  <1>23. CASE s[1].op = "get_new_system_state" /\ DoGetNewSystemState(t)
    <2> DEFINE x == [op |-> "adopt", state |-> real]
    <2>1. x \in Calls /\ x.op \notin Goal
      BY <1>2, CallTypes DEF Goal
    <2>2. Continue(t, Rest(t)) \/ Continue(t, <<x>> \o Rest(t))
      BY <1>23 DEF DoGetNewSystemState
    <2> HIDE DEF x
    <2> QED
      BY <1>6, <1>7, <1>8, <1>23, <2>1, <2>2 DEF Sound, SoundNow, Neutral, Goal
  <1>24. CASE s[1].op = "adopt" /\ DoAdopt(t, s[1].state)
    <2>1. CASE Raise(t)
      BY <1>9, <1>24, <2>1 DEF Sound, SoundNow, Neutral, Goal
    <2>2. ASSUME NEW calls, calls \in Triggers,
                 Continue(t, calls \o <<Call("sync"), Call("instruct_zeroconf")>>
                               \o Rest(t))
          PROVE  FALSE
      <3>1. /\ IInv'
            /\ result'.event = "USER_PEER_ADDR_DEL" =>
                  result'.sync \subseteq Known(peers)
        BY <1>2, <1>3, <1>24, CallFields, EventOK DEF DoAdopt
      <3>2. calls \in Seq(TriggerCalls)
        BY <1>2, <2>2, <3>1, TriggersType
      <3>3. /\ TriggerCalls \subseteq Calls
            /\ Call("sync") \in Calls /\ Call("instruct_zeroconf") \in Calls
            /\ \A c \in TriggerCalls : c.op \notin Goal
        BY CallTypes, CallNames DEF TriggerCalls, WorkCalls, PlainOps, Goal
      <3>4. calls \in Seq(Calls) /\ \A i \in 1..Len(calls) : calls[i].op \notin Goal
        BY <3>2, <3>3
      <3> DEFINE w == calls \o <<Call("sync"), Call("instruct_zeroconf")>> \o Rest(t)
                 m == Len(calls) + 1
      <3>5. w \in Seq(Calls)
        BY <1>3, <3>3, <3>4
      <3>6. m \in 1..Len(w) /\ w[m] = Call("sync")
            /\ \A i \in 1..m - 1 : w[i] = calls[i]
        BY <1>3, <3>3, <3>4
      <3>7. s2 = Resumed(w)
        BY <1>2, <2>2 DEF Continue, ThreadsOK
      <3> HIDE DEF w
      <3>8. \A i \in 1..m - 1 : w[i].op \notin Goal
        BY <3>4, <3>6
      <3> HIDE DEF m
      <3> QED
        BY <3>5, <3>6, <3>7, <3>8, CallNames, SyncCovers
    <2> QED
      BY <1>24, <2>1, <2>2 DEF DoAdopt
  <1>25. CASE s[1].op \in Neutral /\ (DoStartMonitor(t) \/ DoNothing(t))
    <2>1. peers' = peers /\ UNCHANGED kvars
      BY <1>11, <1>25 DEF DoStartMonitor, DoNothing
    <2>2. s2 = Resumed(<<>> \o Rest(t)) /\ <<>> \in Seq(Calls)
      BY <1>2, <1>3, <1>25 DEF DoStartMonitor, DoNothing, Continue, ThreadsOK
    <2>3. PICK n \in 2..Len(s) :
             /\ s[n].op \in Goal
             /\ \A i \in 2..n - 1 : s[i].op # "sync"
             /\ Moved(s, n, <<>>, s2, n2)
      <3>1. \A i \in 1..Len(<<>>) : <<>>[i].op \notin Goal
        OBVIOUS
      <3> QED
        BY <1>2, <1>3, <2>2, <3>1, ReplacedGoals, Zenon
    <2>4. n \in Goals(s)
      BY <1>3, <2>3 DEF Goals
    <2>5. SyncInv(s, n)
      BY <1>4, <2>4
    <2>6. /\ s[1] # Call("remove_unknown") /\ s[1] # Call("list_routes")
          /\ \A u : s[1] # SyncPeer(u)
          /\ \A u : s[1] # WithPeer("sync_routes", peers[u])
          /\ s[1].op \notin {"apply_peerconfig", "sync_gw_routes", "add_routes",
                             "remove_unknown_peers", "del_routes"}
      BY <1>25, CallNames DEF Neutral, Goal
    <2> QED
      BY <2>1, <2>3, <2>5, <2>6, ShortSeqs, ReplacedKeeps
  <1> QED
    BY <1>3, <1>12, <1>13, <1>14, <1>15, <1>16, <1>17, <1>18, <1>19, <1>20, <1>21,
       <1>22, <1>23, <1>24, <1>25, DoCases DEF Neutral, Goal

\* sync() itself establishes SyncInv: what is wrong is mended by the calls it
\* makes, and behind these nothing else follows.
LEMMA SyncStarts ==
    ASSUME DInv, NEW t \in Thread, todo[t] # <<>>, Do(t, Head(todo[t])),
           Head(todo[t]).op = "sync", Orderly(todo[t]),
           NEW s2, s2 = todo'[t], NEW n2 \in Goals(s2)
    PROVE  SyncInv(s2, n2)'
  <1>1. PICK s : s = todo[t]
    OBVIOUS
  <1>2. /\ IInv /\ KernelTypeOK /\ ThreadsOK /\ peers \in Peers
        /\ s \in Seq(Calls) /\ s # <<>> /\ Orderly(s)
    BY <1>1 DEF DInv, ThreadsOK, IInv, TableOK
  <1>3. /\ Rest(t) \in Seq(Calls) /\ s[1] \in Calls /\ s[1].op = "sync"
        /\ SuffixFrom(Rest(t), s, 2) /\ Do(t, s[1])
    BY <1>1, <1>2, RestType
  <1>4. DoSync(t)
    BY <1>3, DoCases DEF Goal
  <1>5. PICK order \in SetToSeqs(Known(peers)) :
           Continue(t, SyncCalls(order) \o Rest(t))
    BY <1>4 DEF DoSync, SyncCalls
  <1>6. /\ wgi' = wg_peers /\ UNCHANGED kernel /\ peers' = peers
    BY <1>4 DEF DoSync, WgQuery, evars
  <1> DEFINE S == {SyncPeer(v) : v \in Known(peers)}
                     \cup {Catch, Call("remove_unknown")}
  <1>7. PICK new : new = SyncCalls(order)
    OBVIOUS
  <1>8. /\ new \in Seq(S)
        /\ \A v \in Known(peers) : SyncPeer(v) \in Elems(new)
        /\ Call("remove_unknown") \in Elems(new)
    BY <1>2, <1>7, SyncCallsType
  <1>9. ASSUME NEW c \in S
        PROVE  c \in Calls /\ c.op \notin Goal /\ Sound(c)
    <2>1. CASE c \in {Catch, Call("remove_unknown")}
      BY <2>1, CallTypes, CallNames DEF Catch, PlainOps, Goal, Sound
    <2>2. CASE c \in {SyncPeer(v) : v \in Known(peers)}
      BY <2>2, CallTypes, CallNames DEF Goal, Sound, Known
    <2> QED
      BY <2>1, <2>2
  <1> HIDE DEF S
  <1>10. \A i \in 1..Len(new) : new[i] \in S
    BY <1>8
  <1>11. new \in Seq(Calls) /\ \A i \in 1..Len(new) : new[i].op \notin Goal
    <2>1. S \subseteq Calls
      BY <1>9
    <2> QED
      BY <1>8, <1>9, <1>10, <2>1
  <1>12. s2 = Resumed(new \o Rest(t))
    BY <1>2, <1>5, <1>7 DEF Continue, ThreadsOK
  <1>13. PICK n \in 2..Len(s) :
            /\ s[n].op \in Goal
            /\ \A i \in 2..n - 1 : s[i].op # "sync"
            /\ Moved(s, n, new, s2, n2)
    BY <1>2, <1>3, <1>11, <1>12, ReplacedGoals
  <1>14. ASSUME NEW c \in Elems(new) \cup Later(s, n)
         PROVE  Sound(c)
    <2>1. CASE c \in Elems(new)
      BY <1>9, <1>10, <2>1 DEF Elems
    <2>2. CASE c \in Later(s, n)
      <3>1. PICK j \in 2..n - 1 : c = s[j]
        BY <2>2 DEF Later
      <3>2. 1 \in 1..Len(s) /\ j \in 1..Len(s) /\ n \in 1..Len(s) /\ 1 < j /\ j < n
        BY <1>2
      <3>3. c.op \in Neutral \cup {"sync"}
        BY <1>2, <1>3, <1>13, <3>1, <3>2 DEF Orderly, Source
      <3>4. c.op # "sync"
        BY <1>13, <3>1
      <3> QED
        BY <3>3, <3>4 DEF Sound
    <2> QED
      BY <2>1, <2>2
  <1>15. Later(new, Len(new) + 1) \subseteq Elems(new)
    <2>1. Len(new) \in Nat
      BY <1>11
    <2>2. 2..(Len(new) + 1) - 1 \subseteq 1..Len(new)
      BY <2>1
    <2> QED
      BY <2>2 DEF Later, Elems
  <1>16. ASSUME NEW x PROVE Sound(x)' <=> Sound(x)
    BY <1>6 DEF Sound
  <1>17. /\ \A c \in Later(s2, n2) : Sound(c)'
         /\ n2 # 1 => Sound(s2[1])'
    BY <1>13, <1>14, <1>15, <1>16 DEF Moved
  <1>18. /\ \A v \in Known(peers) : SyncPeer(v) \in Before(s2, n2)
         /\ Call("remove_unknown") \in Before(s2, n2)
    BY <1>8, <1>13, CallNames DEF Moved
  <1>19. (wg_peers \ wgi)' = {}
    BY <1>6 DEF kernel
  <1>20. Enabled(peers)' = Enabled(peers) /\ Enabled(peers) \subseteq Known(peers)
    BY <1>6 DEF Enabled, Known
  <1>21. ASSUME NEW v \in Enabled(peers)
         PROVE  /\ KeyComes(v, Before(s2, n2))'
                /\ RoutesCome(v, Before(s2, n2), s2[1])'
                /\ GwComes(v, Before(s2, n2))'
    BY <1>18, <1>20 DEF KeyComes, RoutesCome, GwComes
  <1>22. /\ PeersBecomeClean(Before(s2, n2))'
         /\ RoutesBecomeClean(Before(s2, n2), s2[1])'
    BY <1>18 DEF PeersBecomeClean, RoutesBecomeClean
  <1> QED
    BY <1>17, <1>19, <1>20, <1>21, <1>22 DEF SyncInv

\* A call leaves the waiting calls of its thread in order, and those of the
\* other thread alone.
LEMMA OrderlyStep ==
    ASSUME DInv, NEW t \in Thread, todo[t] # <<>>, Do(t, Head(todo[t])),
           Orderly(todo[t])
    PROVE  Orderly(todo'[t]) /\ \A u \in Thread \ {t} : todo'[u] = todo[u]
  <1> DEFINE Kept == Orderly(todo'[t]) /\ \A u \in Thread \ {t} : todo'[u] = todo[u]
  <1> HIDE DEF Kept
  <1> SUFFICES Kept
    BY DEF Kept
  <1>1. PICK s : s = todo[t]
    OBVIOUS
  <1>2. /\ IInv /\ KernelTypeOK /\ ThreadsOK /\ peers \in Peers
        /\ real \in SysStates
        /\ s \in Seq(Calls) /\ s # <<>> /\ Orderly(s)
    BY <1>1 DEF DInv, ThreadsOK, IInv, TableOK
  <1>3. /\ Rest(t) \in Seq(Calls) /\ s[1] \in Calls /\ s[1].op # "catch"
        /\ SuffixFrom(Rest(t), s, 2) /\ Do(t, s[1])
    BY <1>1, <1>2, RestType DEF ThreadsOK
  <1>4. ASSUME NEW w \in Seq(Calls), Orderly(w), todo' = [todo EXCEPT ![t] = Resumed(w)]
        PROVE  Kept
    <2>1. PICK k \in 1..Len(w) + 1 : SuffixFrom(Resumed(w), w, k)
      BY ResumedSuffix
    <2>2. Resumed(w) \in Seq(Calls)
      BY ResumedSuffix
    <2>3. Orderly(Resumed(w))
      BY <1>4, <2>1, <2>2, OrderlySuffix
    <2>4. todo'[t] = Resumed(w) /\ \A u \in Thread \ {t} : todo'[u] = todo[u]
      BY <1>2, <1>4 DEF ThreadsOK
    <2> QED
      BY <2>3, <2>4 DEF Kept
  <1>5. ASSUME todo' = [todo EXCEPT ![t] = Resumed(Rest(t))]
        PROVE  Kept
    BY <1>2, <1>3, <1>4, <1>5, OrderlySuffix
  <1>6. Continue(t, Rest(t)) => Kept
    BY <1>5 DEF Continue
  <1>7. ASSUME NEW new \in Seq(Calls), Continue(t, new \o Rest(t)),
               \A a \in 1..Len(new) : new[a].op \in Source =>
                  /\ s[1].op \in Source
                  /\ \A b \in a + 1..Len(new) : new[b].op \in Neutral \cup {"sync"}
        PROVE  Kept
    <2>1. Orderly(new \o Rest(t))
      BY <1>2, <1>3, <1>7, OrderlyReplaced
    <2>2. new \o Rest(t) \in Seq(Calls)
      BY <1>3
    <2> QED
      BY <1>4, <1>7, <2>1, <2>2 DEF Continue
  <1>8. ASSUME NEW new \in Seq(Calls), Continue(t, new \o Rest(t)),
               \A c \in Elems(new) : c.op \notin Source
        PROVE  Kept
    <2>1. \A a \in 1..Len(new) : new[a].op \notin Source
      BY <1>8 DEF Elems
    <2> QED
      BY <1>7, <1>8, <2>1
  <1>9. ASSUME NEW x \in Calls, Continue(t, <<x>> \o Rest(t)), x.op \notin Source
        PROVE  Kept
    <2>1. <<x>> \in Seq(Calls) /\ Elems(<<x>>) = {x}
      BY <1>9, ShortSeqs
    <2> QED
      BY <1>8, <1>9, <2>1
  <1>10. ASSUME Raise(t)
         PROVE  Kept
    <2>1. /\ ThreadsOK'
          /\ \A u \in Thread \ {t} : todo'[u] = todo[u]
          /\ \/ todo'[t] = <<>>
             \/ \E k \in 2..Len(todo[t]) + 1 : SuffixFrom(todo'[t], todo[t], k)
      BY <1>2, <1>10, RaiseForm
    <2>2. CASE todo'[t] = <<>>
      <3>1. Orderly(<<>>)
        BY DEF Orderly
      <3> QED
        BY <2>1, <2>2, <3>1 DEF Kept
    <2>3. CASE \E k \in 2..Len(todo[t]) + 1 : SuffixFrom(todo'[t], todo[t], k)
      <3>1. todo'[t] \in Seq(Calls) /\ todo[t] \in Seq(Calls)
        BY <1>1, <1>2, <2>1 DEF ThreadsOK
      <3>2. Orderly(todo'[t])
        BY <2>3, <3>1, OrderlySuffix
      <3> QED
        BY <2>1, <3>2 DEF Kept
    <2> QED
      BY <2>1, <2>2, <2>3
  <1>11. CASE s[1].op = "sync_peer" /\ DoSyncPeer(t, s[1].vk)
    <2> DEFINE q == peers[s[1].vk]
    <2>1. CASE Continue(t, <<Call("remove_unknown")>> \o Rest(t))
      BY <1>9, <2>1, CallTypes, CallNames DEF PlainOps, Source
    <2>2. CASE /\ q # NoPeer
               /\ Continue(t, <<WithPeer("apply_peerconfig", q),
                                WithPeer("sync_routes", q)>>
                              \o (IF q.use_as_gateway
                                  THEN <<Call("sync_gw_routes")>> ELSE <<>>)
                              \o Rest(t))
      <3> DEFINE a == WithPeer("apply_peerconfig", q)
                 b == WithPeer("sync_routes", q)
                 g == Call("sync_gw_routes")
                 gs == IF q.use_as_gateway THEN <<g>> ELSE <<>>
      <3>1. q \in Peer
        BY <1>2, <1>3, <1>11, <2>2, CallFields, KnownOK DEF Known, PeerOK
      <3>2. /\ a \in Calls /\ b \in Calls /\ g \in Calls
            /\ \A c \in {a, b, g} : c.op \notin Source
        BY <3>1, CallTypes, CallNames DEF PlainOps, Source
      <3>3. Continue(t, <<a, b>> \o gs \o Rest(t))
        BY <2>2
      <3> HIDE DEF a, b, g, q
      <3>4. gs \in Seq(Calls) /\ <<a, b>> \in Seq(Calls)
        BY <3>2
      <3>5. Elems(gs) \subseteq {g} /\ Elems(<<a, b>>) = {a, b}
        BY ShortSeqs
      <3> HIDE DEF gs
      <3>6. <<a, b>> \o gs \in Seq(Calls)
        BY <3>4
      <3>7. Elems(<<a, b>> \o gs) = Elems(<<a, b>>) \cup Elems(gs)
        BY <3>4, ElemsConcat, ZenonT(40)
      <3> QED
        BY <1>8, <3>2, <3>3, <3>5, <3>6, <3>7
    <2> QED
      BY <1>10, <1>11, <2>1, <2>2 DEF DoSyncPeer
  <1>12. CASE s[1].op = "sync_routes" /\ DoSyncRoutes(t, s[1].peer)
    <2>1. Routes(s[1].peer) \ routes \in SUBSET Addr
      BY <1>3, <1>12, CallFields, PeerFields
    <2>2. PICK x : x = [op |-> "add_routes", dests |-> Routes(s[1].peer) \ routes]
      OBVIOUS
    <2>3. x \in Calls /\ x.op \notin Source
      BY <2>1, <2>2, CallTypes DEF Source
    <2> QED
      BY <1>9, <1>12, <2>2, <2>3 DEF DoSyncRoutes
  <1>13. CASE s[1].op = "remove_routes" /\ DoRemoveRoutes(t, s[1].dests)
    <2>1. s[1].dests \cap routes \in SUBSET Addr
      BY <1>2 DEF KernelTypeOK
    <2>2. PICK x : x = [op |-> "del_routes", dests |-> s[1].dests \cap routes,
                        gw |-> FALSE]
      OBVIOUS
    <2>3. x \in Calls /\ x.op \notin Source
      BY <2>1, <2>2, CallTypes DEF Source
    <2> QED
      BY <1>9, <1>13, <2>2, <2>3 DEF DoRemoveRoutes
  <1>14. CASE s[1].op = "remove_unknown" /\ DoRemoveUnknown(t)
    <2> DEFINE pks == {peers[v].desc.pk : v \in Enabled(peers)}
    <2>1. pks \in SUBSET Pk
      BY <1>2, KnownOK, PeerFields DEF Enabled, PeerOK
    <2>2. PICK x, y : /\ x = [op |-> "remove_unknown_peers", pks |-> pks]
                      /\ y = Call("list_routes")
      OBVIOUS
    <2>3. Continue(t, <<x, y>> \o Rest(t))
      BY <1>14, <2>2 DEF DoRemoveUnknown
    <2> HIDE DEF pks
    <2>4. x \in Calls /\ y \in Calls /\ x.op \notin Source /\ y.op \notin Source
      BY <2>1, <2>2, CallTypes, CallNames DEF PlainOps, Source
    <2>5. <<x, y>> \in Seq(Calls) /\ Elems(<<x, y>>) = {x, y}
      BY <2>4, ShortSeqs
    <2> QED
      BY <1>8, <2>3, <2>4, <2>5
  <1>15. CASE s[1].op = "list_routes" /\ DoListRoutes(t)
    <2> DEFINE ds == routes \ UNION {Routes(peers[v]) : v \in Enabled(peers)}
    <2>1. ds \in SUBSET Addr /\ gw_routes \in BOOLEAN
      BY <1>2 DEF KernelTypeOK
    <2>2. PICK x : x = [op |-> "del_routes", dests |-> ds, gw |-> gw_routes]
      OBVIOUS
    <2>3. Continue(t, <<x>> \o Rest(t))
      BY <1>15, <2>2 DEF DoListRoutes
    <2> HIDE DEF ds
    <2>4. x \in Calls /\ x.op \notin Source
      BY <2>1, <2>2, CallTypes DEF Source
    <2> QED
      BY <1>9, <2>3, <2>4
  <1>16. CASE s[1].op = "sync" /\ DoSync(t)
    <2>1. PICK order \in SetToSeqs(Known(peers)) :
             Continue(t, SyncCalls(order) \o Rest(t))
      BY <1>16 DEF DoSync, SyncCalls
    <2> DEFINE S == {SyncPeer(v) : v \in Known(peers)}
                       \cup {Catch, Call("remove_unknown")}
    <2>2. PICK new : new = SyncCalls(order)
      OBVIOUS
    <2>3. new \in Seq(S)
      BY <1>2, <2>2, SyncCallsType
    <2>4. \A c \in S : c \in Calls /\ c.op \notin Source
      BY CallTypes, CallNames DEF Known, Catch, PlainOps, Source
    <2> HIDE DEF S
    <2>5. S \subseteq Calls /\ Elems(new) \subseteq S
      BY <2>3, <2>4 DEF Elems
    <2>6. new \in Seq(Calls)
      BY <2>3, <2>5
    <2> QED
      BY <1>8, <2>1, <2>2, <2>4, <2>5, <2>6
  <1>17. CASE s[1].op = "get_new_system_state" /\ DoGetNewSystemState(t)
    <2>1. PICK x : x = [op |-> "adopt", state |-> real]
      OBVIOUS
    <2>2. x \in Calls
      BY <1>2, <2>1, CallTypes
    <2>3. Continue(t, Rest(t)) \/ Continue(t, <<x>> \o Rest(t))
      BY <1>17, <2>1 DEF DoGetNewSystemState
    <2>4. /\ <<x>> \in Seq(Calls)
          /\ \A a \in 1..Len(<<x>>) : \A b \in a + 1..Len(<<x>>) : FALSE
      BY <2>2
    <2>5. s[1].op \in Source
      BY <1>17 DEF Source
    <2> QED
      BY <1>6, <1>7, <2>3, <2>4, <2>5
  <1>18. CASE s[1].op = "adopt" /\ DoAdopt(t, s[1].state)
    <2>1. CASE Raise(t)
      BY <1>10, <2>1
    <2>2. ASSUME NEW calls, calls \in Triggers,
                 Continue(t, calls \o <<Call("sync"), Call("instruct_zeroconf")>>
                               \o Rest(t))
          PROVE  Kept
      <3>1. /\ IInv'
            /\ result'.event = "USER_PEER_ADDR_DEL" =>
                  result'.sync \subseteq Known(peers)
        BY <1>2, <1>3, <1>18, CallFields, EventOK DEF DoAdopt
      <3>2. result'.event = "NEW_SYSTEM_STATE"
        BY <1>18 DEF DoAdopt, NewSystemState, Validate, Abort
      <3>3. calls \in Seq(WorkCalls)
        BY <1>2, <2>2, <3>1, <3>2, TriggersType
      <3>4. PICK x, y : x = Call("sync") /\ y = Call("instruct_zeroconf")
        OBVIOUS
      <3>5. /\ x \in Calls /\ y \in Calls
            /\ x.op = "sync" /\ y.op \in Neutral /\ y.op \notin Source
        BY <3>4, CallTypes, CallNames DEF PlainOps, Neutral, Goal, Source
      <3>6. WorkCalls \subseteq Calls /\ \A c \in WorkCalls : c.op \notin Source
        BY DEF WorkCalls, Source
      <3>7. calls \in Seq(Calls) /\ \A i \in 1..Len(calls) : calls[i].op \notin Source
        BY <3>3, <3>6
      <3>8. PICK new : new = calls \o <<x, y>>
        OBVIOUS
      <3>9. /\ new \in Seq(Calls) /\ Len(new) = Len(calls) + 2 /\ Len(calls) \in Nat
            /\ \A i \in 1..Len(calls) : new[i] = calls[i]
            /\ new[Len(calls) + 1] = x /\ new[Len(calls) + 2] = y
        BY <3>5, <3>7, <3>8
      <3>10. ASSUME NEW a \in 1..Len(new), new[a].op \in Source,
                    NEW b \in a + 1..Len(new)
             PROVE  new[b].op \in Neutral
        <4>1. a > Len(calls)
          BY <3>7, <3>9, <3>10
        <4>2. b = Len(calls) + 2
          BY <3>9, <4>1
        <4> QED
          BY <3>5, <3>9, <4>2
      <3>11. s[1].op \in Source
        BY <1>18 DEF Source
      <3>12. Continue(t, new \o Rest(t))
        BY <2>2, <3>4, <3>8
      <3>13. \A a \in 1..Len(new) : new[a].op \in Source =>
                \A b \in a + 1..Len(new) : new[b].op \in Neutral \cup {"sync"}
        BY <3>10
      <3> QED
        BY <1>7, <3>9, <3>11, <3>12, <3>13, Zenon
    <2> QED
      BY <1>18, <2>1, <2>2 DEF DoAdopt
  <1>19. CASE s[1].op = "start_monitor" /\ DoStartMonitor(t)
    BY <1>5, <1>19 DEF DoStartMonitor
  <1>20. CASE Continue(t, Rest(t)) \/ Raise(t)
    BY <1>6, <1>10, <1>20
  <1>21. \/ s[1].op = "sync_peer" /\ DoSyncPeer(t, s[1].vk)
         \/ s[1].op = "sync_routes" /\ DoSyncRoutes(t, s[1].peer)
         \/ s[1].op = "remove_routes" /\ DoRemoveRoutes(t, s[1].dests)
         \/ s[1].op = "remove_unknown" /\ DoRemoveUnknown(t)
         \/ s[1].op = "list_routes" /\ DoListRoutes(t)
         \/ s[1].op = "sync" /\ DoSync(t)
         \/ s[1].op = "get_new_system_state" /\ DoGetNewSystemState(t)
         \/ s[1].op = "adopt" /\ DoAdopt(t, s[1].state)
         \/ s[1].op = "start_monitor" /\ DoStartMonitor(t)
         \/ Continue(t, Rest(t)) \/ Raise(t)
    BY <1>3, DoCases DEF DoApplyPeerConfig, DoAddRoutes, DoSyncGwRoutes,
       DoRemoveWgPeer, DoRemoveUnknownPeers, DoDelRoutes, DoNothing
  <1> QED
    BY <1>11, <1>12, <1>13, <1>14, <1>15, <1>16, <1>17, <1>18, <1>19, <1>20, <1>21

-----------------------------------------------------------------------------
(* RepairRestores *)

\* Where no end waits there is nothing to show.
LEMMA NoGoals ==
    ASSUME NEW s \in Seq(Calls), \A i \in 1..Len(s) : s[i].op \notin Goal
    PROVE  /\ Orderly(s) /\ Goals(s) = {}
           /\ Orderly(Resumed(s)) /\ Goals(Resumed(s)) = {}
  <1>1. Orderly(s) /\ Goals(s) = {}
    BY DEF Orderly, Goals
  <1>2. PICK k \in 1..Len(s) + 1 : SuffixFrom(Resumed(s), s, k)
    BY ResumedSuffix
  <1>3. \A i \in 1..Len(Resumed(s)) : Resumed(s)[i].op \notin Goal
    <2> SUFFICES ASSUME NEW i \in 1..Len(Resumed(s))
                 PROVE  Resumed(s)[i].op \notin Goal
      OBVIOUS
    <2>1. Resumed(s) \in Seq(Calls)
      BY ResumedSuffix
    <2>2. i + k - 1 \in 1..Len(s) /\ Resumed(s)[i] = s[i + k - 1]
      BY <1>2, <2>1 DEF SuffixFrom
    <2> QED
      BY <2>2
  <1> QED
    BY <1>1, <1>3 DEF Orderly, Goals

\* The calls of run() are in order.
LEMMA StartupOrderly == Orderly(Startup) /\ Orderly(<<>>) /\ Goals(<<>>) = {}
  <1>1. /\ Len(Startup) = 5 /\ Startup[2].op = "start_monitor"
        /\ Startup[3].op = "instruct_zeroconf" /\ Startup[4].op = "sync"
    BY DEF Startup, Call
  <1>2. Orderly(Startup)
    <2> SUFFICES ASSUME NEW a \in 1..5, NEW b \in 1..5, NEW n \in 1..5, a < b, b < n
                 PROVE  Startup[b].op \in Neutral \cup {"sync"}
      BY <1>1 DEF Orderly
    <2>1. b = 2 \/ b = 3 \/ b = 4
      OBVIOUS
    <2> QED
      BY <1>1, <2>1 DEF Neutral, Goal
  <1>3. Orderly(<<>>) /\ Goals(<<>>) = {}
    BY DEF Orderly, Goals
  <1> QED
    BY <1>2, <1>3

\* SyncInv is about the table and the kernel.
LEMMA SyncInvFrame ==
    ASSUME NEW s, NEW n, SyncInv(s, n), peers' = peers, UNCHANGED kvars
    PROVE  SyncInv(s, n)'
  <1>1. UNCHANGED <<peers, wg_peers, allowed_ips, wgi, routes, gw_routes>>
    BY DEF kvars
  <1>2. ASSUME NEW x
        PROVE  (Sound(x)' <=> Sound(x)) /\ (SoundNow(x)' <=> SoundNow(x))
    BY <1>1 DEF Sound, SoundNow
  <1>3. ASSUME NEW v
        PROVE  /\ KeyComes(v, Before(s, n))' <=> KeyComes(v, Before(s, n))
               /\ RoutesCome(v, Before(s, n), s[1])' <=> RoutesCome(v, Before(s, n), s[1])
               /\ GwComes(v, Before(s, n))' <=> GwComes(v, Before(s, n))
    <2>1. KeyDone(v)' <=> KeyDone(v)
      BY <1>1 DEF KeyDone
    <2>2. (RoutesDone(v)' <=> RoutesDone(v)) /\ (GwDone(v)' <=> GwDone(v))
      BY <1>1 DEF RoutesDone, GwDone
    <2> QED
      BY <1>1, <2>1, <2>2 DEF KeyComes, RoutesCome, GwComes
  <1>4. /\ PeersBecomeClean(Before(s, n))' <=> PeersBecomeClean(Before(s, n))
        /\ RoutesBecomeClean(Before(s, n), s[1])' <=>
              RoutesBecomeClean(Before(s, n), s[1])
    BY <1>1 DEF PeersBecomeClean, RoutesBecomeClean, PeersClean, RoutesClean
  <1>5. Enabled(peers)' = Enabled(peers) /\ EnabledPks(peers)' = EnabledPks(peers)
    BY <1>1
  <1> QED
    BY <1>1, <1>2, <1>3, <1>4, <1>5 DEF SyncInv

\* What RInv says of one thread.
ThreadInv(t) ==
    /\ Orderly(todo[t])
    /\ undisturbed[t] => \A n \in Goals(todo[t]) : SyncInv(todo[t], n)

\* The same in the next state, for the calls that wait then.
LEMMA NextThreadInv ==
    ASSUME NEW t \in Thread, NEW s2, s2 = todo'[t], Orderly(s2),
           undisturbed'[t] => \A n \in Goals(s2) : SyncInv(s2, n)'
    PROVE  ThreadInv(t)'
  <1>1. Orderly(todo[t])'
    BY DEF Orderly
  <1>2. Goals(todo[t])' = Goals(s2)
    BY DEF Goals
  <1>3. ASSUME NEW n \in Goals(s2), undisturbed'[t]
        PROVE  SyncInv(todo[t], n)'
    BY <1>3, NextSyncInv
  <1> QED
    BY <1>1, <1>2, <1>3 DEF ThreadInv

\* RInv holds initially.
LEMMA RInvInit == DaemonInit => RInv
  BY StartupOrderly DEF DaemonInit, RInv

\* Every step keeps it.
LEMMA RInvNext == DInv /\ RInv /\ [DaemonNext]_allvars => RInv'
  <1> SUFFICES ASSUME DInv, RInv, [DaemonNext]_allvars PROVE RInv'
    OBVIOUS
  <1> SUFFICES ASSUME NEW t \in Thread PROVE ThreadInv(t)'
    BY DEF RInv, ThreadInv
  <1>1. /\ \A u \in Thread : Orderly(todo[u])
        /\ \A u \in Thread : undisturbed[u] =>
              \A n \in Goals(todo[u]) : SyncInv(todo[u], n)
    BY DEF RInv
  <1>2. PICK s, s2 : s = todo[t] /\ s2 = todo'[t]
    OBVIOUS
  <1>3. /\ Orderly(s)
        /\ undisturbed[t] => \A n \in Goals(s) : SyncInv(s, n)
    BY <1>1, <1>2
  <1>4. ASSUME s2 = s, undisturbed'[t] => undisturbed[t] /\ UNCHANGED <<peers, kvars>>
        PROVE  ThreadInv(t)'
    BY <1>2, <1>3, <1>4, SyncInvFrame, NextThreadInv
  <1>5. ASSUME Orderly(s2), Goals(s2) = {} \/ ~undisturbed'[t]
        PROVE  ThreadInv(t)'
    BY <1>2, <1>5, NextThreadInv
  <1>6. CASE UNCHANGED allvars
    BY <1>2, <1>4, <1>6 DEF allvars, evars, dvars
  <1>7. ASSUME NEW u \in Thread, ThreadStep(u)
        PROVE  ThreadInv(t)'
    <2>1. /\ todo[u] # <<>> /\ Do(u, Head(todo[u]))
          /\ undisturbed'[t] =
                IF t = u THEN undisturbed[t] \/ Head(todo[u]).op = "sync"
                ELSE undisturbed[t] /\ UNCHANGED <<peers, kvars>>
      BY <1>7 DEF ThreadStep
    <2>2. Orderly(todo'[u]) /\ \A x \in Thread \ {u} : todo'[x] = todo[x]
      BY <1>1, <2>1, OrderlyStep
    <2>3. CASE t = u
      <3>1. ASSUME NEW n \in Goals(s2), undisturbed'[t]
            PROVE  SyncInv(s2, n)'
        <4>1. CASE Head(todo[t]).op = "sync"
          BY <1>1, <1>2, <2>1, <2>3, <4>1, SyncStarts
        <4>2. CASE Head(todo[t]).op # "sync"
          <5>1. \A m \in Goals(todo[t]) : SyncInv(todo[t], m)
            BY <1>1, <2>1, <2>3, <3>1, <4>2
          <5> QED
            BY <1>1, <1>2, <2>1, <2>3, <4>2, <5>1, SyncGoesOn
        <4> QED
          BY <4>1, <4>2
      <3> QED
        BY <1>2, <2>2, <2>3, <3>1, NextThreadInv
    <2>4. CASE t # u
      BY <1>2, <1>4, <2>1, <2>2, <2>4
    <2> QED
      BY <2>3, <2>4
  <1>8. CASE MonitorWakes
    <2>1. CASE t = "monitor"
      <3>1. <<Call("get_new_system_state")>> \in Seq(Calls)
        BY CallTypes DEF PlainOps
      <3>2. \A i \in 1..Len(<<Call("get_new_system_state")>>) :
               <<Call("get_new_system_state")>>[i].op \notin Goal
        BY CallNames DEF Goal
      <3>3. s2 = <<Call("get_new_system_state")>>
        BY <1>2, <1>8, <2>1 DEF MonitorWakes, DInv, ThreadsOK
      <3> QED
        BY <1>5, <3>1, <3>2, <3>3, NoGoals
    <2>2. CASE t # "monitor"
      BY <1>2, <1>4, <1>8, <2>2 DEF MonitorWakes, evars, DInv, ThreadsOK
    <2> QED
      BY <2>1, <2>2
  <1>9. ASSUME NEW calls \in Seq(Calls), Continue("dbus", calls), Orderly(calls),
               undisturbed' = [x \in Thread |-> FALSE]
        PROVE  ThreadInv(t)'
    <2>1. /\ t = "dbus" => s2 = Resumed(calls)
          /\ t # "dbus" => s2 = s
      BY <1>2, <1>9 DEF Continue, DInv, ThreadsOK
    <2>2. PICK k \in 1..Len(calls) + 1 : SuffixFrom(Resumed(calls), calls, k)
      BY ResumedSuffix
    <2>3. Orderly(s2)
      BY <1>3, <1>9, <2>1, <2>2, ResumedSuffix, OrderlySuffix
    <2> QED
      BY <1>5, <1>9, <2>3
  <1>10. CASE DbusEvent
    <2>1. /\ IInv'
          /\ result'.event = "USER_PEER_ADDR_DEL" =>
                result'.sync \subseteq Known(peers)
      BY <1>10, EventOK DEF DbusEvent, DInv
    <2>2. PICK calls \in Triggers : Continue("dbus", calls)
      BY <1>10 DEF DbusEvent
    <2>3. calls \in Seq(TriggerCalls)
      BY <2>1, TriggersType DEF DInv
    <2>4. TriggerCalls \subseteq Calls /\ \A c \in TriggerCalls : c.op \notin Goal
      BY CallTypes, CallNames DEF TriggerCalls, WorkCalls, PlainOps, Goal
    <2>5. calls \in Seq(Calls) /\ \A i \in 1..Len(calls) : calls[i].op \notin Goal
      BY <2>3, <2>4
    <2> QED
      BY <1>9, <1>10, <2>2, <2>5, NoGoals DEF DbusEvent, StartsWork
  <1>11. CASE Repair
    <2>1. <<Call("sync"), Call("reply")>> \in Seq(Calls)
      BY CallTypes DEF PlainOps
    <2>2. Orderly(<<Call("sync"), Call("reply")>>)
      BY DEF Orderly
    <2> QED
      BY <1>9, <1>11, <2>1, <2>2 DEF Repair, StartsWork
  <1>12. CASE ShowPeer
    BY <1>2, <1>3, <1>5, <1>12 DEF ShowPeer
  <1>13. CASE SystemChanges
    BY <1>2, <1>4, <1>13 DEF SystemChanges, evars
  <1>14. CASE Crash \/ Exit
    <2>1. Started
      BY <1>14 DEF Crash, Exit, Restarted
    <2> QED
      BY <1>2, <1>5, <2>1, StartupOrderly DEF Started
  <1> QED
    BY <1>6, <1>7, <1>8, <1>10, <1>11, <1>12, <1>13, <1>14 DEF DaemonNext

\* At the end of a sync() nothing waits that could mend the kernel: nothing is
\* wrong with it.
LEMMA SyncEnds ==
    ASSUME DInv, NEW s, s[1].op \in Goal, SyncInv(s, 1)
    PROVE  InSync(peers)
  <1>1. Before(s, 1) = {}
    BY DEF Before
  <1>2. \A v \in Enabled(peers) : KeyDone(v) /\ RoutesDone(v) /\ GwDone(v)
    BY <1>1 DEF SyncInv, KeyComes, RoutesCome, GwComes, Goal
  <1>3. PeersClean /\ RoutesClean
    BY <1>1 DEF SyncInv, PeersBecomeClean, RoutesBecomeClean, Goal
  <1>4. wg_peers = EnabledPks(peers)
    BY <1>2, <1>3 DEF KeyDone, PeersClean, EnabledPks
  <1>5. ASSUME NEW v \in Enabled(peers), NEW a \in Addr \cup {Default},
               allowed_ips[a] = peers[v].desc.pk
        PROVE  v \in Holders(peers, a)
    BY <1>2, <1>5 DEF KeyDone, Holders
  <1>6. ASSUME NEW a \in Addr \cup {Default}, Holders(peers, a) # {}
        PROVE  \E v \in Holders(peers, a) : allowed_ips[a] = peers[v].desc.pk
    BY <1>2, <1>6 DEF KeyDone, Holders
  <1>7. routes = UNION {Routes(peers[v]) : v \in Enabled(peers)}
    BY <1>2, <1>3 DEF RoutesDone, RoutesClean, Expected
  <1>8. gw_routes = (EnabledGateways(peers) # {})
    <2>1. gw_routes \in BOOLEAN
      BY DEF DInv, KernelTypeOK
    <2>2. EnabledGateways(peers) # {} => gw_routes
      BY <1>2 DEF GwDone, EnabledGateways, FlaggedAsGateway, Enabled
    <2>3. gw_routes => EnabledGateways(peers) # {}
      BY <1>3 DEF RoutesClean
    <2> QED
      BY <2>1, <2>2, <2>3, Zenon
  <1> QED
    BY <1>4, <1>5, <1>6, <1>7, <1>8 DEF InSync

\* Whatever a crash, a lost trigger or a race left in the kernel, and whatever
\* its table holds, a sync() that no other thread interferes with leaves the
\* kernel exactly as the table asks for: at the end of run(), of
\* get_new_system_state and of vula repair, for every number of peers and addresses.
THEOREM RepairCorrectness == DaemonSpec => []RepairRestores
  <1>1. DInv /\ RInv => RepairRestores
    <2> SUFFICES ASSUME DInv, RInv, NEW t \in Thread, AfterSync(t), undisturbed[t]
                 PROVE  InSync(peers)
      BY DEF RepairRestores
    <2>1. PICK s : s = todo[t]
      OBVIOUS
    <2>2. s \in Seq(Calls) /\ s # <<>> /\ s[1].op \in Goal
      BY <2>1 DEF DInv, ThreadsOK, AfterSync, Goal
    <2>3. 1 \in Goals(s)
      BY <2>2 DEF Goals
    <2>4. SyncInv(s, 1)
      BY <2>1, <2>3 DEF RInv
    <2> QED
      BY <2>2, <2>4, SyncEnds
  <1>2. DaemonSpec => []RInv
    BY RInvInit, RInvNext, DaemonInvariance, PTL DEF DaemonSpec
  <1> QED
    BY <1>1, <1>2, DaemonInvariance, PTL

-----------------------------------------------------------------------------
(* The invariant behind EnabledConfigured *)

\* The addresses of a peer, in use or not.
AllIps(q) == {q.desc.p} \cup q.on \cup q.off

\* No two peers have a key or an address in common, and no peer has its
\* primary address among its other addresses.
Separate ==
    \A v \in Known(peers) :
        /\ peers[v].desc.p \notin peers[v].on \cup peers[v].off
        /\ \A u \in Known(peers) \ {v} :
              /\ peers[u].desc.pk # peers[v].desc.pk
              /\ AllIps(peers[u]) \cap AllIps(peers[v]) = {}

\* What the kernel has, in the operators below an argument k: like the table
\* ps it is an argument so that the lemmas apply to both ends of a step.
Kern ==
    [wg |-> wg_peers, ips |-> allowed_ips, rts |-> routes, gw |-> gw_routes]

\* What peer v needs of the kernel.
Needs == {"key", "routes", "gw"}

Met(x, v, ps, k) ==
    /\ x = "key" => /\ ps[v].desc.pk \in k.wg
                    /\ \A a \in WgAllowedIps(ps[v]) : k.ips[a] = ps[v].desc.pk
    /\ x = "routes" => Routes(ps[v]) \subseteq k.rts
    /\ x = "gw" => (ps[v].use_as_gateway => k.gw)

\* Call c gives peer v all it needs, or what it needs of x, sooner or later.
Renews(c, v) == c.op = "sync" \/ (c.op = "sync_peer" /\ c.vk = v)

Brings(x, c, v, ps, k) ==
    \/ Renews(c, v)
    \/ x = "key" /\ c.op = "apply_peerconfig" /\ c.peer = ps[v]
    \/ x = "routes" /\ c.op = "sync_routes" /\ c.peer = ps[v]
    \/ /\ x = "routes" /\ c.op = "add_routes"
       /\ Routes(ps[v]) \subseteq k.rts \cup c.dests
    \/ x = "gw" /\ c.op = "sync_gw_routes"

\* Call c takes from peer v what it needs.
Harms(c, v, ps) ==
    \/ c.op = "remove_wg_peer" /\ c.pk = ps[v].desc.pk
    \/ /\ c.op \in {"remove_routes", "del_routes"}
       /\ c.dests \cap Routes(ps[v]) # {}

\* Call c is one that the table asks for.
Apt(c, ps) ==
    /\ c.op # "adopt"
    /\ c.op = "sync_peer" => c.vk \in Known(ps)
    /\ c.op \in {"apply_peerconfig", "sync_routes"} =>
          \E v \in Enabled(ps) : c.peer = ps[v]
    /\ c.op = "remove_unknown_peers" => EnabledPks(ps) \subseteq c.pks

\* The calls that depend on the routes there are when they were queued, and
\* that they do not fail.
Once == {"add_routes", "del_routes"}

Fits(c, k) ==
    /\ c.op = "add_routes" => c.dests \cap k.rts = {}
    /\ c.op = "del_routes" => c.dests \subseteq k.rts /\ (c.gw => k.gw)

\* The waiting calls s give the enabled peers all that they need and do not
\* have, and what they take from a peer they give back later.
Work(s, ps, k) ==
    /\ \A i \in 1..Len(s) : Apt(s[i], ps)
    /\ \A i \in 2..Len(s) : s[i].op \notin Once
    /\ s # <<>> => Fits(s[1], k)
    /\ \A v \in Enabled(ps) :
          /\ \A x \in Needs : Met(x, v, ps, k)
                \/ \E i \in 1..Len(s) : Brings(x, s[i], v, ps, k)
          /\ \A i \in 1..Len(s) : Harms(s[i], v, ps) =>
                \E j \in i + 1..Len(s) : Renews(s[j], v)

\* As long as the system stays the same the daemon adopts its state once,
\* before the monitor starts; apart from that there is only work.
TInv ==
    /\ status["monitor"] = "running" => real = system_state
    /\ todo["monitor"] \in {<<>>, <<Call("get_new_system_state")>>}
    /\ status["dbus"] = "running" =>
          \/ real = system_state /\ Work(todo["dbus"], peers, Kern)
          \/ /\ real # system_state
             /\ todo["dbus"] \in {Startup,
                    <<[op |-> "adopt", state |-> real]>> \o Tail(Startup)}

-----------------------------------------------------------------------------
(* Lemmas about the waiting calls *)

\* The first call of s is replaced by the calls `new' when it is made.
LEMMA GoesOn ==
    ASSUME NEW ps, NEW k, NEW k2, NEW s \in Seq(Calls), s # <<>>, Work(s, ps, k),
           NEW new \in Seq(Calls),
           \A i \in 1..Len(new) : Apt(new[i], ps),
           \A i \in 2..Len(new) : new[i].op \notin Once,
           new # <<>> => Fits(new[1], k2),
           \A v \in Enabled(ps) : \A i \in 1..Len(new) :
              Harms(new[i], v, ps) => Harms(s[1], v, ps),
           \A v \in Enabled(ps) : \A x \in Needs :
              /\ Met(x, v, ps, k) => Met(x, v, ps, k2) \/ Harms(s[1], v, ps)
              /\ Brings(x, s[1], v, ps, k) =>
                    Met(x, v, ps, k2)
                       \/ \E i \in 1..Len(new) : Brings(x, new[i], v, ps, k2)
    PROVE  Work(new \o Tail(s), ps, k2)
  <1> DEFINE n == Len(new)
             w == new \o Tail(s)
  <1>1. /\ n \in Nat /\ Len(s) \in Nat /\ Len(s) >= 1
        /\ Len(w) = n + Len(s) - 1
        /\ w # <<>> => Len(w) >= 1
    OBVIOUS
  <1>2. \A i \in 1..n : i \in 1..Len(w) /\ w[i] = new[i]
    OBVIOUS
  <1>3. ASSUME NEW j \in 2..Len(s)
        PROVE  j - 1 + n \in n + 1..Len(w) /\ w[j - 1 + n] = s[j]
    <2>1. j - 1 \in 1..Len(Tail(s)) /\ Tail(s)[j - 1] = s[j]
      OBVIOUS
    <2>2. w[n + (j - 1)] = Tail(s)[j - 1]
      BY <2>1
    <2>3. n + (j - 1) = j - 1 + n
      OBVIOUS
    <2> QED
      BY <1>1, <2>1, <2>2, <2>3
  <1>4. ASSUME NEW i \in 1..Len(w), i \notin 1..n
        PROVE  i - n + 1 \in 2..Len(s) /\ w[i] = s[i - n + 1]
    <2>1. i - n + 1 \in 2..Len(s) /\ (i - n + 1) - 1 + n = i
      BY <1>1, <1>4
    <2> QED
      BY <1>3, <2>1
  <1> HIDE DEF n, w
  <1>5. \A i \in 1..Len(w) : Apt(w[i], ps)
    BY <1>1, <1>2, <1>4 DEF Work, n
  <1>6. \A i \in 2..Len(w) : w[i].op \notin Once
    <2> SUFFICES ASSUME NEW i \in 2..Len(w) PROVE w[i].op \notin Once
      OBVIOUS
    <2>1. i \in 1..Len(w)
      BY <1>1
    <2>2. CASE i \in 1..n
      BY <1>1, <1>2, <2>2 DEF n
    <2> QED
      BY <1>4, <2>1, <2>2 DEF Work
  <1>7. w # <<>> => Fits(w[1], k2)
    <2>1. CASE n # 0
      BY <1>1, <1>2, <2>1 DEF n
    <2>2. CASE n = 0 /\ w # <<>>
      <3>1. 1 \in 1..Len(w) /\ 1 \notin 1..n
        BY <1>1, <2>2
      <3>2. w[1].op \notin Once
        BY <1>4, <3>1 DEF Work
      <3> QED
        BY <3>2 DEF Fits, Once
    <2> QED
      BY <1>1, <2>1, <2>2
  <1>8. ASSUME NEW v \in Enabled(ps), Harms(s[1], v, ps)
        PROVE  \E j \in n + 1..Len(w) : Renews(w[j], v)
    <2>1. PICK j \in 1 + 1..Len(s) : Renews(s[j], v)
      BY <1>1, <1>8 DEF Work
    <2>2. j \in 2..Len(s)
      OBVIOUS
    <2> QED
      BY <1>3, <2>1, <2>2
  <1>9. ASSUME NEW v \in Enabled(ps), NEW i \in 1..Len(w), Harms(w[i], v, ps)
        PROVE  \E j \in i + 1..Len(w) : Renews(w[j], v)
    <2>1. CASE i \in 1..n
      <3>1. Harms(s[1], v, ps)
        BY <1>2, <1>9, <2>1 DEF n
      <3>2. PICK j \in n + 1..Len(w) : Renews(w[j], v)
        BY <1>8, <3>1
      <3>3. j \in i + 1..Len(w)
        BY <1>1, <2>1
      <3> QED
        BY <3>2, <3>3
    <2>2. CASE i \notin 1..n
      <3> DEFINE m == i - n + 1
      <3>1. m \in 2..Len(s) /\ w[i] = s[m] /\ m \in 1..Len(s)
        BY <1>1, <1>4, <2>2
      <3>2. PICK j \in m + 1..Len(s) : Renews(s[j], v)
        BY <1>9, <3>1 DEF Work
      <3>3. j \in 2..Len(s) /\ j - 1 + n \in i + 1..Len(w)
        BY <1>1, <3>1
      <3> QED
        BY <1>3, <3>2, <3>3
    <2> QED
      BY <2>1, <2>2
  <1>10. ASSUME NEW v \in Enabled(ps), NEW x \in Needs
         PROVE  Met(x, v, ps, k2) \/ \E i \in 1..Len(w) : Brings(x, w[i], v, ps, k2)
    <2>1. CASE Harms(s[1], v, ps)
      <3>1. PICK j \in n + 1..Len(w) : Renews(w[j], v)
        BY <1>8, <2>1
      <3>2. j \in 1..Len(w)
        BY <1>1
      <3> QED
        BY <3>1, <3>2 DEF Brings
    <2>2. CASE Met(x, v, ps, k) /\ ~Harms(s[1], v, ps)
      BY <2>2
    <2>3. CASE \E i \in 1..Len(s) : Brings(x, s[i], v, ps, k)
      <3>1. PICK i \in 1..Len(s) : Brings(x, s[i], v, ps, k)
        BY <2>3
      <3>2. CASE i = 1
        BY <1>2, <3>1, <3>2 DEF n
      <3>3. CASE i # 1
        <4>1. i \in 2..Len(s)
          BY <1>1, <3>3
        <4>2. s[i].op # "add_routes"
          BY <4>1 DEF Work, Once
        <4>3. Brings(x, s[i], v, ps, k2)
          BY <3>1, <4>2 DEF Brings
        <4>4. i - 1 + n \in 1..Len(w) /\ w[i - 1 + n] = s[i]
          BY <1>1, <1>3, <4>1
        <4> QED
          BY <4>3, <4>4
      <3> QED
        BY <3>2, <3>3
    <2> QED
      BY <2>1, <2>2, <2>3 DEF Work
  <1> QED
    BY <1>5, <1>6, <1>7, <1>9, <1>10 DEF Work, w

\* The ends of try blocks at the beginning make no difference.
LEMMA ResumedWork ==
    ASSUME NEW ps, NEW k, NEW w \in Seq(Calls), Work(w, ps, k)
    PROVE  Work(Resumed(w), ps, k)
  <1> DEFINE s == Resumed(w)
  <1>1. s \in Seq(Calls)
    BY ResumedSuffix
  <1>2. PICK m \in 1..Len(w) + 1 :
           /\ SuffixFrom(s, w, m)
           /\ \A i \in 1..m - 1 : w[i].op = "catch"
    BY ResumedSuffix
  <1> HIDE DEF s
  <1>3. /\ Len(w) \in Nat /\ Len(s) \in Nat /\ Len(s) = Len(w) - m + 1 /\ m \in Nat
        /\ m >= 1 /\ (s # <<>> => Len(s) >= 1) /\ (w # <<>> <=> Len(w) >= 1)
    BY <1>1, <1>2 DEF SuffixFrom
  <1>4. ASSUME NEW i \in 1..Len(s)
        PROVE  i + m - 1 \in 1..Len(w) /\ s[i] = w[i + m - 1]
    BY <1>2, <1>3 DEF SuffixFrom
  <1>5. ASSUME NEW j \in 1..Len(w), j >= m
        PROVE  j - m + 1 \in 1..Len(s) /\ s[j - m + 1] = w[j]
    <2>1. j - m + 1 \in 1..Len(s) /\ (j - m + 1) + m - 1 = j
      BY <1>3, <1>5
    <2> QED
      BY <1>4, <2>1
  <1>6. \A i \in 1..Len(s) : Apt(s[i], ps)
    BY <1>4 DEF Work
  <1>7. ASSUME NEW i \in 1..Len(s), i # 1 \/ m # 1
        PROVE  s[i].op \notin Once
    <2>1. i + m - 1 \in 2..Len(w)
      BY <1>3, <1>4, <1>7
    <2> QED
      BY <1>4, <2>1 DEF Work
  <1>8. \A i \in 2..Len(s) : s[i].op \notin Once
    <2> SUFFICES ASSUME NEW i \in 2..Len(s) PROVE s[i].op \notin Once
      OBVIOUS
    <2>1. i \in 1..Len(s) /\ i # 1
      BY <1>3
    <2> QED
      BY <1>7, <2>1
  <1>9. s # <<>> => Fits(s[1], k)
    <2> SUFFICES ASSUME s # <<>> PROVE Fits(s[1], k)
      OBVIOUS
    <2>1. 1 \in 1..Len(s)
      BY <1>3
    <2>2. CASE m = 1
      <3>1. s[1] = w[1] /\ w # <<>>
        <4>1. 1 + m - 1 = 1
          BY <2>2
        <4> QED
          BY <1>3, <1>4, <2>1, <4>1
      <3> QED
        BY <3>1 DEF Work
    <2>3. CASE m # 1
      <3>1. s[1].op \notin Once
        BY <1>7, <2>1, <2>3
      <3> QED
        BY <3>1 DEF Fits, Once
    <2> QED
      BY <2>2, <2>3
  <1>10. ASSUME NEW v \in Enabled(ps), NEW x \in Needs
         PROVE  Met(x, v, ps, k) \/ \E i \in 1..Len(s) : Brings(x, s[i], v, ps, k)
    <2>1. CASE \E j \in 1..Len(w) : Brings(x, w[j], v, ps, k)
      <3>1. PICK j \in 1..Len(w) : Brings(x, w[j], v, ps, k)
        BY <2>1
      <3>2. w[j].op # "catch"
        BY <3>1 DEF Brings, Renews
      <3>3. j >= m
        BY <1>2, <1>3, <3>2
      <3> QED
        BY <1>5, <3>1, <3>3
    <2> QED
      BY <2>1 DEF Work
  <1>11. ASSUME NEW v \in Enabled(ps), NEW i \in 1..Len(s), Harms(s[i], v, ps)
         PROVE  \E j \in i + 1..Len(s) : Renews(s[j], v)
    <2> DEFINE l == i + m - 1
    <2>1. l \in 1..Len(w) /\ s[i] = w[l]
      BY <1>4
    <2>2. PICK j \in l + 1..Len(w) : Renews(w[j], v)
      BY <1>11, <2>1 DEF Work
    <2>3. j \in 1..Len(w) /\ j >= m /\ j - m + 1 >= i + 1
      BY <1>3
    <2>4. j - m + 1 \in 1..Len(s) /\ s[j - m + 1] = w[j]
      BY <1>5, <2>3
    <2>5. j - m + 1 \in i + 1..Len(s)
      BY <1>3, <2>3, <2>4
    <2> QED
      BY <2>2, <2>4, <2>5
  <1> QED
    BY <1>6, <1>8, <1>9, <1>10, <1>11 DEF Work, s

\* The table has peers whose routes and keys have nothing in common.
Apart(ps) ==
    \A v \in Enabled(ps) :
        /\ ps[v] \in Peer
        /\ \A u \in Enabled(ps) \ {v} :
              /\ ps[u].desc.pk # ps[v].desc.pk
              /\ WgAllowedIps(ps[u]) \cap WgAllowedIps(ps[v]) = {}

\* A valid table of peers with nothing in common.
LEMMA SeparateIsApart ==
    ASSUME IInv, Separate
    PROVE  Apart(peers)
  <1>1. Enabled(peers) \subseteq Known(peers)
    BY DEF Enabled
  <1>2. ASSUME NEW v \in Enabled(peers)
        PROVE  peers[v] \in Peer
    BY <1>1, KnownOK DEF PeerOK
  <1>3. ASSUME NEW v \in Enabled(peers), NEW u \in Enabled(peers) \ {v}
        PROVE  /\ peers[u].desc.pk # peers[v].desc.pk
               /\ WgAllowedIps(peers[u]) \cap WgAllowedIps(peers[v]) = {}
    <2>1. /\ peers[u].desc.pk # peers[v].desc.pk
          /\ AllIps(peers[u]) \cap AllIps(peers[v]) = {}
      BY <1>1 DEF Separate
    <2>2. Routes(peers[u]) \cap Routes(peers[v]) = {}
      BY <2>1 DEF Routes, EnabledIps, AllIps
    <2>3. Default \notin Routes(peers[u]) /\ Default \notin Routes(peers[v])
      BY <1>2, PeerFields, KernelTypes
    <2>4. ~(peers[u].use_as_gateway /\ peers[v].use_as_gateway)
      BY <1>1 DEF IInv, Conflicts, EnabledGateways, FlaggedAsGateway
    <2> QED
      BY <2>1, <2>2, <2>3, <2>4 DEF WgAllowedIps
  <1> QED
    BY <1>2, <1>3 DEF Apart

\* A call that waits in the main thread goes on with the work.
LEMMA CallWorks ==
    ASSUME DInv, Separate, todo["dbus"] # <<>>, real = system_state,
           Work(todo["dbus"], peers, Kern), Do("dbus", Head(todo["dbus"]))
    PROVE  /\ Work(todo'["dbus"], peers', Kern')
           /\ todo'["monitor"] = todo["monitor"]
           /\ peers' = peers /\ system_state' = system_state
  <1> DEFINE Head1 == Head(todo["dbus"])
             R == Rest("dbus")
  <1>1. PICK s, c, ps, k, k2 : /\ s = todo["dbus"] /\ c = Head1 /\ ps = peers
                               /\ k = Kern /\ k2 = Kern'
    OBVIOUS
  <1>2. /\ s \in Seq(Calls) /\ s # <<>> /\ c \in Calls /\ c = s[1] /\ R = Tail(s)
        /\ R \in Seq(Calls) /\ c.op # "catch"
    BY <1>1, RestType DEF DInv, ThreadsOK, Thread, Rest
  <1>3. Work(s, ps, k) /\ Apart(ps)
    BY <1>1, SeparateIsApart DEF DInv
  <1>4. /\ k.wg = wg_peers /\ k.ips = allowed_ips /\ k.rts = routes /\ k.gw = gw_routes
        /\ k2.wg = wg_peers' /\ k2.ips = allowed_ips' /\ k2.rts = routes'
        /\ k2.gw = gw_routes'
    BY <1>1 DEF Kern
  <1>5. Do("dbus", c) /\ Apt(c, ps) /\ Fits(c, k)
    BY <1>1, <1>2, <1>3 DEF Work
  <1>6. UNCHANGED kvars => k2 = k
    BY <1>1 DEF Kern, kvars
  <1>7. ASSUME NEW v \in Enabled(ps)
        PROVE  /\ v \in Vk /\ v \in Known(ps) /\ ps[v] \in Peer
               /\ Routes(ps[v]) \subseteq Addr
               /\ WgAllowedIps(ps[v]) \subseteq Addr \cup {Default}
               /\ Routes(ps[v]) \subseteq WgAllowedIps(ps[v])
    <2>1. v \in Vk /\ v \in Known(ps) /\ ps[v] \in Peer
      BY <1>3, <1>7 DEF Apart, Enabled, Known
    <2> QED
      BY <2>1, PeerFields DEF WgAllowedIps
  <1> DEFINE Kept == \A v \in Enabled(ps) : \A x \in Needs :
                        Met(x, v, ps, k) => Met(x, v, ps, k2) \/ Harms(c, v, ps)
             Given(new) == \A v \in Enabled(ps) : \A x \in Needs :
                Brings(x, c, v, ps, k) =>
                   Met(x, v, ps, k2)
                      \/ \E i \in 1..Len(new) : Brings(x, new[i], v, ps, k2)
             Harmless(new) == \A v \in Enabled(ps) : \A i \in 1..Len(new) :
                Harms(new[i], v, ps) => Harms(c, v, ps)
             Fine(new) == /\ \A i \in 1..Len(new) : Apt(new[i], ps)
                          /\ \A i \in 2..Len(new) : new[i].op \notin Once
                          /\ new # <<>> => Fits(new[1], k2)
             Goal1 == /\ Work(todo'["dbus"], peers', Kern')
                      /\ todo'["monitor"] = todo["monitor"]
                      /\ peers' = peers /\ system_state' = system_state
  <1>8. ASSUME NEW w \in Seq(Calls), todo' = [todo EXCEPT !["dbus"] = Resumed(w)],
               Work(w, ps, k2), UNCHANGED evars
        PROVE  Goal1
    <2>1. Work(Resumed(w), ps, k2)
      BY <1>8, ResumedWork
    <2>2. todo'["dbus"] = Resumed(w) /\ todo'["monitor"] = todo["monitor"]
      BY <1>8 DEF DInv, ThreadsOK, Thread
    <2>3. peers' = ps /\ peers' = peers /\ system_state' = system_state
      BY <1>1, <1>8 DEF evars
    <2>4. Work(todo'["dbus"], peers', k2)
      BY <2>1, <2>2, <2>3
    <2> QED
      BY <1>1, <2>2, <2>3, <2>4
  <1>9. ASSUME NEW new \in Seq(Calls), Fine(new), Kept, Given(new), Harmless(new),
               todo' = [todo EXCEPT !["dbus"] = Resumed(new \o R)], UNCHANGED evars
        PROVE  Goal1
    <2>1. Work(new \o R, ps, k2)
      BY <1>2, <1>3, <1>9, GoesOn
    <2>2. new \o R \in Seq(Calls)
      BY <1>2
    <2> QED
      BY <1>8, <1>9, <2>1, <2>2
  <1>10. ASSUME Kept, Given(<<>>), UNCHANGED evars,
                todo' = [todo EXCEPT !["dbus"] = Resumed(R)]
         PROVE  Goal1
    <2>1. <<>> \in Seq(Calls) /\ Len(<<>>) = 0 /\ <<>> \o R = R
      BY <1>2
    <2>2. Fine(<<>>) /\ Harmless(<<>>)
      BY <2>1
    <2> QED
      BY <1>9, <1>10, <2>1, <2>2
  <1>11. ASSUME k2 = k PROVE Kept
    BY <1>11
  <1> SUFFICES Goal1
    OBVIOUS
  <1> HIDE DEF Head1, R, Goal1
  \* A call that is replaced by one or two calls, the kernel staying as it is.
  <1>12. ASSUME NEW x \in Calls, UNCHANGED <<evars, kvars>>, Apt(x, ps), Fits(x, k),
                \A v \in Enabled(ps) : Harms(x, v, ps) => Harms(c, v, ps),
                \A v \in Enabled(ps) : \A y \in Needs :
                   Brings(y, c, v, ps, k) => Brings(y, x, v, ps, k),
                Continue("dbus", <<x>> \o R)
         PROVE  Goal1
    <2>1. <<x>> \in Seq(Calls) /\ Len(<<x>>) = 1 /\ <<x>>[1] = x /\ 1 \in 1..1
      OBVIOUS
    <2>2. k2 = k /\ UNCHANGED evars
      BY <1>6, <1>12
    <2>3. \A i \in 1..Len(<<x>>) : <<x>>[i] = x
      BY <2>1
    <2>4. Fine(<<x>>)
      BY <1>12, <2>1, <2>2, <2>3
    <2>5. Harmless(<<x>>)
      BY <1>12, <2>3
    <2>6. Given(<<x>>)
      BY <1>12, <2>1, <2>2
    <2>7. todo' = [todo EXCEPT !["dbus"] = Resumed(<<x>> \o R)]
      BY <1>12 DEF Continue
    <2> QED
      BY <1>9, <1>11, <2>1, <2>2, <2>4, <2>5, <2>6, <2>7
  <1>13. CASE c.op = "sync_peer" /\ DoSyncPeer("dbus", c.vk)
    <2> DEFINE q == peers[c.vk]
    <2>1. q # NoPeer /\ c.vk \in Known(ps)
      BY <1>1, <1>5, <1>13 DEF Apt, Known
    <2>2. UNCHANGED <<evars, kvars>>
      BY <1>13 DEF DoSyncPeer
    <2>3. CASE ~q.enabled /\ Continue("dbus", <<Call("remove_unknown")>> \o R)
      <3>1. PICK x : x = Call("remove_unknown")
        OBVIOUS
      <3>2. x \in Calls /\ x.op = "remove_unknown"
        BY <3>1, CallTypes, CallNames DEF PlainOps
      <3>3. Apt(x, ps) /\ Fits(x, k) /\ \A v : ~Harms(x, v, ps)
        BY <3>2 DEF Apt, Fits, Harms
      <3>4. \A v \in Enabled(ps) : \A y : ~Brings(y, c, v, ps, k)
        BY <1>1, <1>13, <2>3 DEF Brings, Renews, Enabled
      <3> QED
        BY <1>12, <2>2, <2>3, <3>1, <3>2, <3>3, <3>4
    <2>4. CASE /\ q.enabled
               /\ Continue("dbus", <<WithPeer("apply_peerconfig", q),
                                     WithPeer("sync_routes", q)>>
                              \o (IF q.use_as_gateway
                                  THEN <<Call("sync_gw_routes")>> ELSE <<>>) \o R)
      <3>1. PICK a, b, g : /\ a = WithPeer("apply_peerconfig", q)
                           /\ b = WithPeer("sync_routes", q)
                           /\ g = Call("sync_gw_routes")
        OBVIOUS
      <3>2. c.vk \in Enabled(ps) /\ q = ps[c.vk]
        BY <1>1, <2>1, <2>4 DEF Enabled
      <3>3. q \in Peer /\ q.use_as_gateway \in BOOLEAN
        BY <1>7, <3>2, PeerFields
      <3>4. /\ a \in Calls /\ b \in Calls /\ g \in Calls
            /\ a.op = "apply_peerconfig" /\ a.peer = q
            /\ b.op = "sync_routes" /\ b.peer = q /\ g.op = "sync_gw_routes"
        BY <3>1, <3>3, CallTypes, CallNames DEF PlainOps
      <3>5. PICK new : new = <<a, b>> \o (IF q.use_as_gateway THEN <<g>> ELSE <<>>)
        OBVIOUS
      <3>6. /\ new \in Seq(Calls) /\ Len(new) \in {2, 3}
            /\ new[1] = a /\ new[2] = b /\ (Len(new) = 3 => new[3] = g)
            /\ q.use_as_gateway => Len(new) = 3
        <4>1. CASE q.use_as_gateway
          <5>1. PICK ab, gs : ab = <<a, b>> /\ gs = <<g>> /\ new = ab \o gs
            BY <3>5, <4>1
          <5>2. /\ ab \in Seq(Calls) /\ Len(ab) = 2 /\ ab[1] = a /\ ab[2] = b
                /\ gs \in Seq(Calls) /\ Len(gs) = 1 /\ gs[1] = g
            BY <3>4, <5>1
          <5>3. /\ new \in Seq(Calls) /\ Len(new) = 3
                /\ new[1] = ab[1] /\ new[2] = ab[2] /\ new[3] = gs[1]
            BY <5>1, <5>2
          <5> QED
            BY <5>2, <5>3
        <4>2. CASE ~q.use_as_gateway
          <5>1. new = <<a, b>>
            BY <3>5, <4>2
          <5> QED
            BY <3>4, <4>2, <5>1
        <4> QED
          BY <4>1, <4>2
      <3>7. \A i \in 1..Len(new) : new[i] = a \/ new[i] = b \/ new[i] = g
        <4>1. CASE Len(new) = 2
          <5>1. \A i \in 1..2 : i = 1 \/ i = 2
            OBVIOUS
          <5> QED
            BY <3>6, <4>1, <5>1
        <4>2. CASE Len(new) = 3
          <5>1. \A i \in 1..3 : i = 1 \/ i = 2 \/ i = 3
            OBVIOUS
          <5> QED
            BY <3>6, <4>2, <5>1
        <4> QED
          BY <3>6, <4>1, <4>2
      <3>8. \A x \in {a, b, g} : /\ Apt(x, ps) /\ Fits(x, k) /\ x.op \notin Once
                                 /\ \A v : ~Harms(x, v, ps)
        BY <3>2, <3>4 DEF Apt, Fits, Once, Harms
      <3>9. k2 = k /\ UNCHANGED evars
        BY <1>6, <2>2
      <3>10. Fine(new)
        <4>1. new[1] \in {a, b, g} /\ \A i \in 1..Len(new) : new[i] \in {a, b, g}
          BY <3>6, <3>7
        <4>2. \A i \in 2..Len(new) : i \in 1..Len(new)
          BY <3>6
        <4> QED
          BY <3>8, <3>9, <4>1, <4>2, Zenon
      <3>11. Harmless(new)
        BY <3>7, <3>8
      <3>12. ASSUME NEW v \in Enabled(ps), NEW y \in Needs, Brings(y, c, v, ps, k)
             PROVE  Met(y, v, ps, k2)
                       \/ \E i \in 1..Len(new) : Brings(y, new[i], v, ps, k2)
        <4>1. c.vk = v /\ q = ps[v]
          BY <1>13, <3>2, <3>12 DEF Brings, Renews
        <4>2. 1 \in 1..Len(new) /\ 2 \in 1..Len(new)
          BY <3>6
        <4>3. CASE y = "key"
          <5>1. Brings(y, new[1], v, ps, k2)
            BY <3>4, <3>6, <4>1, <4>3 DEF Brings
          <5> QED
            BY <4>2, <5>1
        <4>4. CASE y = "routes"
          <5>1. Brings(y, new[2], v, ps, k2)
            BY <3>4, <3>6, <4>1, <4>4 DEF Brings
          <5> QED
            BY <4>2, <5>1
        <4>5. CASE y = "gw" /\ q.use_as_gateway
          <5>1. Len(new) = 3 /\ new[3] = g
            BY <3>6, <4>5
          <5>2. Brings(y, new[3], v, ps, k2)
            BY <3>4, <4>5, <5>1 DEF Brings
          <5> QED
            BY <5>1, <5>2
        <4>6. CASE y = "gw" /\ ~q.use_as_gateway
          BY <4>1, <4>6 DEF Met
        <4> QED
          BY <4>3, <4>4, <4>5, <4>6 DEF Needs
      <3>13. todo' = [todo EXCEPT !["dbus"] = Resumed(new \o R)]
        BY <2>4, <3>1, <3>5 DEF Continue
      <3> QED
        BY <1>9, <1>11, <3>6, <3>9, <3>10, <3>11, <3>12, <3>13
    <2> QED
      BY <1>13, <2>1, <2>3, <2>4 DEF DoSyncPeer, R
  <1>14. CASE c.op = "apply_peerconfig" /\ DoApplyPeerConfig("dbus", c.peer)
    <2>1. PICK u \in Enabled(ps) : c.peer = ps[u]
      BY <1>5, <1>14 DEF Apt
    <2>2. /\ k2.wg = k.wg \cup {ps[u].desc.pk} /\ k2.rts = k.rts /\ k2.gw = k.gw
          /\ \A a \in Addr \cup {Default} :
                k2.ips[a] = IF a \in WgAllowedIps(ps[u]) THEN ps[u].desc.pk
                            ELSE IF k.ips[a] = ps[u].desc.pk THEN NoPk ELSE k.ips[a]
      BY <1>4, <1>14, <2>1 DEF DoApplyPeerConfig, ApplyPeerConfig
    <2>3. Met("key", u, ps, k2)
      BY <1>7, <2>2 DEF Met
    <2>4. ASSUME NEW v \in Enabled(ps), NEW x \in Needs, Met(x, v, ps, k)
          PROVE  Met(x, v, ps, k2)
      <3>1. CASE x = "key" /\ v # u
        <4>1. /\ ps[v].desc.pk # ps[u].desc.pk
              /\ WgAllowedIps(ps[v]) \cap WgAllowedIps(ps[u]) = {}
          BY <1>3, <3>1 DEF Apart
        <4> QED
          BY <1>7, <2>2, <2>4, <3>1, <4>1 DEF Met
      <3>2. CASE x \in {"routes", "gw"}
        BY <2>2, <2>4, <3>2 DEF Met
      <3> QED
        BY <2>3, <3>1, <3>2 DEF Needs
    <2>5. ASSUME NEW v \in Enabled(ps), NEW x \in Needs, Brings(x, c, v, ps, k)
          PROVE  Met(x, v, ps, k2)
      <3>1. x = "key" /\ ps[v] = ps[u]
        BY <1>14, <2>1, <2>5 DEF Brings, Renews
      <3> QED
        BY <2>3, <3>1 DEF Met
    <2>6. Kept /\ Given(<<>>)
      BY <2>4, <2>5
    <2> QED
      BY <1>10, <1>14, <2>6 DEF DoApplyPeerConfig, Continue, R
  <1>15. CASE c.op = "sync_routes" /\ DoSyncRoutes("dbus", c.peer)
    <2>1. PICK x : x = [op |-> "add_routes", dests |-> Routes(c.peer) \ routes]
      OBVIOUS
    <2>2. c.peer \in Peer /\ Routes(c.peer) \subseteq Addr
      BY <1>2, <1>15, CallFields, PeerFields
    <2>3. x \in Calls /\ x.op = "add_routes" /\ x.dests = Routes(c.peer) \ k.rts
      BY <1>4, <2>1, <2>2, CallTypes
    <2>4. Apt(x, ps) /\ Fits(x, k) /\ \A v : ~Harms(x, v, ps)
      BY <2>3 DEF Apt, Fits, Harms
    <2>5. ASSUME NEW v \in Enabled(ps), NEW y \in Needs, Brings(y, c, v, ps, k)
          PROVE  Brings(y, x, v, ps, k)
      <3>1. y = "routes" /\ c.peer = ps[v]
        BY <1>15, <2>5 DEF Brings, Renews
      <3> QED
        BY <2>3, <3>1 DEF Brings
    <2> QED
      BY <1>12, <1>15, <2>1, <2>3, <2>4, <2>5 DEF DoSyncRoutes, R
  <1>16. CASE c.op = "add_routes" /\ DoAddRoutes("dbus", c.dests)
    <2>1. c.dests \cap routes = {}
      BY <1>4, <1>5, <1>16 DEF Fits
    <2>2. AddRoutes(c.dests) /\ Continue("dbus", R) /\ UNCHANGED evars
      BY <1>16, <2>1 DEF DoAddRoutes, AddRoutesFails, R
    <2>3. /\ k2.wg = k.wg /\ k2.ips = k.ips /\ k2.gw = k.gw
          /\ k2.rts = k.rts \cup c.dests
      BY <1>4, <2>2 DEF AddRoutes
    <2>4. Kept
      BY <2>3 DEF Met
    <2>5. ASSUME NEW v \in Enabled(ps), NEW x \in Needs, Brings(x, c, v, ps, k)
          PROVE  Met(x, v, ps, k2)
      BY <1>16, <2>3, <2>5 DEF Brings, Renews, Met
    <2>6. Given(<<>>)
      BY <2>5
    <2> QED
      BY <1>10, <2>2, <2>4, <2>6 DEF Continue
  <1>17. CASE c.op = "sync_gw_routes" /\ DoSyncGwRoutes("dbus")
    <2>1. SyncGwRoutes /\ Continue("dbus", R) /\ UNCHANGED evars
      BY <1>17 DEF DoSyncGwRoutes, R
    <2>2. /\ k2.wg = k.wg /\ k2.ips = k.ips /\ k2.gw = TRUE /\ k2.rts = k.rts
      BY <1>4, <2>1 DEF SyncGwRoutes
    <2>3. Kept
      BY <2>2 DEF Met
    <2>4. ASSUME NEW v \in Enabled(ps), NEW x \in Needs, Brings(x, c, v, ps, k)
          PROVE  Met(x, v, ps, k2)
      BY <1>17, <2>2, <2>4 DEF Brings, Renews, Met
    <2>5. Given(<<>>)
      BY <2>4
    <2> QED
      BY <1>10, <2>1, <2>3, <2>5 DEF Continue
  \* Calls that bring nothing.
  <1>18. ASSUME c.op \notin {"sync", "sync_peer", "apply_peerconfig", "sync_routes",
                             "add_routes", "sync_gw_routes"}
         PROVE  \A v, x : ~Brings(x, c, v, ps, k)
    BY <1>18 DEF Brings, Renews
  <1>19. CASE c.op = "remove_wg_peer" /\ DoRemoveWgPeer("dbus", c.pk)
    <2>1. RemoveWgPeer(c.pk) /\ Continue("dbus", R) /\ UNCHANGED evars
      BY <1>19 DEF DoRemoveWgPeer, R
    <2>2. /\ k2.wg = k.wg \ {c.pk} /\ k2.gw = k.gw /\ k2.rts = k.rts
          /\ \A a \in Addr \cup {Default} :
                k2.ips[a] = IF k.ips[a] = c.pk THEN NoPk ELSE k.ips[a]
      BY <1>4, <2>1 DEF RemoveWgPeer, Unrouted
    <2>3. ASSUME NEW v \in Enabled(ps), NEW x \in Needs, Met(x, v, ps, k),
                 ~Harms(c, v, ps)
          PROVE  Met(x, v, ps, k2)
      <3>1. ps[v].desc.pk # c.pk
        BY <1>19, <2>3 DEF Harms
      <3> QED
        BY <1>7, <2>2, <2>3, <3>1 DEF Met
    <2>4. Kept /\ Given(<<>>)
      BY <1>18, <1>19, <2>3
    <2> QED
      BY <1>10, <2>1, <2>4 DEF Continue
  <1>20. CASE c.op = "remove_routes" /\ DoRemoveRoutes("dbus", c.dests)
    <2>1. PICK x : x = [op |-> "del_routes", dests |-> c.dests \cap routes,
                        gw |-> FALSE]
      OBVIOUS
    <2>2. c.dests \subseteq Addr
      BY <1>2, <1>20, CallFields
    <2>3. /\ x \in Calls /\ x.op = "del_routes" /\ x.dests = c.dests \cap k.rts
          /\ x.gw = FALSE
      BY <1>4, <2>1, <2>2, CallTypes
    <2>4. Apt(x, ps) /\ Fits(x, k) /\ \A v : Harms(x, v, ps) => Harms(c, v, ps)
      BY <1>20, <2>3 DEF Apt, Fits, Harms
    <2> QED
      BY <1>12, <1>18, <1>20, <2>1, <2>3, <2>4 DEF DoRemoveRoutes, R
  <1>21. CASE c.op = "remove_unknown" /\ DoRemoveUnknown("dbus")
    <2>1. PICK a, b : /\ a = [op |-> "remove_unknown_peers",
                              pks |-> {peers[v].desc.pk : v \in Enabled(peers)}]
                      /\ b = Call("list_routes")
      OBVIOUS
    <2>2. a.op = "remove_unknown_peers" /\ a.pks = EnabledPks(ps)
      BY <1>1, <2>1 DEF EnabledPks
    <2>3. EnabledPks(ps) \subseteq Pk
      BY <1>7, PeerFields DEF EnabledPks
    <2>4. a \in Calls /\ b \in Calls /\ b.op = "list_routes"
      BY <1>1, <2>1, <2>3, CallTypes, CallNames DEF PlainOps, EnabledPks
    <2>5. PICK new : new = <<a, b>>
      OBVIOUS
    <2>6. /\ new \in Seq(Calls) /\ Len(new) = 2 /\ new[1] = a /\ new[2] = b
          /\ \A i \in 1..2 : i = 1 \/ i = 2
      BY <2>4, <2>5
    <2>7. \A x \in {a, b} : /\ Apt(x, ps) /\ Fits(x, k2) /\ x.op \notin Once
                            /\ \A v : ~Harms(x, v, ps)
      BY <2>2, <2>4 DEF Apt, Fits, Once, Harms
    <2>8. \A i \in 1..Len(new) : new[i] \in {a, b}
      BY <2>6
    <2>9. Fine(new) /\ Harmless(new)
      <3>1. \A i \in 2..Len(new) : i \in 1..Len(new)
        BY <2>6
      <3> QED
        BY <2>6, <2>7, <2>8, <3>1, Zenon
    <2>10. k2 = k /\ UNCHANGED evars
      BY <1>6, <1>21 DEF DoRemoveUnknown
    <2>11. Given(new)
      BY <1>18, <1>21
    <2>12. todo' = [todo EXCEPT !["dbus"] = Resumed(new \o R)]
      BY <1>21, <2>1, <2>5 DEF DoRemoveUnknown, Continue, R
    <2> QED
      BY <1>9, <1>11, <2>6, <2>9, <2>10, <2>11, <2>12
  <1>22. CASE c.op = "remove_unknown_peers" /\ DoRemoveUnknownPeers("dbus", c.pks)
    <2>1. RemoveUnknownPeers(c.pks) /\ Continue("dbus", R) /\ UNCHANGED evars
      BY <1>22 DEF DoRemoveUnknownPeers, R
    <2>2. EnabledPks(ps) \subseteq c.pks
      BY <1>5, <1>22 DEF Apt
    <2>3. PICK unknown : unknown = wgi \ c.pks
      OBVIOUS
    <2>4. /\ k2.wg = k.wg \ unknown /\ k2.gw = k.gw /\ k2.rts = k.rts
          /\ \A a \in Addr \cup {Default} :
                k2.ips[a] = IF k.ips[a] \in unknown THEN NoPk ELSE k.ips[a]
      BY <1>4, <2>1, <2>3 DEF RemoveUnknownPeers, Unrouted
    <2>5. ASSUME NEW v \in Enabled(ps), NEW x \in Needs, Met(x, v, ps, k)
          PROVE  Met(x, v, ps, k2)
      <3>1. ps[v].desc.pk \notin unknown
        BY <2>2, <2>3 DEF EnabledPks
      <3> QED
        BY <1>7, <2>4, <2>5, <3>1 DEF Met
    <2>6. Kept /\ Given(<<>>)
      BY <1>18, <1>22, <2>5
    <2> QED
      BY <1>10, <2>1, <2>6 DEF Continue
  <1>23. CASE c.op = "list_routes" /\ DoListRoutes("dbus")
    <2>1. PICK x : x = [op |-> "del_routes",
                        dests |-> routes \ UNION {Routes(peers[v]) :
                                                    v \in Enabled(peers)},
                        gw |-> gw_routes]
      OBVIOUS
    <2>2. routes \subseteq Addr /\ gw_routes \in BOOLEAN
      BY DEF DInv, KernelTypeOK
    <2>3. /\ x \in Calls /\ x.op = "del_routes" /\ x.gw = k.gw
          /\ x.dests = k.rts \ UNION {Routes(ps[v]) : v \in Enabled(ps)}
      BY <1>1, <1>4, <2>1, <2>2, CallTypes
    <2>4. /\ Apt(x, ps) /\ Fits(x, k)
          /\ \A v \in Enabled(ps) : ~Harms(x, v, ps)
      BY <2>3 DEF Apt, Fits, Harms
    <2> QED
      BY <1>12, <1>18, <1>23, <2>1, <2>3, <2>4 DEF DoListRoutes, R
  <1>24. CASE c.op = "del_routes" /\ DoDelRoutes("dbus", c.dests, c.gw)
    <2> DEFINE no_gateway == c.gw /\ EnabledGateways(peers) = {}
    <2>1. c.dests \subseteq routes /\ (c.gw => gw_routes)
      BY <1>4, <1>5, <1>24 DEF Fits
    <2>2. DelRoutes(c.dests, no_gateway) /\ Continue("dbus", R) /\ UNCHANGED evars
      BY <1>24, <2>1 DEF DoDelRoutes, DelRoutesFails, R
    <2>3. /\ k2.wg = k.wg /\ k2.ips = k.ips /\ k2.rts = k.rts \ c.dests
          /\ k2.gw = (k.gw /\ ~no_gateway)
      BY <1>4, <2>2 DEF DelRoutes
    <2>4. ASSUME NEW v \in Enabled(ps), NEW x \in Needs, Met(x, v, ps, k),
                 ~Harms(c, v, ps)
          PROVE  Met(x, v, ps, k2)
      <3>1. c.dests \cap Routes(ps[v]) = {}
        BY <1>24, <2>4 DEF Harms
      <3>2. ps[v].use_as_gateway => ~no_gateway
        BY <1>1, <1>7 DEF EnabledGateways, FlaggedAsGateway
      <3> QED
        BY <2>3, <2>4, <3>1, <3>2 DEF Met
    <2>5. Kept /\ Given(<<>>)
      BY <1>18, <1>24, <2>4
    <2> QED
      BY <1>10, <2>2, <2>5 DEF Continue
  <1>25. CASE c.op = "sync" /\ DoSync("dbus")
    <2>1. PICK order \in SetToSeqs(Known(peers)) :
             Continue("dbus", SyncCalls(order) \o R)
      BY <1>25 DEF DoSync, SyncCalls, R
    <2>2. PICK new : new = SyncCalls(order)
      OBVIOUS
    <2> DEFINE S == {SyncPeer(v) : v \in Known(ps)} \cup {Catch, Call("remove_unknown")}
    <2>3. new \in Seq(S) /\ \A v \in Known(ps) : SyncPeer(v) \in Elems(new)
      BY <1>1, <2>2, SyncCallsType DEF DInv, IInv, TableOK
    <2>4. S \subseteq Calls
      BY CallTypes DEF Known, Catch, PlainOps
    <2>5. \A x \in S : /\ x.op \in {"sync_peer", "catch", "remove_unknown"}
                       /\ x.op = "sync_peer" => x.vk \in Known(ps)
      BY CallNames DEF Catch
    <2>6. \A x \in S : /\ Apt(x, ps) /\ Fits(x, k2) /\ x.op \notin Once
                       /\ \A v : ~Harms(x, v, ps)
      <3> HIDE DEF S
      <3> QED
        BY <2>5 DEF Apt, Fits, Once, Harms
    <2> HIDE DEF S
    <2>7. /\ new \in Seq(Calls) /\ \A i \in 1..Len(new) : new[i] \in S
          /\ \A i \in 2..Len(new) : i \in 1..Len(new)
          /\ new # <<>> => 1 \in 1..Len(new)
      BY <2>3, <2>4
    <2>8. Fine(new) /\ Harmless(new)
      BY <2>6, <2>7, Zenon
    <2>9. WgQuery /\ UNCHANGED evars
      BY <1>25 DEF DoSync
    <2>10. k2 = k
      BY <1>1, <2>9 DEF WgQuery, kernel, Kern
    <2>11. ASSUME NEW v \in Enabled(ps), NEW x \in Needs
           PROVE  \E i \in 1..Len(new) : Brings(x, new[i], v, ps, k2)
      <3>1. SyncPeer(v) \in Elems(new)
        BY <1>7, <2>3
      <3>2. PICK i \in 1..Len(new) : new[i] = SyncPeer(v)
        BY <3>1 DEF Elems
      <3> QED
        BY <3>2, CallNames DEF Brings, Renews
    <2>12. Given(new)
      BY <2>11
    <2>13. todo' = [todo EXCEPT !["dbus"] = Resumed(new \o R)]
      BY <2>1, <2>2 DEF Continue
    <2> QED
      BY <1>9, <1>11, <2>7, <2>8, <2>9, <2>10, <2>12, <2>13
  \* The other calls change neither the table nor the kernel.
  <1>26. ASSUME UNCHANGED <<evars, kvars>>,
                c.op \in Neutral \cup {"get_new_system_state"},
                todo' = [todo EXCEPT !["dbus"] = Resumed(R)]
         PROVE  Goal1
    <2>1. k2 = k /\ UNCHANGED evars
      BY <1>6, <1>26
    <2>2. Given(<<>>)
      BY <1>18, <1>26 DEF Neutral, Goal
    <2> QED
      BY <1>10, <1>11, <1>26, <2>1, <2>2
  <1>27. CASE c.op = "get_new_system_state" /\ DoGetNewSystemState("dbus")
    BY <1>26, <1>27 DEF DoGetNewSystemState, Continue, R
  <1>28. CASE c.op = "start_monitor" /\ DoStartMonitor("dbus")
    BY <1>26, <1>28 DEF DoStartMonitor, R, Neutral
  <1>29. CASE c.op \in Goal /\ DoNothing("dbus")
    BY <1>26, <1>29 DEF DoNothing, Continue, R, Neutral
  <1>30. c.op # "adopt" /\ "dbus" \in Thread
    BY <1>5 DEF Apt, Thread
  <1> QED
    BY <1>2, <1>5, <1>13, <1>14, <1>15, <1>16, <1>17, <1>19, <1>20, <1>21, <1>22,
       <1>23, <1>24, <1>25, <1>27, <1>28, <1>29, <1>30, DoCases

-----------------------------------------------------------------------------
(* The work that an event leaves *)

\* Work that syncs after it has done harm.
LEMMA SyncedWork ==
    ASSUME NEW ps, NEW k, NEW new \in Seq(WorkCalls), NEW r \in Seq(Calls),
           \A i \in 1..Len(new) : Apt(new[i], ps),
           r # <<>>, r[1].op = "sync",
           \A i \in 1..Len(r) : r[i].op \in Neutral \cup {"sync"}
    PROVE  Work(new \o r, ps, k)
  <1> DEFINE w == new \o r
             n == Len(new)
  <1>1. /\ n \in Nat /\ Len(w) = n + Len(r) /\ Len(r) \in Nat /\ Len(r) >= 1
        /\ \A i \in 1..n : w[i] = new[i]
    OBVIOUS
  <1>2. ASSUME NEW i \in 1..Len(w), i \notin 1..n
        PROVE  i - n \in 1..Len(r) /\ w[i] = r[i - n]
    <2>1. \A j \in 1..Len(r) : w[n + j] = r[j]
      OBVIOUS
    <2>2. i - n \in 1..Len(r) /\ n + (i - n) = i
      BY <1>1, <1>2
    <2> QED
      BY <2>1, <2>2
  <1>3. n + 1 \in 1..Len(w) /\ n + 1 \notin 1..n /\ (n + 1) - n = 1
    BY <1>1
  <1>4. w[n + 1].op = "sync"
    BY <1>2, <1>3
  <1>5. \A i \in 1..n : new[i] \in WorkCalls
    OBVIOUS
  <1> HIDE DEF w, n
  <1>6. ASSUME NEW i \in 1..Len(w)
        PROVE  Apt(w[i], ps) /\ w[i].op \notin Once
    <2>1. CASE i \in 1..n
      BY <1>1, <1>5, <2>1 DEF n, WorkCalls, Once
    <2>2. CASE i \notin 1..n
      <3>1. w[i].op \in Neutral \cup {"sync"}
        BY <1>2, <2>2
      <3> QED
        BY <3>1 DEF Apt, Once, Neutral, Goal
    <2> QED
      BY <2>1, <2>2
  <1>7. w # <<>> => Fits(w[1], k)
    <2>1. 1 \in 1..Len(w)
      BY <1>1
    <2>2. w[1].op \notin Once
      BY <1>6, <2>1
    <2> QED
      BY <2>2 DEF Fits, Once
  <1>8. ASSUME NEW v, NEW i \in 1..Len(w), Harms(w[i], v, ps)
        PROVE  \E j \in i + 1..Len(w) : Renews(w[j], v)
    <2>1. CASE i \in 1..n
      <3>1. n + 1 \in i + 1..Len(w)
        BY <1>1, <2>1
      <3> QED
        BY <1>4, <3>1 DEF Renews
    <2>2. CASE i \notin 1..n
      <3>1. w[i].op \in Neutral \cup {"sync"}
        BY <1>2, <2>2
      <3> QED
        BY <1>8, <3>1 DEF Harms, Neutral, Goal
    <2> QED
      BY <2>1, <2>2
  <1>9. \A v, x : Brings(x, w[n + 1], v, ps, k)
    BY <1>4 DEF Brings, Renews
  <1>10. \A i \in 2..Len(w) : i \in 1..Len(w)
    BY <1>1
  <1> QED
    BY <1>3, <1>6, <1>7, <1>8, <1>9, <1>10 DEF Work, w

-----------------------------------------------------------------------------
(* What an event changes in the table *)

\* The event accepts or edits peer v: nothing happens to the other peers but
\* that an accepted one evicts some.
Touches(v) ==
    /\ system_state' = system_state
    /\ result'.sync \subseteq {v} \cap Known(peers')
    /\ \A u \in Vk \ {v} :
          \/ peers'[u] = peers[u]
          \/ result'.event = "INCOMING_DESCRIPTOR" /\ peers'[u] = NoPeer
    /\ v \in result'.sync \/ peers'[v] \in {peers[v], NoPeer}
    /\ result'.error => peers' = peers
    /\ result'.event = "USER_PEER_ADDR_DEL" /\ v \in result'.sync =>
          /\ v \in Known(peers) /\ peers'[v].desc = peers[v].desc
          /\ \E a \in peers[v].on \cup peers[v].off :
                /\ peers'[v].on = peers[v].on \ {a}
                /\ peers'[v].off = peers[v].off \ {a}

\* An event that leaves the table as it is.
LEMMA NothingTouched ==
    ASSUME NEW v, peers' = peers, system_state' = system_state, result'.sync = {}
    PROVE  Touches(v)
  BY DEF Touches

\* An event that fails, or writes nothing.
LEMMA AbortTouches ==
    ASSUME NEW v, NEW e, Abort(e) \/ NoWrites(e)
    PROVE  Touches(v)
  BY NothingTouched DEF Abort, NoWrites

\* An event that writes one peer.
LEMMA WriteTouches ==
    ASSUME IInv, ~SaveFaults, NEW e, NEW v \in Vk, NEW r, NEW sync,
           sync = {v} \/ (sync = {} /\ r = NoPeer),
           ValidatePeers(e, [peers EXCEPT ![v] = r], sync),
           e = "USER_PEER_ADDR_DEL" =>
              /\ v \in Known(peers) /\ r.desc = peers[v].desc
              /\ \E a \in peers[v].on \cup peers[v].off :
                    r.on = peers[v].on \ {a} /\ r.off = peers[v].off \ {a}
    PROVE  Touches(v)
  <1>1. PICK ps : ps = [peers EXCEPT ![v] = r]
    OBVIOUS
  <1>2. ps[v] = r /\ \A u \in Vk \ {v} : ps[u] = peers[u]
    BY <1>1 DEF IInv, TableOK, Peers
  <1>3. CASE Abort(e)
    BY <1>3, AbortTouches
  <1>4. CASE /\ peers' = ps /\ system_state' = system_state
             /\ result' = [event |-> e, error |-> FALSE, sync |-> sync \cap Known(ps)]
    <2>1. /\ result'.event = e /\ result'.error = FALSE
          /\ result'.sync = sync \cap Known(ps)
      BY <1>4
    <2>2. v \in result'.sync \/ peers'[v] = NoPeer
      BY <1>2, <1>4, <2>1 DEF Known
    <2> QED
      BY <1>2, <1>4, <2>1, <2>2 DEF Touches
  <1> QED
    BY <1>1, <1>3, <1>4 DEF ValidatePeers, Validate

\* An edit of a peer.
LEMMA EditTouches ==
    ASSUME IInv, ~SaveFaults, NEW e, e # "USER_PEER_ADDR_DEL", NEW v \in Vk, NEW q,
           EditPeer(e, v, q)
    PROVE  Touches(v)
  BY AbortTouches, WriteTouches DEF EditPeer

\* A descriptor that is accepted.
LEMMA AcceptTouches ==
    ASSUME IInv, ~SaveFaults, NEW d \in Descs, AcceptDescriptor(d)
    PROVE  Touches(d.vk)
  <1> DEFINE ps == [v \in Vk |->
                      IF v = d.vk THEN Updated(WithDescriptor(d))
                      ELSE IF v \in ConflictsForDescriptor(peers, d) THEN NoPeer
                      ELSE peers[v]]
             e == "INCOMING_DESCRIPTOR"
  <1>1. ValidatePeers(e, ps, {d.vk})
    BY DEF AcceptDescriptor
  <1>2. \A u \in Vk \ {d.vk} : ps[u] = peers[u] \/ ps[u] = NoPeer
    OBVIOUS
  <1> HIDE DEF ps
  <1>3. CASE Abort(e)
    BY <1>3, AbortTouches
  <1>4. CASE /\ peers' = ps /\ system_state' = system_state
             /\ result' = [event |-> e, error |-> FALSE, sync |-> {d.vk} \cap Known(ps)]
    <2>1. /\ result'.event = e /\ result'.error = FALSE
          /\ result'.sync = {d.vk} \cap Known(ps)
      BY <1>4
    <2>2. d.vk \in result'.sync \/ peers'[d.vk] \in {peers[d.vk], NoPeer}
      <3>1. d.vk \in Vk
        BY ConstantTypes DEF Descriptor
      <3> QED
        BY <1>4, <2>1, <3>1 DEF Known
    <2> QED
      BY <1>2, <1>4, <2>1, <2>2 DEF Touches
  <1> QED
    BY <1>1, <1>3, <1>4 DEF ValidatePeers, Validate

\* Whatever the main loop handles touches one peer at most.
LEMMA EventTouches ==
    ASSUME IInv, ~SaveFaults,
           (\E d \in Descs : AcceptDescriptor(d) \/ RejectDescriptor(d)) \/ Command
    PROVE  \E v : Touches(v)
  <1>1. ASSUME NEW d \in Descs, AcceptDescriptor(d) \/ RejectDescriptor(d)
        PROVE  \E v : Touches(v)
    BY <1>1, AcceptTouches, AbortTouches DEF RejectDescriptor
  <1>2. ASSUME NEW v \in Vk, NEW field, NEW b, SetFlag(v, field, b)
        PROVE  Touches(v)
    <2>1. PICK q : EditPeer("USER_EDIT", v, q)
      BY <1>2 DEF SetFlag
    <2> QED
      BY <2>1, EditTouches
  <1>3. ASSUME NEW v \in Vk, NEW h, VerifyAndPinPeer(v, h)
        PROVE  Touches(v)
    <2>1. CASE Abort("VERIFY_AND_PIN_PEER")
      BY <2>1, AbortTouches
    <2>2. CASE \E r : ValidatePeers("VERIFY_AND_PIN_PEER",
                                    [peers EXCEPT ![v] = r], {v})
      BY <2>2, WriteTouches
    <2> QED
      BY <1>3, <2>1, <2>2 DEF VerifyAndPinPeer
  <1>4. ASSUME NEW v \in Vk, NEW a, UserPeerAddrAdd(v, a)
        PROVE  Touches(v)
    <2>1. CASE NoWrites("USER_PEER_ADDR_ADD")
      BY <2>1, AbortTouches
    <2>2. CASE ValidatePeers("USER_PEER_ADDR_ADD",
                  [peers EXCEPT ![v].on = @ \cup {a}, ![v].off = @ \ {a}], {v})
      <3>1. PICK r : r = [peers[v] EXCEPT !.on = @ \cup {a}, !.off = @ \ {a}]
        OBVIOUS
      <3>2. [peers EXCEPT ![v].on = @ \cup {a}, ![v].off = @ \ {a}]
              = [peers EXCEPT ![v] = r]
        BY <3>1 DEF IInv, TableOK, Peers
      <3> QED
        BY <2>2, <3>2, WriteTouches
    <2> QED
      BY <1>4, <2>1, <2>2 DEF UserPeerAddrAdd
  <1>5. ASSUME NEW v \in Vk, NEW a, UserPeerAddrDel(v, a)
        PROVE  Touches(v)
    <2>1. CASE NoWrites("USER_PEER_ADDR_DEL") \/ Abort("USER_PEER_ADDR_DEL")
      BY <2>1, AbortTouches
    <2>2. CASE /\ v \in Known(peers)
               /\ a \in peers[v].on \cup peers[v].off
               /\ ValidatePeers("USER_PEER_ADDR_DEL",
                     [peers EXCEPT ![v].on = @ \ {a}, ![v].off = @ \ {a}], {v})
      <3>1. PICK r : r = [peers[v] EXCEPT !.on = @ \ {a}, !.off = @ \ {a}]
        OBVIOUS
      <3>2. [peers EXCEPT ![v].on = @ \ {a}, ![v].off = @ \ {a}]
              = [peers EXCEPT ![v] = r]
        BY <3>1 DEF IInv, TableOK, Peers
      <3>3. /\ r.desc = peers[v].desc
            /\ r.on = peers[v].on \ {a} /\ r.off = peers[v].off \ {a}
        <4>1. peers[v] \in Peer
          BY <2>2, KnownOK DEF PeerOK
        <4> QED
          BY <3>1, <4>1 DEF Peer
      <3> QED
        BY <2>2, <3>2, <3>3, WriteTouches
    <2> QED
      BY <1>5, <2>1, <2>2 DEF UserPeerAddrDel
  <1>6. ASSUME NEW key \in Vk, UserRemovePeer(key)
        PROVE  \E v : Touches(v)
    <2>1. CASE NoWrites("USER_REMOVE_PEER") \/ Abort("USER_REMOVE_PEER")
      BY <2>1, AbortTouches
    <2>2. ASSUME NEW hit \in Query(peers, key),
                 ValidatePeers("USER_REMOVE_PEER",
                               [peers EXCEPT ![hit[1]] = NoPeer], {})
          PROVE  Touches(hit[1])
      <3>1. hit[1] \in Vk
        BY DEF Query, WithIp, Enabled, Known
      <3> QED
        BY <2>2, <3>1, WriteTouches
    <2> QED
      BY <1>6, <2>1, <2>2 DEF UserRemovePeer
  <1>7. CASE ReleaseGateway
    <2>1. ASSUME NEW v \in FlaggedAsGateway(peers), NEW q,
                 EditPeer("RELEASE_GATEWAY", v, q)
          PROVE  Touches(v)
      <3>1. v \in Vk
        BY DEF FlaggedAsGateway, Known
      <3> QED
        BY <2>1, <3>1, EditTouches
    <2> QED
      BY <1>7, <2>1, AbortTouches DEF ReleaseGateway
  <1>8. ASSUME NEW sn, EditSubnetsAllowed(sn)
        PROVE  \E v : Touches(v)
    <2>1. PICK pf : EditPrefs(pf)
      BY <1>8 DEF EditSubnetsAllowed
    <2>2. /\ peers' = peers /\ system_state' = system_state /\ result'.sync = {}
      BY <2>1 DEF EditPrefs, Validate, Abort
    <2> QED
      BY <2>2, NothingTouched
  <1> QED
    BY <1>1, <1>2, <1>3, <1>4, <1>5, <1>6, <1>7, <1>8, Zenon DEF Command

\* The triggers of an event: their calls, that those for every peer are among
\* them, and that those for a peer that is accepted come last.
LEMMA TriggersForm ==
    ASSUME NEW X, Catch \in X, FurtherCalls \in Seq(X),
           \A u \in Touched : PeerCalls(u) \in Seq(X),
           NEW calls \in Triggers, ~result'.error
    PROVE  /\ calls \in Seq(X)
           /\ \A u \in Touched : Elems(PeerCalls(u)) \subseteq Elems(calls)
           /\ \A v \in Vk :
                 /\ result'.event = "INCOMING_DESCRIPTOR"
                 /\ result'.sync = {v} /\ ~Gone(v)
                 => \E pre \in Seq(X) : calls = pre \o <<SyncPeer(v), Catch>>
  <1>1. PICK order \in VisitOrders :
           calls = Protected(FlattenSeq([i \in DOMAIN order |-> PeerCalls(order[i])])
                               \o FurtherCalls)
    BY DEF Triggers
  <1>2. PICK ss, flat, further :
           /\ ss = [i \in DOMAIN order |-> PeerCalls(order[i])]
           /\ flat = FlattenSeq(ss)
           /\ further = FurtherCalls
    OBVIOUS
  <1>3. order \in Seq(Touched) /\ Elems(order) = Touched
    <2>1. IsFiniteSet(Touched)
      BY BoundTypes, FS_Subset DEF Touched
    <2>2. order \in SetToSeqs(Touched)
      BY DEF VisitOrders
    <2> QED
      BY <2>1, <2>2, OrdersOfSet
  <1>4. ss \in Seq(Seq(X)) /\ Len(ss) = Len(order)
    <2>1. DOMAIN order = 1..Len(order) /\ Len(order) \in Nat
      BY <1>3
    <2>2. \A i \in 1..Len(order) : PeerCalls(order[i]) \in Seq(X)
      BY <1>3
    <2>3. ss \in [1..Len(order) -> Seq(X)]
      BY <1>2, <2>1, <2>2
    <2> QED
      BY <2>1, <2>3
  <1>5. /\ flat \in Seq(X)
        /\ Elems(flat) = UNION {Elems(ss[i]) : i \in 1..Len(ss)}
    <2>1. /\ FlattenSeq(ss) \in Seq(X)
          /\ Elems(FlattenSeq(ss)) = UNION {Elems(ss[i]) : i \in 1..Len(ss)}
      BY <1>4, FlattenElems
    <2> QED
      BY <1>2, <2>1, Zenon
  <1>6. flat \o further \in Seq(X) /\ calls = Protected(flat \o further)
    BY <1>1, <1>2, <1>5
  <1>7. calls \in Seq(X) /\ Elems(flat \o further) \subseteq Elems(calls)
    BY <1>6, ProtectedType
  <1>8. ASSUME NEW u \in Touched
        PROVE  Elems(PeerCalls(u)) \subseteq Elems(calls)
    <2>1. PICK i \in 1..Len(order) : order[i] = u
      BY <1>3 DEF Elems
    <2>2. i \in DOMAIN order /\ i \in 1..Len(ss)
      BY <1>3, <1>4
    <2>3. ss[i] = PeerCalls(u)
      BY <1>2, <2>1, <2>2
    <2>4. Elems(PeerCalls(u)) \subseteq Elems(flat)
      BY <1>5, <2>2, <2>3, Zenon
    <2>5. Elems(flat) \subseteq Elems(flat \o further)
      <3>1. further \in Seq(X)
        BY <1>2
      <3>2. Elems(flat \o further) = Elems(flat) \cup Elems(further)
        BY <1>5, <3>1, ElemsConcat
      <3> QED
        BY <3>2
    <2> QED
      BY <1>7, <2>4, <2>5
  <1>9. ASSUME NEW v \in Vk, result'.event = "INCOMING_DESCRIPTOR",
               result'.sync = {v}, ~Gone(v)
        PROVE  \E pre \in Seq(X) : calls = pre \o <<SyncPeer(v), Catch>>
    <2>1. v \in Touched /\ \A u \in Touched \ {v} : Gone(u)
      BY <1>9 DEF Touched
    <2>2. PICK j \in 1..Len(order) : order[j] = v
      BY <1>3, <2>1 DEF Elems
    <2>3. \A i \in 1..Len(order) : order[i] = v => i = j
      <3>1. order \in SetToSeqs(Touched)
        BY DEF VisitOrders
      <3>2. PICK n : n = Cardinality(Touched)
        OBVIOUS
      <3>3. /\ order \in [1..n -> Touched]
            /\ \A i, k \in 1..n : i # k => order[i] # order[k]
        BY <3>1, <3>2 DEF SetToSeqs
      <3>4. 1..Len(order) = 1..n
        BY <1>3, <3>3
      <3> QED
        BY <2>2, <3>3, <3>4, Zenon
    <2>4. \A i \in 1..Len(order) : i # j => i < j
      <3>1. ASSUME NEW i \in 1..Len(order), i # j PROVE i < j
        <4>1. order[i] \in Touched \ {v}
          BY <1>3, <2>3, <3>1
        <4>2. Gone(order[i]) /\ ~Gone(order[j])
          BY <1>9, <2>1, <2>2, <4>1
        <4> QED
          BY <1>3, <1>9, <4>2 DEF VisitOrders
      <3> QED
        BY <3>1
    <2>5. j = Len(order) /\ Len(ss) # 0
      <3>1. Len(order) \in Nat
        BY <1>3
      <3> QED
        BY <1>4, <2>2, <2>4, <3>1
    <2>6. ss[Len(ss)] = <<SyncPeer(v)>>
      <3>1. PeerCalls(v) = <<SyncPeer(v)>>
        BY <1>9 DEF PeerCalls
      <3>2. j \in DOMAIN order
        BY <1>3, <2>2
      <3> QED
        BY <1>2, <1>4, <2>2, <2>5, <3>1, <3>2
    <2>7. PICK pre1 \in Seq(X) : flat = pre1 \o <<SyncPeer(v)>>
      BY <1>2, <1>4, <2>5, <2>6, FlattenLast
    <2>8. SyncPeer(v) \in X
      <3>1. <<SyncPeer(v)>> \in Seq(X)
        <4>1. Len(ss) \in 1..Len(ss)
          BY <1>4, <2>2, <2>5
        <4>2. ss[Len(ss)] \in Seq(X)
          BY <1>4, <4>1
        <4> QED
          BY <2>6, <4>2
      <3>2. Len(<<SyncPeer(v)>>) = 1 /\ <<SyncPeer(v)>>[1] = SyncPeer(v)
        OBVIOUS
      <3> QED
        BY <3>1, <3>2
    <2>9. Len(flat) = Len(pre1) + 1 /\ flat[Len(flat)] = SyncPeer(v)
      BY <2>7, <2>8
    <2>10. flat \o further = flat
      <3>1. further = <<>>
        BY <1>2, <1>9 DEF FurtherCalls
      <3> QED
        BY <1>5, <3>1
    <2>11. PICK pp : pp = [i \in DOMAIN flat |-> <<flat[i], Catch>>]
      OBVIOUS
    <2>12. pp \in Seq(Seq(X)) /\ Len(pp) = Len(flat)
      <3>1. DOMAIN flat = 1..Len(flat) /\ Len(flat) \in Nat
        BY <1>5
      <3>2. \A i \in 1..Len(flat) : <<flat[i], Catch>> \in Seq(X)
        BY <1>5
      <3>3. pp \in [1..Len(flat) -> Seq(X)]
        BY <2>11, <3>1, <3>2
      <3> QED
        BY <3>1, <3>3
    <2>13. calls = FlattenSeq(pp)
      BY <1>6, <2>10, <2>11 DEF Protected
    <2>14. Len(pp) # 0 /\ pp[Len(pp)] = <<SyncPeer(v), Catch>>
      <3>1. Len(flat) \in DOMAIN flat /\ Len(flat) # 0
        BY <1>5, <2>7, <2>8, <2>9
      <3> QED
        BY <2>9, <2>11, <2>12, <3>1
    <2> QED
      BY <2>12, <2>13, <2>14, FlattenLast
  <1> QED
    BY <1>7, <1>8, <1>9

\* The calls among the triggers of an event that are no obstacle to its work.
EventCalls ==
    {c \in TriggerCalls :
        /\ Apt(c, peers')
        /\ \A w \in Enabled(peers') : Harms(c, w, peers') =>
              /\ result'.event = "INCOMING_DESCRIPTOR"
              /\ w \in result'.sync}

\* What happens to a peer that is enabled after the event.
LEMMA TouchedOrKept ==
    ASSUME NEW v, Touches(v), NEW w \in Enabled(peers')
    PROVE  /\ w \in Vk /\ w \in Known(peers')
           /\ \/ w \in result'.sync /\ w = v
              \/ /\ w \notin result'.sync /\ peers'[w] = peers[w]
                 /\ w \in Known(peers) /\ w \in Enabled(peers)
  <1>1. w \in Vk /\ peers'[w] # NoPeer /\ peers'[w].enabled /\ w \in Known(peers')
    BY DEF Enabled, Known
  <1>2. CASE w \in result'.sync
    BY <1>1, <1>2 DEF Touches
  <1>3. CASE w \notin result'.sync
    <2>1. peers'[w] = peers[w]
      BY <1>1, <1>3 DEF Touches
    <2> QED
      BY <1>1, <1>3, <2>1 DEF Enabled, Known
  <1> QED
    BY <1>2, <1>3, <1>1

\* The calls for the removal of a peer harm at most the one that evicts it.
LEMMA RemovalHarms ==
    ASSUME Separate, NEW v, Touches(v), NEW u \in Vk, Gone(u),
           NEW c \in {RemovePeerCalls(peers[u])[1], RemovePeerCalls(peers[u])[2]},
           NEW w \in Enabled(peers'), Harms(c, w, peers')
    PROVE  result'.event = "INCOMING_DESCRIPTOR" /\ w \in result'.sync
  <1>1. /\ u \in Known(peers) /\ u \notin Known(peers')
        /\ peers'[u] # peers[u]
    BY DEF Gone, Known
  <1>2. /\ w \in Vk /\ w \in Known(peers') /\ w # u
        /\ (w \in result'.sync /\ w = v)
              \/ (peers'[w] = peers[w] /\ w \in Known(peers))
    BY <1>1, TouchedOrKept
  <1>3. \/ peers[u].desc.pk = peers'[w].desc.pk
        \/ Routes(peers[u]) \cap Routes(peers'[w]) # {}
    <2>1. CASE c = [op |-> "remove_wg_peer", pk |-> peers[u].desc.pk]
      BY <2>1 DEF Harms
    <2>2. CASE c = [op |-> "remove_routes", dests |-> Routes(peers[u])]
      BY <2>2 DEF Harms
    <2> QED
      BY <2>1, <2>2 DEF RemovePeerCalls
  <1>4. CASE w \in result'.sync /\ w = v
    <2>1. result'.event = "INCOMING_DESCRIPTOR"
      BY <1>1, <1>2, <1>4 DEF Touches
    <2> QED
      BY <1>4, <2>1
  <1>5. CASE peers'[w] = peers[w] /\ w \in Known(peers)
    <2>1. /\ peers[u].desc.pk # peers[w].desc.pk
          /\ AllIps(peers[u]) \cap AllIps(peers[w]) = {}
      BY <1>1, <1>2, <1>5 DEF Separate
    <2>2. Routes(peers[u]) \cap Routes(peers[w]) = {}
      BY <2>1 DEF Routes, EnabledIps, AllIps
    <2> QED
      BY <1>3, <1>5, <2>1, <2>2
  <1> QED
    BY <1>2, <1>4, <1>5

\* The calls for a peer that the event touches.
LEMMA PeerCallsWork ==
    ASSUME DInv, IInv', Separate, NEW v, Touches(v), NEW u \in Touched
    PROVE  /\ PeerCalls(u) \in Seq(EventCalls)
           /\ ~Gone(u) => SyncPeer(u) \in Elems(PeerCalls(u))
  <1>0. ASSUME NEW s \in Seq(WorkCalls), Len(s) = 2
        PROVE  s[1] \in WorkCalls /\ s[2] \in WorkCalls
    BY <1>0
  <1>1. u \in Vk /\ (~Gone(u) => u \in result'.sync /\ u \in Known(peers') /\ u = v)
    BY DEF Touched, Touches
  <1>2. PeerCalls(u) \in Seq(WorkCalls)
    <2>1. result'.event = "USER_PEER_ADDR_DEL" => result'.sync \subseteq Known(peers)
      BY DEF Touches
    <2> QED
      BY <2>1, PeerCallsType DEF DInv
  <1>3. ~Gone(u) => SyncPeer(u) \in EventCalls
    <2> SUFFICES ASSUME ~Gone(u) PROVE SyncPeer(u) \in EventCalls
      OBVIOUS
    <2>1. SyncPeer(u) \in TriggerCalls
      BY <1>1, CallTypes DEF TriggerCalls, WorkCalls, SyncPeer
    <2>2. SyncPeer(u).op = "sync_peer" /\ SyncPeer(u).vk = u
      BY DEF SyncPeer
    <2> QED
      BY <1>1, <2>1, <2>2 DEF EventCalls, Apt, Harms
  <1>4. Call("remove_unknown") \in EventCalls
    <2>1. Call("remove_unknown") \in TriggerCalls
      BY CallTypes DEF TriggerCalls, WorkCalls, Call, PlainOps
    <2>2. Call("remove_unknown").op = "remove_unknown"
      BY DEF Call
    <2> QED
      BY <2>1, <2>2 DEF EventCalls, Apt, Harms
  <1>5. CASE Gone(u)
    <2> DEFINE c1 == [op |-> "remove_wg_peer", pk |-> peers[u].desc.pk]
               c2 == [op |-> "remove_routes", dests |-> Routes(peers[u])]
    <2>1. PeerCalls(u) = <<c1, c2>> /\ RemovePeerCalls(peers[u]) = <<c1, c2>>
      BY <1>5 DEF PeerCalls, RemovePeerCalls
    <2>2. c1 \in TriggerCalls /\ c2 \in TriggerCalls
      <3>1. PeerCalls(u)[1] \in WorkCalls /\ PeerCalls(u)[2] \in WorkCalls
        <4>1. PICK s : s = PeerCalls(u)
          OBVIOUS
        <4>2. s \in Seq(WorkCalls) /\ Len(s) = 2
          BY <1>2, <2>1, <4>1
        <4>3. s[1] \in WorkCalls /\ s[2] \in WorkCalls
          BY <4>2
        <4> QED
          BY <4>1, <4>3
      <3> QED
        BY <2>1, <3>1 DEF TriggerCalls
    <2>3. Apt(c1, peers') /\ Apt(c2, peers')
      BY DEF Apt
    <2>4. /\ c1 \in {RemovePeerCalls(peers[u])[1], RemovePeerCalls(peers[u])[2]}
          /\ c2 \in {RemovePeerCalls(peers[u])[1], RemovePeerCalls(peers[u])[2]}
      BY <2>1
    <2> HIDE DEF c1, c2
    <2>5. c1 \in EventCalls /\ c2 \in EventCalls
      BY <1>1, <1>5, <2>2, <2>3, <2>4, RemovalHarms DEF EventCalls
    <2> QED
      BY <1>5, <2>1, <2>5
  <1>6. CASE ~Gone(u) /\ result'.event = "USER_PEER_ADDR_DEL"
    <2> DEFINE ds == (peers[u].on \ peers'[u].on)
                        \cup (peers[u].off \ peers'[u].off)
               c == [op |-> "remove_routes", dests |-> ds]
    <2>1. PeerCalls(u) = <<SyncPeer(u), c>>
      BY <1>6 DEF PeerCalls
    <2>2. PICK a \in peers[u].on \cup peers[u].off :
             /\ u \in Known(peers) /\ peers'[u].desc = peers[u].desc
             /\ peers'[u].on = peers[u].on \ {a}
             /\ peers'[u].off = peers[u].off \ {a}
      BY <1>1, <1>6 DEF Touches
    <2>3. ds \subseteq {a}
      BY <2>2
    <2>4. c \in TriggerCalls
      <3>1. PeerCalls(u)[2] \in WorkCalls
        <4>1. PICK s : s = PeerCalls(u)
          OBVIOUS
        <4>2. s \in Seq(WorkCalls)
          BY <1>2, <4>1
        <4>3. Len(s) = 2
          BY <2>1, <4>1
        <4>4. s[2] \in WorkCalls
          BY <1>0, <4>2, <4>3
        <4> QED
          BY <4>1, <4>4
      <3> QED
        BY <2>1, <3>1 DEF TriggerCalls
    <2>5. ASSUME NEW w \in Enabled(peers') PROVE ~Harms(c, w, peers')
      <3>1. a \notin Routes(peers'[w])
        <4>1. CASE w = u
          BY <2>2, <4>1 DEF Separate, Routes, EnabledIps
        <4>2. CASE w # u
          <5>1. peers'[w] = peers[w] /\ w \in Known(peers)
            BY <1>1, <1>6, <4>2, TouchedOrKept
          <5>2. AllIps(peers[w]) \cap AllIps(peers[u]) = {}
            BY <2>2, <4>2, <5>1 DEF Separate
          <5> QED
            BY <2>2, <5>1, <5>2 DEF Routes, EnabledIps, AllIps
        <4> QED
          BY <4>1, <4>2
      <3>2. c.op = "remove_routes" /\ c.dests = ds
        OBVIOUS
      <3> HIDE DEF ds, c
      <3> QED
        BY <2>3, <3>1, <3>2 DEF Harms
    <2>6. Apt(c, peers')
      BY DEF Apt
    <2> HIDE DEF ds, c
    <2>7. c \in EventCalls
      BY <2>4, <2>5, <2>6 DEF EventCalls
    <2>8. Len(PeerCalls(u)) = 2 /\ PeerCalls(u)[1] = SyncPeer(u)
      BY <2>1
    <2>9. SyncPeer(u) \in Elems(PeerCalls(u))
      BY <2>8 DEF Elems
    <2> QED
      BY <1>3, <1>6, <2>1, <2>7, <2>9
  <1>7. CASE ~Gone(u) /\ result'.event = "VERIFY_AND_PIN_PEER"
    <2>1. PeerCalls(u) = <<SyncPeer(u), Call("remove_unknown"), SyncPeer(u)>>
      BY <1>7 DEF PeerCalls
    <2>2. Len(PeerCalls(u)) = 3 /\ PeerCalls(u)[1] = SyncPeer(u)
      BY <2>1
    <2>3. SyncPeer(u) \in Elems(PeerCalls(u))
      BY <2>2 DEF Elems
    <2> QED
      BY <1>3, <1>4, <1>7, <2>1, <2>3
  <1>8. CASE /\ ~Gone(u)
             /\ result'.event \notin {"USER_PEER_ADDR_DEL", "VERIFY_AND_PIN_PEER"}
    <2>1. PeerCalls(u) = <<SyncPeer(u)>>
      BY <1>8 DEF PeerCalls
    <2>2. Len(PeerCalls(u)) = 1 /\ PeerCalls(u)[1] = SyncPeer(u)
      BY <2>1
    <2>3. SyncPeer(u) \in Elems(PeerCalls(u))
      BY <2>2 DEF Elems
    <2> QED
      BY <1>3, <1>8, <2>1, <2>3
  <1> QED
    BY <1>5, <1>6, <1>7, <1>8

\* The calls that follow those for the peers.
LEMMA FurtherCallsWork == FurtherCalls \in Seq(EventCalls) /\ Catch \in EventCalls
  <1>1. /\ Call("remove_unknown") \in EventCalls
        /\ Call("get_new_system_state") \in EventCalls
        /\ Catch \in EventCalls
    <2>1. /\ Call("remove_unknown") \in TriggerCalls
          /\ Call("get_new_system_state") \in TriggerCalls
          /\ Catch \in TriggerCalls
      BY CallTypes DEF TriggerCalls, WorkCalls, Call, PlainOps, Catch
    <2>2. /\ Call("remove_unknown").op = "remove_unknown"
          /\ Call("get_new_system_state").op = "get_new_system_state"
          /\ Catch.op = "catch"
      BY DEF Call, Catch
    <2> QED
      BY <2>1, <2>2 DEF EventCalls, Apt, Harms
  <1>2. FurtherCalls \in {<<>>, <<Call("remove_unknown")>>,
            <<Call("get_new_system_state"), Call("remove_unknown")>>,
            <<Call("remove_unknown"), Call("get_new_system_state")>>}
    BY DEF FurtherCalls
  <1>3. /\ <<>> \in Seq(EventCalls)
        /\ <<Call("remove_unknown")>> \in Seq(EventCalls)
        /\ <<Call("get_new_system_state"), Call("remove_unknown")>>
              \in Seq(EventCalls)
        /\ <<Call("remove_unknown"), Call("get_new_system_state")>>
              \in Seq(EventCalls)
    BY <1>1
  <1> QED
    BY <1>1, <1>2, <1>3, Zenon

\* The triggers of an event on a table that the kernel is up with.
LEMMA EventWorks ==
    ASSUME DInv, IInv', Separate, NEW v, Touches(v), UNCHANGED kvars,
           Work(<<>>, peers, Kern), NEW calls \in Triggers
    PROVE  calls \in Seq(Calls) /\ Work(calls, peers', Kern')
  <1>1. Kern' = Kern
    BY DEF kvars, Kern
  <1>2. ASSUME NEW w \in Enabled(peers'), NEW x \in Needs, w \notin result'.sync
        PROVE  Met(x, w, peers', Kern')
    <2>1. peers'[w] = peers[w] /\ w \in Enabled(peers)
      BY <1>2, TouchedOrKept
    <2>2. Met(x, w, peers, Kern)
      BY <2>1 DEF Work
    <2> QED
      BY <1>1, <2>1, <2>2 DEF Met
  <1>3. CASE result'.error
    <2>1. calls = <<>>
      BY <1>3 DEF Triggers
    <2>2. Work(<<>>, peers', Kern')
      <3>1. peers' = peers
        BY <1>3 DEF Touches
      <3> QED
        BY <1>1, <3>1
    <2> QED
      BY <2>1, <2>2
  <1>4. CASE ~result'.error
    <2>1. PICK X : X = EventCalls
      OBVIOUS
    <2>2. /\ Catch \in X /\ FurtherCalls \in Seq(X)
          /\ \A u \in Touched : PeerCalls(u) \in Seq(X)
      BY <2>1, FurtherCallsWork, PeerCallsWork
    <2>3. /\ calls \in Seq(X)
          /\ \A u \in Touched : Elems(PeerCalls(u)) \subseteq Elems(calls)
          /\ \A u \in Vk :
                /\ result'.event = "INCOMING_DESCRIPTOR"
                /\ result'.sync = {u} /\ ~Gone(u)
                => \E pre \in Seq(X) : calls = pre \o <<SyncPeer(u), Catch>>
      BY <1>4, <2>2, TriggersForm
    <2>4. PICK ps, k2 : ps = peers' /\ k2 = Kern'
      OBVIOUS
    <2>5. ASSUME NEW i \in 1..Len(calls)
          PROVE  /\ calls[i] \in Calls
                 /\ Apt(calls[i], ps)
                 /\ calls[i].op \notin Once
                 /\ \A w \in Enabled(ps) : Harms(calls[i], w, ps) =>
                       result'.event = "INCOMING_DESCRIPTOR" /\ w \in result'.sync
      <3>1. calls[i] \in EventCalls
        BY <2>1, <2>3
      <3>2. calls[i] \in TriggerCalls
        BY <3>1 DEF EventCalls
      <3>3. calls[i] \in Calls /\ calls[i].op \notin Once
        <4>1. Call("get_new_system_state") \in Calls
                 /\ Call("get_new_system_state").op = "get_new_system_state"
          BY CallTypes DEF PlainOps, Call
        <4> QED
          BY <3>2, <4>1 DEF TriggerCalls, WorkCalls, Once
      <3> QED
        BY <2>4, <3>1, <3>3 DEF EventCalls
    <2>6. calls \in Seq(Calls)
      <3>1. X \subseteq Calls
        <4>1. Call("get_new_system_state") \in Calls
          BY CallTypes DEF PlainOps
        <4> QED
          BY <2>1, <4>1 DEF EventCalls, TriggerCalls, WorkCalls
      <3> QED
        BY <2>3, <3>1
    <2>7. ASSUME NEW w \in Enabled(ps), w \in result'.sync
          PROVE  w \in Touched /\ ~Gone(w)
      BY <2>4, <2>7 DEF Touched, Gone, Enabled, Known
    <2>8. ASSUME NEW w \in Enabled(ps), NEW x \in Needs
          PROVE  Met(x, w, ps, k2)
                    \/ \E i \in 1..Len(calls) : Brings(x, calls[i], w, ps, k2)
      <3>1. CASE w \notin result'.sync
        BY <1>2, <2>4, <3>1
      <3>2. CASE w \in result'.sync
        <4>1. SyncPeer(w) \in Elems(PeerCalls(w))
          BY <2>7, <3>2, PeerCallsWork
        <4>2. SyncPeer(w) \in Elems(calls)
          BY <2>3, <2>7, <3>2, <4>1
        <4>3. PICK i \in 1..Len(calls) : calls[i] = SyncPeer(w)
          BY <4>2 DEF Elems
        <4> QED
          BY <4>3 DEF Brings, Renews, SyncPeer
      <3> QED
        BY <3>1, <3>2
    <2>9. ASSUME NEW w \in Enabled(ps), NEW i \in 1..Len(calls),
                 Harms(calls[i], w, ps)
          PROVE  \E j \in i + 1..Len(calls) : Renews(calls[j], w)
      <3>1. result'.event = "INCOMING_DESCRIPTOR" /\ w \in result'.sync
        BY <2>5, <2>9
      <3>2. result'.sync = {w} /\ ~Gone(w) /\ w \in Vk
        BY <2>7, <3>1 DEF Touches, Touched
      <3>3. PICK pre \in Seq(X) : calls = pre \o <<SyncPeer(w), Catch>>
        BY <2>3, <3>1, <3>2
      <3>4. /\ Len(pre) \in Nat /\ Len(calls) = Len(pre) + 2
            /\ calls[Len(pre) + 1] = SyncPeer(w)
            /\ calls[Len(pre) + 2] = Catch
        <4>1. PICK a, b : a = SyncPeer(w) /\ b = Catch
          OBVIOUS
        <4>2. calls = pre \o <<a, b>>
          BY <3>3, <4>1
        <4>3. a \in X /\ b \in X
          <5>1. SyncPeer(w) \in X
            <6>1. SyncPeer(w) \in Elems(calls)
              BY <2>3, <2>7, <3>1, PeerCallsWork, Zenon
            <6> QED
              BY <2>3, <6>1 DEF Elems
          <5> QED
            BY <2>2, <4>1, <5>1
        <4>4. /\ Len(pre) \in Nat /\ Len(pre \o <<a, b>>) = Len(pre) + 2
              /\ (pre \o <<a, b>>)[Len(pre) + 1] = a
              /\ (pre \o <<a, b>>)[Len(pre) + 2] = b
          BY <3>3, <4>3, EndsInPair
        <4> QED
          BY <4>1, <4>2, <4>4, Zenon
      <3>5. calls[i].op \notin {"sync_peer", "catch"}
        BY <2>9 DEF Harms
      <3>6. i # Len(pre) + 1 /\ i # Len(pre) + 2
        BY <3>4, <3>5 DEF SyncPeer, Catch, Call
      <3>7. Len(pre) + 1 \in i + 1..Len(calls)
        BY <3>4, <3>6
      <3>8. Renews(calls[Len(pre) + 1], w)
        BY <3>4 DEF Renews, SyncPeer
      <3> QED
        BY <3>7, <3>8
    <2>10. Work(calls, ps, k2)
      <3>1. /\ Len(calls) \in Nat /\ 2..Len(calls) \subseteq 1..Len(calls)
            /\ calls # <<>> => 1 \in 1..Len(calls)
        BY <2>6
      <3>2. calls # <<>> => Fits(calls[1], k2)
        BY <2>5, <3>1 DEF Fits, Once
      <3> QED
        BY <2>5, <2>8, <2>9, <3>1, <3>2 DEF Work
    <2> QED
      BY <2>4, <2>6, <2>10
  <1> QED
    BY <1>3, <1>4

-----------------------------------------------------------------------------
(* The daemon starts *)

\* Calls that change nothing but for a sync() are work.
LEMMA SyncsWork ==
    ASSUME NEW ps, NEW k, NEW s \in Seq(Calls), NEW n \in 1..Len(s), s[n].op = "sync",
           \A i \in 1..Len(s) :
              s[i].op \in Neutral \cup {"sync", "get_new_system_state"}
    PROVE  Work(s, ps, k)
  <1>1. ASSUME NEW i \in 1..Len(s)
        PROVE  /\ Apt(s[i], ps) /\ s[i].op \notin Once /\ Fits(s[i], k)
               /\ \A v : ~Harms(s[i], v, ps)
    BY DEF Apt, Once, Fits, Harms, Neutral, Goal
  <1>2. /\ \A i \in 2..Len(s) : i \in 1..Len(s)
        /\ s # <<>> => 1 \in 1..Len(s)
    OBVIOUS
  <1>3. \A x, v : Brings(x, s[n], v, ps, k)
    BY DEF Brings, Renews
  <1> QED
    BY <1>1, <1>2, <1>3 DEF Work

\* The first call of run(), and those that follow it.
LEMMA StartupTail ==
    /\ Startup \in Seq(Calls) /\ Startup # <<>> /\ Len(Startup) = 5
    /\ Startup[1] = Call("get_new_system_state") /\ Startup[4].op = "sync"
    /\ Head(Startup) = Startup[1]
    /\ \A i \in 1..5 : Startup[i].op \in Neutral \cup {"sync", "get_new_system_state"}
    /\ Tail(Startup) \in Seq(Calls) /\ Len(Tail(Startup)) = 4
    /\ Tail(Startup)[4].op = "main_loop"
    /\ \A i \in 1..4 : Tail(Startup)[i].op \in Neutral \cup {"sync"}
  <1>1. /\ Call("get_new_system_state") \in Calls /\ Call("start_monitor") \in Calls
        /\ Call("instruct_zeroconf") \in Calls /\ Call("sync") \in Calls
        /\ Call("main_loop") \in Calls
    BY CallTypes DEF PlainOps
  <1>2. Startup \in Seq(Calls) /\ Startup # <<>> /\ Len(Startup) = 5
    BY <1>1 DEF Startup
  <1>3. /\ Startup[1] = Call("get_new_system_state")
        /\ Startup[2].op = "start_monitor" /\ Startup[3].op = "instruct_zeroconf"
        /\ Startup[4].op = "sync" /\ Startup[5].op = "main_loop"
        /\ Startup[1].op = "get_new_system_state"
    BY DEF Startup, Call
  <1>4. PICK s : s = Startup
    OBVIOUS
  <1>5. /\ Tail(s) \in Seq(Calls) /\ Len(Tail(s)) = 4 /\ Head(s) = s[1]
        /\ \A i \in 1..4 : Tail(s)[i] = s[i + 1]
    <2>1. s \in Seq(Calls) /\ s # <<>> /\ Len(s) = 5 /\ 5 - 1 = 4
      BY <1>2, <1>4
    <2>2. Head(s) = s[1]
      BY <2>1
    <2>3. /\ Tail(s) \in Seq(Calls) /\ Len(Tail(s)) = Len(s) - 1
          /\ \A i \in 1..Len(Tail(s)) : Tail(s)[i] = s[i + 1]
      BY <2>1, HeadTailProperties
    <2>4. Len(Tail(s)) = 4
      BY <2>1, <2>3
    <2> QED
      BY <2>2, <2>3, <2>4, Zenon
  <1>6. 1..4 = {1, 2, 3, 4} /\ 1..5 = {1, 2, 3, 4, 5} /\ 1 + 1 = 2 /\ 2 + 1 = 3
        /\ 3 + 1 = 4 /\ 4 + 1 = 5
    OBVIOUS
  <1>7. \A i \in 1..5 : s[i].op \in Neutral \cup {"sync", "get_new_system_state"}
    BY <1>3, <1>4, <1>6 DEF Neutral, Goal
  <1>8. \A i \in 1..4 : Tail(s)[i].op \in Neutral \cup {"sync"}
    <2>1. /\ Tail(s)[1] = s[2] /\ Tail(s)[2] = s[3]
          /\ Tail(s)[3] = s[4] /\ Tail(s)[4] = s[5]
      BY <1>5, <1>6
    <2> QED
      BY <1>3, <1>4, <1>6, <2>1 DEF Neutral, Goal
  <1>9. Tail(s)[4].op = "main_loop"
    BY <1>3, <1>4, <1>5, <1>6
  <1> QED
    BY <1>2, <1>3, <1>4, <1>5, <1>7, <1>8, <1>9

\* Nothing is skipped where there is no end of a try block.
LEMMA ResumedSame ==
    ASSUME NEW s \in Seq(Calls), s # <<>> => s[1].op # "catch"
    PROVE  Resumed(s) = s
  <1>1. PICK k \in 1..Len(s) + 1 :
           /\ SuffixFrom(Resumed(s), s, k)
           /\ \A i \in 1..k - 1 : s[i].op = "catch"
    BY ResumedSuffix
  <1>2. k = 1
    <2>1. Len(s) \in Nat /\ (s # <<>> <=> Len(s) # 0)
      OBVIOUS
    <2>2. CASE k # 1
      <3>1. 1 \in 1..k - 1 /\ Len(s) # 0
        BY <2>1, <2>2
      <3> QED
        BY <1>1, <2>1, <3>1
    <2> QED
      BY <2>2
  <1>3. PICK r : r = Resumed(s)
    OBVIOUS
  <1>4. r \in Seq(Calls) /\ Len(r) = Len(s) /\ \A i \in 1..Len(r) : r[i] = s[i]
    <2>1. r \in Seq(Calls) /\ SuffixFrom(r, s, 1)
      BY <1>1, <1>2, <1>3, ResumedSuffix
    <2>2. Len(s) \in Nat /\ Len(r) = Len(s) - 1 + 1
      BY <2>1 DEF SuffixFrom
    <2>3. ASSUME NEW i \in 1..Len(r) PROVE r[i] = s[i]
      <3>1. r[i] = s[i + 1 - 1] /\ i + 1 - 1 = i
        BY <2>1 DEF SuffixFrom
      <3> QED
        BY <3>1
    <2> QED
      BY <2>1, <2>2, <2>3
  <1> QED
    BY <1>3, <1>4, SeqEqual

\* The daemon adopts the state of the system and syncs.
LEMMA AdoptWorks ==
    ASSUME DInv, IInv', NEW s, NewSystemState(s), ~SaveFaults, ~result'.error,
           NEW calls \in Triggers, NEW k, NEW r \in Seq(Calls),
           \A i \in 1..Len(r) : r[i].op \in Neutral \cup {"sync"}
    PROVE  /\ system_state' = s
           /\ calls \o <<Call("sync"), Call("instruct_zeroconf")>> \o r \in Seq(Calls)
           /\ Work(calls \o <<Call("sync"), Call("instruct_zeroconf")>> \o r,
                   peers', k)
  <1>1. PICK cur, ps, hit :
           /\ hit \in AnyOf(GatewayCandidates(cur, s))
           /\ Validate("NEW_SYSTEM_STATE", ps, prefs, s, Known(ps) \cup hit)
    BY Zenon DEF NewSystemState
  <1>2. /\ system_state' = s /\ peers' = ps
        /\ result'.event = "NEW_SYSTEM_STATE" /\ result'.sync = Known(ps) \cup hit
    BY <1>1 DEF Validate, Abort
  <1>3. hit \subseteq Known(peers)
    BY <1>1 DEF AnyOf, GatewayCandidates
  <1> DEFINE X == {c \in WorkCalls : Apt(c, peers')}
  <1>4. Catch \in X /\ FurtherCalls = <<>>
    <2>1. Catch \in WorkCalls /\ Catch.op = "catch"
      BY CallTypes DEF WorkCalls, Call, PlainOps, Catch
    <2> QED
      BY <1>2, <2>1 DEF Apt, FurtherCalls
  <1>5. ASSUME NEW u \in Touched
        PROVE  PeerCalls(u) \in Seq(X)
    <2>1. PeerCalls(u) \in Seq(WorkCalls)
      BY <1>2, PeerCallsType DEF DInv
    <2>2. CASE Gone(u)
      <3> DEFINE c1 == [op |-> "remove_wg_peer", pk |-> peers[u].desc.pk]
                 c2 == [op |-> "remove_routes", dests |-> Routes(peers[u])]
      <3>1. PeerCalls(u) = <<c1, c2>>
        BY <2>2 DEF PeerCalls, RemovePeerCalls
      <3>2. Apt(c1, peers') /\ Apt(c2, peers')
        BY DEF Apt
      <3>3. PICK q, a, b : q = PeerCalls(u) /\ a = c1 /\ b = c2
        OBVIOUS
      <3> HIDE DEF c1, c2
      <3>4. q \in Seq(WorkCalls) /\ q = <<a, b>>
        BY <2>1, <3>1, <3>3
      <3>5. a \in WorkCalls /\ b \in WorkCalls
        BY <3>4
      <3>6. a \in X /\ b \in X
        BY <3>2, <3>3, <3>5
      <3> HIDE DEF X
      <3>7. <<a, b>> \in Seq(X)
        BY <3>6
      <3> QED
        BY <3>3, <3>4, <3>7
    <2>3. CASE ~Gone(u)
      <3>1. u \in Vk /\ u \in Known(peers')
        BY <1>2, <1>3, <2>3 DEF Touched, Gone, Known
      <3>2. SyncPeer(u) \in WorkCalls
        BY <3>1, CallTypes DEF WorkCalls, SyncPeer
      <3>3. SyncPeer(u) \in X
        BY <3>1, <3>2 DEF Apt, SyncPeer
      <3>4. PeerCalls(u) = <<SyncPeer(u)>>
        BY <1>2, <2>3 DEF PeerCalls
      <3> HIDE DEF X
      <3>5. <<SyncPeer(u)>> \in Seq(X)
        BY <3>3
      <3> QED
        BY <3>4, <3>5
    <2> QED
      BY <2>2, <2>3
  <1>6. \A c \in X : c \in WorkCalls /\ c \in Calls /\ Apt(c, peers')
    BY DEF WorkCalls
  <1> HIDE DEF X
  <1>7. calls \in Seq(X)
    <2>1. FurtherCalls \in Seq(X)
      BY <1>4
    <2> QED
      BY <1>4, <1>5, <2>1, TriggersForm
  <1>8. PICK y, z : y = Call("sync") /\ z = Call("instruct_zeroconf")
    OBVIOUS
  <1>9. y \in Calls /\ z \in Calls /\ y.op = "sync" /\ z.op = "instruct_zeroconf"
    BY <1>8, CallTypes DEF PlainOps, Call
  <1>10. PICK t : t = <<y, z>> \o r
    OBVIOUS
  <1>11. /\ t \in Seq(Calls) /\ t # <<>> /\ t[1].op = "sync"
         /\ \A i \in 1..Len(t) : t[i].op \in Neutral \cup {"sync"}
    <2>1. PICK p : p = <<y, z>>
      OBVIOUS
    <2>2. p \in Seq(Calls) /\ Len(p) = 2 /\ p[1] = y /\ p[2] = z
      BY <1>9, <2>1
    <2>3. t = p \o r
      BY <1>10, <2>1
    <2>4. /\ t \in Seq(Calls) /\ Len(t) = Len(r) + 2 /\ t[1] = y /\ t[2] = z
          /\ \A i \in 1..Len(r) + 2 : i > 2 => t[i] = r[i - 2]
      <3>1. /\ t \in Seq(Calls) /\ Len(t) = 2 + Len(r)
            /\ \A i \in 1..2 + Len(r) : t[i] = IF i <= 2 THEN p[i] ELSE r[i - 2]
        <4>1. /\ p \o r \in Seq(Calls) /\ Len(p \o r) = Len(p) + Len(r)
              /\ \A i \in 1..Len(p) + Len(r) :
                    (p \o r)[i] = IF i <= Len(p) THEN p[i] ELSE r[i - Len(p)]
          BY <2>2, ConcatProperties
        <4> QED
          BY <2>2, <2>3, <4>1
      <3> QED
        BY <2>2, <3>1
    <2>5. ASSUME NEW i \in 1..Len(t)
          PROVE  t[i].op \in Neutral \cup {"sync"}
      <3>1. CASE i = 1
        BY <1>9, <2>4, <3>1
      <3>2. CASE i = 2
        BY <1>9, <2>4, <3>2 DEF Neutral, Goal
      <3>3. CASE i > 2
        <4>1. i - 2 \in 1..Len(r) /\ t[i] = r[i - 2]
          BY <2>4, <3>3
        <4> QED
          BY <4>1
      <3> QED
        BY <3>1, <3>2, <3>3
    <2> QED
      BY <1>9, <2>4, <2>5
  <1>12. calls \in Seq(WorkCalls) /\ calls \in Seq(Calls)
         /\ \A i \in 1..Len(calls) : Apt(calls[i], peers')
    BY <1>6, <1>7
  <1>13. Work(calls \o t, peers', k)
    <2>1. PICK ps2 : ps2 = peers'
      OBVIOUS
    <2>2. Work(calls \o t, ps2, k)
      BY <1>11, <1>12, <2>1, SyncedWork
    <2> QED
      BY <2>1, <2>2
  <1>14. /\ calls \o <<y, z>> \o r = calls \o t
         /\ calls \o t \in Seq(Calls)
    <2>1. <<y, z>> \in Seq(Calls)
      BY <1>9
    <2>2. (calls \o <<y, z>>) \o r = calls \o (<<y, z>> \o r)
      BY <1>12, <2>1, ConcatAssociative
    <2> QED
      BY <1>10, <1>11, <1>12, <2>2
  <1> QED
    BY <1>2, <1>8, <1>13, <1>14

-----------------------------------------------------------------------------
(* The invariant *)

\* TInv in the next state, for the calls that wait then.
LEMMA NextTInv ==
    ASSUME status'["monitor"] = "running" => real' = system_state',
           todo'["monitor"] \in {<<>>, <<Call("get_new_system_state")>>},
           NEW s, s = todo'["dbus"], NEW ps, ps = peers', NEW k, k = Kern',
           status'["dbus"] = "running" =>
              \/ real' = system_state' /\ Work(s, ps, k)
              \/ /\ real' # system_state'
                 /\ s \in {Startup,
                           <<[op |-> "adopt", state |-> real']>> \o Tail(Startup)}
    PROVE  TInv'
  BY DEF TInv

\* run() starts with nothing to do but what it does.
LEMMA StartTInv ==
    ASSUME Started, real' \in SysStates
    PROVE  TInv'
  <1>1. /\ todo'["monitor"] = <<>> /\ status'["monitor"] = "off"
        /\ todo'["dbus"] = Startup
    BY DEF Started, Thread
  <1>2. PICK s, ps, k : s = todo'["dbus"] /\ ps = peers' /\ k = Kern'
    OBVIOUS
  <1>3. Work(s, ps, k)
    <2>1. 4 \in 1..Len(Startup)
      BY StartupTail
    <2> QED
      BY <1>1, <1>2, <2>1, StartupTail, SyncsWork
  <1>4. s = Startup
    BY <1>1, <1>2
  <1> QED
    BY <1>1, <1>2, <1>3, <1>4, NextTInv

\* The invariant holds initially.
LEMMA TInvInit == DaemonInit => TInv
  <1> SUFFICES ASSUME DaemonInit PROVE TInv
    OBVIOUS
  <1>1. /\ todo["monitor"] = <<>> /\ status["monitor"] = "off"
        /\ todo["dbus"] = Startup
    BY DEF DaemonInit, Thread
  <1>2. Work(Startup, peers, Kern)
    <2>1. 4 \in 1..Len(Startup)
      BY StartupTail
    <2> QED
      BY <2>1, StartupTail, SyncsWork
  <1> QED
    BY <1>1, <1>2 DEF TInv

\* An exception in run() before the main loop ends it.
LEMMA StartupDies ==
    ASSUME ThreadsOK, Rest("dbus") = Tail(Startup), Raise("dbus")
    PROVE  /\ status' = [status EXCEPT !["dbus"] = "dead"]
           /\ todo' = [todo EXCEPT !["dbus"] = <<>>]
  <1>1. PICK r : r = Tail(Startup)
    OBVIOUS
  <1>2. /\ r \in Seq(Calls) /\ Len(r) = 4 /\ r[4].op = "main_loop"
        /\ \A i \in 1..4 : r[i].op # "catch"
    BY <1>1, StartupTail DEF Neutral, Goal
  <1> DEFINE I == {i \in 1..Len(r) : r[i].op = "catch"}
             J == {i \in 1..Len(r) : r[i].op = "main_loop"}
             i1 == IF I # {} THEN Min(I) ELSE 0
             j1 == IF J # {} THEN Min(J) ELSE 0
  <1>3. /\ i1 = SelectInSeq(r, LAMBDA c : c.op = "catch")
        /\ j1 = SelectInSeq(r, LAMBDA c : c.op = "main_loop")
    BY DEF SelectInSeq
  <1>4. I = {} /\ i1 = 0
    BY <1>2
  <1>5. j1 # 0
    <2>1. J # {} /\ J \subseteq Nat
      <3>1. 4 \in J
        BY <1>2
      <3> QED
        BY <3>1
    <2>2. Min(J) \in J
      BY <2>1, MinIsLeast
    <2>3. 0 \notin J
      OBVIOUS
    <2> QED
      BY <2>1, <2>2, <2>3
  <1> HIDE DEF i1, j1
  <1> QED
    BY <1>1, <1>3, <1>4, <1>5 DEF Raise

\* The main thread has nothing to do but work.
LEMMA WorkStep ==
    ASSUME DInv, Separate, TInv, ThreadStep("dbus"), real' = real,
           real = system_state
    PROVE  TInv'
  <1>1. /\ todo["dbus"] # <<>> /\ Do("dbus", Head(todo["dbus"]))
        /\ Work(todo["dbus"], peers, Kern)
    BY DEF TInv, ThreadStep
  <1>2. /\ Work(todo'["dbus"], peers', Kern')
        /\ todo'["monitor"] = todo["monitor"]
        /\ peers' = peers /\ system_state' = system_state
    BY <1>1, CallWorks
  <1>3. PICK s, ps, k : s = todo'["dbus"] /\ ps = peers' /\ k = Kern'
    OBVIOUS
  <1>4. Work(s, ps, k)
    BY <1>2, <1>3
  <1> QED
    BY <1>2, <1>3, <1>4, NextTInv DEF TInv

\* The main thread reads the system, or adopts what it has read.
LEMMA AdoptStep ==
    ASSUME DInv, TInv, ~SaveFaults, ThreadStep("dbus"), real' = real,
           real # system_state
    PROVE  TInv'
  <1>1. /\ todo["dbus"] # <<>> /\ Do("dbus", Head(todo["dbus"]))
        /\ status["dbus"] = "running"
    BY DEF ThreadStep
  <1>2. PICK a : a = [op |-> "adopt", state |-> real]
    OBVIOUS
  <1>3. a \in Calls /\ a.op = "adopt" /\ a.state = real
    BY <1>2, CallTypes DEF DInv
  <1>4. PICK r : r = Tail(Startup)
    OBVIOUS
  <1>5. /\ r \in Seq(Calls) /\ Len(r) = 4 /\ r[4].op = "main_loop"
        /\ \A i \in 1..Len(r) : r[i].op \in Neutral \cup {"sync"}
    BY <1>4, StartupTail
  <1>6. /\ <<a>> \o r \in Seq(Calls) /\ <<a>> \o r # <<>> /\ (<<a>> \o r)[1] = a
        /\ Head(<<a>> \o r) = a /\ Tail(<<a>> \o r) = r
    <2>1. a \in Calls /\ r \in Seq(Calls)
      BY <1>3, <1>5
    <2>2. \A x \in Calls, s \in Seq(Calls) :
             /\ <<x>> \o s \in Seq(Calls) /\ <<x>> \o s # <<>>
             /\ (<<x>> \o s)[1] = x
             /\ Head(<<x>> \o s) = x /\ Tail(<<x>> \o s) = s
      BY ConsSeq
    <2> QED
      BY <2>1, <2>2, Zenon
  <1>7. ThreadsOK /\ "dbus" \in Thread /\ "monitor" \in Thread
    BY DEF DInv, Thread
  <1>8. /\ status["monitor"] # "running"
        /\ todo["monitor"] \in {<<>>, <<Call("get_new_system_state")>>}
        /\ todo["dbus"] \in {Startup, <<a>> \o r}
    BY <1>1, <1>2, <1>4 DEF TInv
  <1>9. CASE todo["dbus"] = Startup
    <2>1. Head(todo["dbus"]) = Call("get_new_system_state") /\ Rest("dbus") = r
      BY <1>4, <1>9, StartupTail DEF Rest
    <2>2. DoGetNewSystemState("dbus")
      <3>1. Call("get_new_system_state") \in Calls
        BY CallTypes DEF PlainOps
      <3>2. Call("get_new_system_state").op = "get_new_system_state"
        BY DEF Call
      <3> QED
        BY <1>1, <1>7, <2>1, <3>1, <3>2, DoCases DEF Goal
    <2>3. /\ Continue("dbus", <<a>> \o r) /\ system_state' = system_state
      BY <1>2, <2>1, <2>2 DEF DoGetNewSystemState, evars
    <2>4. Resumed(<<a>> \o r) = <<a>> \o r
      BY <1>3, <1>6, ResumedSame
    <2>5. /\ todo'["dbus"] = <<a>> \o r /\ todo'["monitor"] = todo["monitor"]
          /\ status' = status
      BY <1>7, <2>3, <2>4 DEF Continue, ThreadsOK
    <2>6. PICK s, ps, k : s = todo'["dbus"] /\ ps = peers' /\ k = Kern'
      OBVIOUS
    <2>7. /\ s = <<[op |-> "adopt", state |-> real']>> \o Tail(Startup)
          /\ real' # system_state'
      BY <1>2, <1>4, <2>3, <2>5, <2>6
    <2> QED
      BY <1>8, <2>5, <2>6, <2>7, NextTInv
  <1>10. CASE todo["dbus"] = <<a>> \o r
    <2>1. Head(todo["dbus"]) = a /\ Rest("dbus") = r
      BY <1>6, <1>10 DEF Rest
    <2>2. DoAdopt("dbus", real)
      BY <1>1, <1>3, <1>7, <2>1, DoCases DEF Goal
    <2>3. NewSystemState(real) /\ UNCHANGED kvars
      BY <2>2 DEF DoAdopt
    <2>4. CASE result'.error /\ Raise("dbus")
      <3>1. /\ status' = [status EXCEPT !["dbus"] = "dead"]
            /\ todo' = [todo EXCEPT !["dbus"] = <<>>]
        BY <1>4, <1>7, <2>1, <2>4, StartupDies
      <3>2. /\ status'["dbus"] = "dead" /\ status'["monitor"] = status["monitor"]
            /\ todo'["monitor"] = todo["monitor"]
        BY <1>7, <3>1 DEF ThreadsOK
      <3> QED
        BY <1>8, <3>2, NextTInv
    <2>5. ASSUME ~result'.error, NEW calls \in Triggers,
                 Continue("dbus",
                    calls \o <<Call("sync"), Call("instruct_zeroconf")>> \o r)
          PROVE  TInv'
      <3>1. IInv'
        <4>1. real \in SysStates
          BY DEF DInv
        <4> QED
          BY <2>3, <4>1, EventOK DEF DInv
      <3>2. PICK w, ps, k :
               /\ w = calls \o <<Call("sync"), Call("instruct_zeroconf")>> \o r
               /\ ps = peers' /\ k = Kern'
        OBVIOUS
      <3>3. system_state' = real /\ w \in Seq(Calls) /\ Work(w, ps, k)
        BY <1>5, <2>3, <2>5, <3>1, <3>2, AdoptWorks
      <3>4. Work(Resumed(w), ps, k)
        BY <3>3, ResumedWork
      <3>5. /\ todo'["dbus"] = Resumed(w) /\ todo'["monitor"] = todo["monitor"]
            /\ status' = status
        BY <1>7, <2>5, <3>2 DEF Continue, ThreadsOK
      <3>6. PICK s : s = todo'["dbus"]
        OBVIOUS
      <3>7. Work(s, ps, k)
        BY <3>4, <3>5, <3>6
      <3> QED
        BY <1>8, <3>2, <3>3, <3>5, <3>6, <3>7, NextTInv
    <2> QED
      BY <2>1, <2>2, <2>4, <2>5 DEF DoAdopt
  <1> QED
    BY <1>8, <1>9, <1>10

\* The monitor finds the system as it was.
LEMMA MonitorStep ==
    ASSUME DInv, TInv, ThreadStep("monitor"), real' = real
    PROVE  TInv'
  <1>1. /\ todo["monitor"] # <<>> /\ status["monitor"] = "running"
        /\ Do("monitor", Head(todo["monitor"]))
    BY DEF ThreadStep
  <1>2. /\ todo["monitor"] = <<Call("get_new_system_state")>>
        /\ real = system_state
    BY <1>1 DEF TInv
  <1>3. /\ Head(todo["monitor"]) = Call("get_new_system_state")
        /\ Rest("monitor") = <<>>
    BY <1>2 DEF Rest
  <1>4. DoGetNewSystemState("monitor")
    <2>1. Call("get_new_system_state") \in Calls
      BY CallTypes DEF PlainOps
    <2>2. Call("get_new_system_state").op = "get_new_system_state"
      BY DEF Call
    <2> QED
      BY <1>1, <1>3, <2>1, <2>2, DoCases DEF Goal, Thread
  <1>5. Continue("monitor", <<>>) /\ UNCHANGED <<evars, kvars>>
    BY <1>2, <1>3, <1>4 DEF DoGetNewSystemState
  <1>6. Resumed(<<>>) = <<>>
    <2>1. <<>> \in Seq(Calls)
      OBVIOUS
    <2> QED
      BY <2>1, ResumedSame
  <1>7. /\ todo'["monitor"] = <<>> /\ todo'["dbus"] = todo["dbus"]
        /\ status' = status
    BY <1>5, <1>6 DEF Continue, DInv, ThreadsOK, Thread
  <1>8. Kern' = Kern /\ peers' = peers /\ system_state' = system_state
    BY <1>5 DEF Kern, evars, kvars
  <1>9. PICK s, ps, k : s = todo'["dbus"] /\ ps = peers' /\ k = Kern'
    OBVIOUS
  <1>10. status'["dbus"] = "running" => Work(s, ps, k)
    BY <1>2, <1>7, <1>8, <1>9 DEF TInv
  <1> QED
    BY <1>2, <1>7, <1>8, <1>9, <1>10, NextTInv

\* An event leaves work behind it.
LEMMA EventStep ==
    ASSUME DInv, Separate, TInv, ~SaveFaults, DbusEvent
    PROVE  TInv'
  <1>1. /\ todo["dbus"] = <<>> /\ status["dbus"] = "running"
        /\ UNCHANGED kvars /\ real' = real
        /\ (\E d \in Descs : AcceptDescriptor(d) \/ RejectDescriptor(d)) \/ Command
    BY DEF DbusEvent, StartsWork, Idle
  <1>2. real = system_state /\ Work(<<>>, peers, Kern)
    <2>1. <<>> # Startup
      BY StartupTail
    <2>2. PICK a, r : a = [op |-> "adopt", state |-> real] /\ r = Tail(Startup)
      OBVIOUS
    <2>3. <<a>> \o r # <<>>
      <3>1. a \in Calls /\ r \in Seq(Calls)
        BY <2>2, CallTypes, StartupTail DEF DInv
      <3> QED
        BY <3>1, ConsSeq, Zenon
    <2> QED
      BY <1>1, <2>1, <2>2, <2>3 DEF TInv
  <1>3. IInv'
    BY <1>1, EventOK DEF DInv
  <1>4. PICK v : Touches(v)
    BY <1>1, EventTouches DEF DInv
  <1>5. PICK calls \in Triggers : Continue("dbus", calls)
    BY DEF DbusEvent
  <1>6. calls \in Seq(Calls) /\ Work(calls, peers', Kern')
    BY <1>1, <1>2, <1>3, <1>4, EventWorks
  <1>7. PICK ps, k : ps = peers' /\ k = Kern'
    OBVIOUS
  <1>8. Work(Resumed(calls), ps, k)
    BY <1>6, <1>7, ResumedWork
  <1>9. /\ todo'["dbus"] = Resumed(calls) /\ todo'["monitor"] = todo["monitor"]
        /\ status' = status
    BY <1>5 DEF Continue, DInv, ThreadsOK, Thread
  <1>10. PICK s : s = todo'["dbus"]
    OBVIOUS
  <1>11. system_state' = system_state
    BY <1>4 DEF Touches
  <1>12. Work(s, ps, k)
    BY <1>8, <1>9, <1>10
  <1> QED
    BY <1>1, <1>2, <1>7, <1>9, <1>10, <1>11, <1>12, NextTInv DEF TInv

\* Where the table, the kernel and the main thread stay as they are.
LEMMA TInvFrame ==
    ASSUME TInv, real' = real, UNCHANGED <<evars, wg_peers, allowed_ips, routes,
                                           gw_routes, status>>,
           todo'["dbus"] = todo["dbus"],
           todo'["monitor"] \in {<<>>, <<Call("get_new_system_state")>>}
    PROVE  TInv'
  <1>1. /\ Kern' = Kern /\ peers' = peers /\ system_state' = system_state
        /\ status' = status
    BY DEF Kern, evars
  <1>2. PICK s, ps, k : s = todo'["dbus"] /\ ps = peers' /\ k = Kern'
    OBVIOUS
  <1>3. s = todo["dbus"] /\ ps = peers /\ k = Kern
    BY <1>1, <1>2
  <1> QED
    BY <1>1, <1>2, <1>3, NextTInv DEF TInv

\* Every step keeps the invariant, as long as the system stays the same and
\* the peers have nothing in common.
LEMMA TInvNext ==
    ASSUME ~SaveFaults
    PROVE  DInv /\ Separate /\ TInv /\ [DaemonNext]_allvars /\ real' = real => TInv'
  <1> SUFFICES ASSUME DInv, Separate, TInv, [DaemonNext]_allvars, real' = real
               PROVE  TInv'
    OBVIOUS
  <1>1. todo["monitor"] \in {<<>>, <<Call("get_new_system_state")>>}
    BY DEF TInv
  <1>2. CASE UNCHANGED allvars
    BY <1>1, <1>2, TInvFrame DEF allvars, kvars, dvars
  <1>3. ASSUME NEW t \in Thread, ThreadStep(t)
        PROVE  TInv'
    <2>1. CASE t = "monitor"
      BY <1>3, <2>1, MonitorStep
    <2>2. CASE t = "dbus"
      BY <1>3, <2>2, WorkStep, AdoptStep
    <2> QED
      BY <2>1, <2>2 DEF Thread
  <1>4. CASE MonitorWakes
    <2>1. /\ todo'["monitor"] = <<Call("get_new_system_state")>>
          /\ todo'["dbus"] = todo["dbus"]
      BY <1>4 DEF MonitorWakes, DInv, ThreadsOK, Thread
    <2> QED
      BY <1>4, <2>1, TInvFrame DEF MonitorWakes, kvars
  <1>5. CASE DbusEvent
    BY <1>5, EventStep
  <1>6. CASE Repair
    <2>1. PICK s : s = <<Call("sync"), Call("reply")>>
      OBVIOUS
    <2>2. /\ s \in Seq(Calls) /\ Len(s) = 2 /\ s[1].op = "sync" /\ s[2].op = "reply"
      <3>1. Call("sync") \in Calls /\ Call("reply") \in Calls
        BY CallTypes DEF PlainOps
      <3> QED
        BY <2>1, <3>1 DEF Call
    <2>3. Resumed(s) = s
      BY <2>2, ResumedSame
    <2>4. /\ todo'["dbus"] = s /\ todo'["monitor"] = todo["monitor"]
          /\ status' = status
      BY <1>6, <2>1, <2>3 DEF Repair, Continue, DInv, ThreadsOK, Thread
    <2>5. PICK ps, k : ps = peers' /\ k = Kern'
      OBVIOUS
    <2>6. Work(s, ps, k)
      <3>1. 1 \in 1..Len(s)
        BY <2>2
      <3>2. \A i \in 1..Len(s) :
               s[i].op \in Neutral \cup {"sync", "get_new_system_state"}
        <4>1. ASSUME NEW i \in 1..Len(s)
              PROVE  s[i].op \in Neutral \cup {"sync", "get_new_system_state"}
          <5>1. i = 1 \/ i = 2
            BY <2>2
          <5> QED
            BY <2>2, <5>1 DEF Neutral, Goal
        <4> QED
          BY <4>1
      <3> QED
        BY <2>2, <3>1, <3>2, SyncsWork
    <2>7. real = system_state
      <3>1. todo["dbus"] = <<>> /\ status["dbus"] = "running"
        BY <1>6 DEF Repair, StartsWork, Idle
      <3>2. <<>> # Startup
        BY StartupTail
      <3>3. PICK a, r : a = [op |-> "adopt", state |-> real] /\ r = Tail(Startup)
        OBVIOUS
      <3>4. <<a>> \o r # <<>>
        <4>1. a \in Calls /\ r \in Seq(Calls)
          BY <3>3, CallTypes, StartupTail DEF DInv
        <4> QED
          BY <4>1, ConsSeq, Zenon
      <3> QED
        BY <3>1, <3>2, <3>3, <3>4 DEF TInv
    <2>8. system_state' = system_state
      BY <1>6 DEF Repair, evars
    <2> QED
      BY <1>1, <2>4, <2>5, <2>6, <2>7, <2>8, NextTInv
  <1>7. CASE ShowPeer
    BY <1>1, <1>7, TInvFrame DEF ShowPeer, WgQuery, kernel
  <1>8. CASE SystemChanges
    BY <1>8 DEF SystemChanges
  <1>9. CASE Crash \/ Exit
    <2>1. Started /\ real' \in SysStates
      BY <1>9 DEF Crash, Exit, Restarted, DInv
    <2> QED
      BY <2>1, StartTInv
  <1> QED
    BY <1>2, <1>3, <1>4, <1>5, <1>6, <1>7, <1>8, <1>9 DEF DaemonNext

\* Where nothing waits there is nothing that the enabled peers need.
LEMMA TInvConfigured ==
    ASSUME DInv, TInv, AllIdle
    PROVE  Configured(peers)
  <1>1. todo["dbus"] = <<>> /\ status["dbus"] = "running"
    BY DEF AllIdle, Idle, Thread
  <1>2. Work(<<>>, peers, Kern)
    <2>1. <<>> # Startup
      BY StartupTail
    <2>2. PICK a, r : a = [op |-> "adopt", state |-> real] /\ r = Tail(Startup)
      OBVIOUS
    <2>3. <<a>> \o r # <<>>
      <3>1. a \in Calls /\ r \in Seq(Calls)
        BY <2>2, CallTypes, StartupTail DEF DInv
      <3> QED
        BY <3>1, ConsSeq, Zenon
    <2> QED
      BY <1>1, <2>1, <2>2, <2>3 DEF TInv
  <1>3. \A v \in Enabled(peers) : \A x \in Needs : Met(x, v, peers, Kern)
    BY <1>2 DEF Work
  <1>4. ASSUME NEW v \in Enabled(peers)
        PROVE  /\ Met("key", v, peers, Kern) /\ Met("routes", v, peers, Kern)
               /\ Met("gw", v, peers, Kern)
    BY <1>3 DEF Needs
  <1> QED
    BY <1>4 DEF Configured, Met, Kern

\* While the system stays as it is and the peers have no key and no address in
\* common, the triggers of the events keep the kernel up with the table: between
\* events, and after any number of evictions, removals, crashes and restarts,
\* every enabled peer has its key, its addresses and its routes.
THEOREM TriggersConfigure ==
    ASSUME ~SaveFaults
    PROVE  DaemonSpec /\ [][real' = real]_real /\ []Separate => []EnabledConfigured
  <1>1. DInv /\ Separate /\ TInv /\ [DaemonNext]_allvars /\ [real' = real]_real
            => TInv'
    BY TInvNext
  <1>2. DInv /\ TInv => EnabledConfigured
    BY TInvConfigured DEF EnabledConfigured
  <1>3. DaemonSpec => []DInv
    BY DaemonInvariance
  <1>4. DaemonInit => TInv
    BY TInvInit
  <1> QED
    BY <1>1, <1>2, <1>3, <1>4, PTL DEF DaemonSpec
=============================================================================
