--------------------------- MODULE OrganizeDaemon ---------------------------
(***************************************************************************)
(* The organize daemon (class Organize of organize.py): its state engine,  *)
(* the kernel it configures, and the two threads that drive them.          *)
(*                                                                         *)
(* The thread "dbus" runs the main loop: it handles descriptors and the    *)
(* user's commands one after the other.  The thread "monitor" reacts to    *)
(* netlink messages.  Only the transactions of the engine are protected by *)
(* its lock.  The triggers of an event run after the lock is released, in  *)
(* the thread that raised the event, and so do the reads of the system and *)
(* the full sync.  `todo' holds the calls a thread has still to make; one  *)
(* call is one step, and the threads interleave between calls.  The call   *)
(* "catch" is the end of a try block: an exception skips to it.            *)
(***************************************************************************)
EXTENDS OrganizeState, Kernel, SequencesExt

CONSTANTS
    Commands,    \* the commands the user gives to the daemon
    MaxEvents,   \* bound on the events the dbus thread starts
    MaxChanges,  \* bound on the changes of the system
    MaxCrashes   \* bound on the crashes of the daemon

\* A verify key has 32 bytes: there are finitely many.
ASSUME BoundTypes ==
    /\ IsFiniteSet(Vk)
    /\ MaxEvents \in Nat /\ MaxChanges \in Nat /\ MaxCrashes \in Nat

VARIABLES
    todo,      \* per thread, the calls it has still to make
    status,    \* per thread: "off", "running", or "dead" after an exception
    notified,  \* whether netlink messages wait for the monitor
    real,      \* the state of the system, as reading it would yield
    disk,      \* the state file
    undisturbed, \* per thread: no other took a step since its sync() began
    used       \* how much of each bound is used up

evars == <<peers, prefs, system_state, result>>
dvars == <<todo, status, notified, real, disk, undisturbed, used>>
allvars == <<evars, kvars, dvars>>

Thread == {"dbus", "monitor"}

Call(op) == [op |-> op]
SyncPeer(v) == [op |-> "sync_peer", vk |-> v]
WithPeer(op, q) == [op |-> op, peer |-> q]
Catch == Call("catch")

\* Mutant: run() relies on get_new_system_state to sync.
StartupWithoutSync ==
    <<Call("get_new_system_state"), Call("start_monitor"),
      Call("instruct_zeroconf"), Call("main_loop")>>

\* run() once the daemon has loaded its state.  What it adds to the
\* preferences of a new or an upgraded installation is left out.
Startup ==
    <<Call("get_new_system_state"), Call("start_monitor"),
      Call("instruct_zeroconf"), Call("sync"), Call("main_loop")>>

Started ==
    /\ todo' = [t \in Thread |-> IF t = "dbus" THEN Startup ELSE <<>>]
    /\ status' = [t \in Thread |-> IF t = "dbus" THEN "running" ELSE "off"]
    /\ notified' = FALSE
    /\ undisturbed' = [t \in Thread |-> FALSE]

DaemonInit ==
    /\ Init
    /\ KernelInit
    /\ todo = [t \in Thread |-> IF t = "dbus" THEN Startup ELSE <<>>]
    /\ status = [t \in Thread |-> IF t = "dbus" THEN "running" ELSE "off"]
    /\ notified = FALSE
    /\ real \in SysStates
    /\ disk = [peers |-> peers, prefs |-> prefs, system_state |-> system_state]
    /\ undisturbed = [t \in Thread |-> FALSE]
    /\ used = [events |-> 0, changes |-> 0, crashes |-> 0]

-----------------------------------------------------------------------------
(* The triggers of an event, in the order in which they are queued *)

\* run_triggers() goes on after a trigger that raised.
Protected(calls) == FlattenSeq([i \in DOMAIN calls |-> <<calls[i], Catch>>])

\* action_REMOVE_PEER.  The trigger it queues for the gateway routes fails
\* when it runs (_GW_ROUTES is not one argument but four) and is left out.
RemovePeerCalls(q) ==
    <<[op |-> "remove_wg_peer", pk |-> q.desc.pk],
      [op |-> "remove_routes", dests |-> Routes(q)]>>

Gone(v) == peers[v] # NoPeer /\ peers'[v] = NoPeer

Touched == {v \in Vk : Gone(v) \/ v \in result'.sync}

\* One peer that the transaction removed or updated.
PeerCalls(v) ==
    IF Gone(v) THEN RemovePeerCalls(peers[v])
    ELSE CASE result'.event = "USER_PEER_ADDR_DEL" ->
                 <<SyncPeer(v),
                   [op |-> "remove_routes",
                    dests |-> (peers[v].on \ peers'[v].on)
                                 \cup (peers[v].off \ peers'[v].off)]>>
           [] result'.event = "VERIFY_AND_PIN_PEER" ->
                 <<SyncPeer(v), Call("remove_unknown"), SyncPeer(v)>>
           [] OTHER -> <<SyncPeer(v)>>

\* What follows the calls for the peers that the event touched.  An edit
\* that touches no peer is one of a preference.
FurtherCalls ==
    CASE result'.event = "USER_EDIT" /\ Touched = {} ->
            <<Call("get_new_system_state"), Call("remove_unknown")>>
      [] result'.event = "USER_EDIT" /\ Touched # {} ->
            <<Call("remove_unknown")>>
      [] result'.event = "VERIFY_AND_PIN_PEER" -> <<Call("remove_unknown")>>
      [] result'.event = "RELEASE_GATEWAY" /\ Touched # {} ->
            <<Call("remove_unknown"), Call("get_new_system_state")>>
      [] OTHER -> <<>>

\* Mutant: the peer that is accepted may come before those it evicts.
AnyVisitOrders == SetToSeqs(Touched)

\* The orders in which the transaction may have visited the peers: those it
\* evicts before the one it accepts, otherwise the order of the table.
VisitOrders ==
    {order \in SetToSeqs(Touched) :
        result'.event = "INCOMING_DESCRIPTOR" =>
            \A i, j \in DOMAIN order :
                Gone(order[i]) /\ ~Gone(order[j]) => i < j}

\* The triggers of the event that takes place in this step, if any.
Triggers ==
    IF result'.error THEN {<<>>}
    ELSE {Protected(FlattenSeq([i \in DOMAIN order |-> PeerCalls(order[i])])
                      \o FurtherCalls) : order \in VisitOrders}

\* A new state is saved before the event releases the lock.  If that fails,
\* the state file may have been written (and the hosts file not).
Save ==
    IF UNCHANGED <<peers, prefs, system_state>> THEN disk' = disk
    ELSE \/ disk' = [peers |-> peers', prefs |-> prefs',
                     system_state |-> system_state']
         \/ result'.error /\ disk' = disk

-----------------------------------------------------------------------------
(* Threads *)

Idle(t) == status[t] = "running" /\ todo[t] = <<>>

\* The calls without the ends of try blocks that they begin with.
Resumed(calls) ==
    LET i == SelectInSeq(calls, LAMBDA c : c.op # "catch")
    IN  IF i = 0 THEN <<>> ELSE SubSeq(calls, i, Len(calls))

\* Thread t goes on with the given calls.
Continue(t, calls) ==
    /\ todo' = [todo EXCEPT ![t] = Resumed(calls)]
    /\ UNCHANGED status

Rest(t) == Tail(todo[t])

\* An exception in thread t.  Nobody catches one in the monitor, nor one in
\* run() before it enters the main loop.  The interpreter waits for the
\* monitor before it exits: only if there is none is the daemon restarted.
Raise(t) ==
    LET i == SelectInSeq(Rest(t), LAMBDA c : c.op = "catch")
        j == SelectInSeq(Rest(t), LAMBDA c : c.op = "main_loop")
    IN  IF i # 0 THEN Continue(t, SubSeq(Rest(t), i, Len(Rest(t))))
        ELSE IF t = "dbus" /\ j = 0 THEN Continue(t, <<>>)
        ELSE /\ status' = [status EXCEPT ![t] = "dead"]
             /\ todo' = [todo EXCEPT ![t] = <<>>]

\* Netlink reports the routes that vula changes as well.
Notify ==
    notified' = \/ notified
                \/ /\ status["monitor"] = "running"
                   /\ <<routes, gw_routes>>' # <<routes, gw_routes>>

-----------------------------------------------------------------------------
(* The calls, one step each *)

\* sync_peer reads the peer once; peers[vk] raises if there is none.
DoSyncPeer(t, v) ==
    /\ \/ peers[v] = NoPeer /\ Raise(t)
       \/ /\ peers[v] # NoPeer
          /\ peers[v].enabled
          /\ Continue(t, <<WithPeer("apply_peerconfig", peers[v]),
                           WithPeer("sync_routes", peers[v])>>
                         \o (IF peers[v].use_as_gateway
                             THEN <<Call("sync_gw_routes")>> ELSE <<>>)
                         \o Rest(t))
       \/ /\ peers[v] # NoPeer
          /\ ~peers[v].enabled
          /\ Continue(t, <<Call("remove_unknown")>> \o Rest(t))
    /\ UNCHANGED <<evars, kvars, disk>>

DoApplyPeerConfig(t, q) ==
    /\ ApplyPeerConfig(q)
    /\ Continue(t, Rest(t))
    /\ UNCHANGED <<evars, disk>>

DoSyncRoutes(t, q) ==
    /\ Continue(t, <<[op |-> "add_routes", dests |-> Routes(q) \ routes]>>
                     \o Rest(t))
    /\ UNCHANGED <<evars, kvars, disk>>

DoAddRoutes(t, dests) ==
    /\ \/ AddRoutes(dests) /\ Continue(t, Rest(t))
       \/ AddRoutesFails(dests) /\ Raise(t)
    /\ UNCHANGED <<evars, disk>>

DoSyncGwRoutes(t) ==
    /\ SyncGwRoutes
    /\ Continue(t, Rest(t))
    /\ UNCHANGED <<evars, disk>>

DoRemoveWgPeer(t, pk) ==
    /\ RemoveWgPeer(pk)
    /\ Continue(t, Rest(t))
    /\ UNCHANGED <<evars, disk>>

DoRemoveRoutes(t, dests) ==
    /\ Continue(t, <<[op |-> "del_routes", dests |-> dests \cap routes,
                      gw |-> FALSE]>> \o Rest(t))
    /\ UNCHANGED <<evars, kvars, disk>>

\* remove_unknown is four steps: it lists the keys of the enabled peers,
\* removes the others, lists the unexpected routes and removes those.
DoRemoveUnknown(t) ==
    /\ Continue(t, <<[op |-> "remove_unknown_peers",
                      pks |-> {peers[v].desc.pk : v \in Enabled(peers)}],
                     Call("list_routes")>> \o Rest(t))
    /\ UNCHANGED <<evars, kvars, disk>>

DoRemoveUnknownPeers(t, pks) ==
    /\ RemoveUnknownPeers(pks)
    /\ Continue(t, Rest(t))
    /\ UNCHANGED <<evars, disk>>

DoListRoutes(t) ==
    /\ Continue(t, <<[op |-> "del_routes",
                      dests |-> routes \ UNION {Routes(peers[v]) :
                                                  v \in Enabled(peers)},
                      gw |-> gw_routes]>> \o Rest(t))
    /\ UNCHANGED <<evars, kvars, disk>>

DoDelRoutes(t, dests, gw) ==
    LET no_gateway == gw /\ EnabledGateways(peers) = {}
    IN  /\ \/ DelRoutes(dests, no_gateway) /\ Continue(t, Rest(t))
           \/ DelRoutesFails(dests, no_gateway) /\ Raise(t)
        /\ UNCHANGED <<evars, disk>>

\* Mutant: the list of WireGuard peers is not refreshed.
SyncWithoutQuery(t) ==
    /\ \E order \in SetToSeqs(Known(peers)) :
          Continue(t, Protected([i \in DOMAIN order |-> SyncPeer(order[i])])
                        \o <<Call("remove_unknown")>> \o Rest(t))
    /\ UNCHANGED <<evars, kvars, disk>>

\* sync() queries the interface (sync_interfaces) and then goes through the
\* peers of the table as it is now.
DoSync(t) ==
    /\ WgQuery
    /\ \E order \in SetToSeqs(Known(peers)) :
          Continue(t, Protected([i \in DOMAIN order |-> SyncPeer(order[i])])
                        \o <<Call("remove_unknown")>> \o Rest(t))
    /\ UNCHANGED <<evars, disk>>

\* get_new_system_state reads the system first, and raises the event in a
\* second step with what it has read.
DoGetNewSystemState(t) ==
    /\ \/ real = system_state /\ Continue(t, Rest(t))
       \/ /\ real # system_state
          /\ Continue(t, <<[op |-> "adopt", state |-> real]>> \o Rest(t))
    /\ UNCHANGED <<evars, kvars, disk>>

DoAdopt(t, s) ==
    /\ NewSystemState(s)
    /\ Save
    /\ \/ result'.error /\ Raise(t)
       \/ /\ ~result'.error
          /\ \E calls \in Triggers :
                Continue(t, calls \o <<Call("sync"), Call("instruct_zeroconf")>>
                              \o Rest(t))
    /\ UNCHANGED kvars

DoStartMonitor(t) ==
    /\ status' = [status EXCEPT !["monitor"] = "running"]
    /\ todo' = [todo EXCEPT ![t] = Resumed(Rest(t))]
    /\ UNCHANGED <<evars, kvars, disk>>

\* The calls to the daemons discover and publish are left out here.
DoNothing(t) ==
    /\ Continue(t, Rest(t))
    /\ UNCHANGED <<evars, kvars, disk>>

Do(t, c) ==
    CASE c.op = "sync_peer" -> DoSyncPeer(t, c.vk)
      [] c.op = "apply_peerconfig" -> DoApplyPeerConfig(t, c.peer)
      [] c.op = "sync_routes" -> DoSyncRoutes(t, c.peer)
      [] c.op = "add_routes" -> DoAddRoutes(t, c.dests)
      [] c.op = "sync_gw_routes" -> DoSyncGwRoutes(t)
      [] c.op = "remove_wg_peer" -> DoRemoveWgPeer(t, c.pk)
      [] c.op = "remove_routes" -> DoRemoveRoutes(t, c.dests)
      [] c.op = "remove_unknown" -> DoRemoveUnknown(t)
      [] c.op = "remove_unknown_peers" -> DoRemoveUnknownPeers(t, c.pks)
      [] c.op = "list_routes" -> DoListRoutes(t)
      [] c.op = "del_routes" -> DoDelRoutes(t, c.dests, c.gw)
      [] c.op = "sync" -> DoSync(t)
      [] c.op = "get_new_system_state" -> DoGetNewSystemState(t)
      [] c.op = "adopt" -> DoAdopt(t, c.state)
      [] c.op = "start_monitor" -> DoStartMonitor(t)
      [] c.op \in {"instruct_zeroconf", "main_loop", "reply"} -> DoNothing(t)

ThreadStep(t) ==
    /\ status[t] = "running"
    /\ todo[t] # <<>>
    /\ Do(t, Head(todo[t]))
    /\ Notify
    /\ undisturbed' =
          [u \in Thread |->
              IF u = t THEN undisturbed[u] \/ Head(todo[t]).op = "sync"
              ELSE undisturbed[u] /\ UNCHANGED <<peers, kvars>>]
    /\ UNCHANGED <<real, used>>

-----------------------------------------------------------------------------
(* What the threads and the environment start *)

\* Mutant: the monitor leaves the change to the main thread if that is busy.
MonitorYields ==
    /\ Idle("monitor")
    /\ notified
    /\ notified' = FALSE
    /\ todo' = [todo EXCEPT !["monitor"] =
                  IF Idle("dbus") THEN <<Call("get_new_system_state")>> ELSE <<>>]
    /\ UNCHANGED <<evars, kvars, status, real, disk, undisturbed, used>>

\* _monitor takes a message off the socket and then reads the system.  The
\* messages that wait are merged into one: reading the system once more for
\* each of them finds no further change.
MonitorWakes ==
    /\ Idle("monitor")
    /\ notified
    /\ notified' = FALSE
    /\ todo' = [todo EXCEPT !["monitor"] = <<Call("get_new_system_state")>>]
    /\ UNCHANGED <<evars, kvars, status, real, disk, undisturbed, used>>

Command ==
    \/ \E v \in Vk :
          \/ \E field \in EditFields \cap {"enabled", "pinned", "verified",
                                           "gateway"}, b \in BOOLEAN :
                SetFlag(v, field, b)
          \/ \E h \in Host : "verify" \in Commands /\ VerifyAndPinPeer(v, h)
          \/ \E a \in UserAddrs : UserPeerAddrAdd(v, a) \/ UserPeerAddrDel(v, a)
          \/ "remove" \in Commands /\ UserRemovePeer(v)
    \/ "release_gateway" \in Commands /\ ReleaseGateway
    \/ \E sn \in Subnet : EditSubnetsAllowed(sn)

\* The main loop starts to handle a descriptor or a command.
StartsWork ==
    /\ Idle("dbus")
    /\ used.events < MaxEvents
    /\ used' = [used EXCEPT !.events = @ + 1]
    /\ undisturbed' = [t \in Thread |-> FALSE]

DbusEvent ==
    /\ StartsWork
    /\ \/ \E d \in Descs : AcceptDescriptor(d) \/ RejectDescriptor(d)
       \/ Command
    /\ Save
    /\ \E calls \in Triggers : Continue("dbus", calls)
    /\ UNCHANGED <<kvars, notified, real>>

\* vula repair: the reply is sent once sync() returns.
Repair ==
    /\ "repair" \in Commands
    /\ StartsWork
    /\ Continue("dbus", <<Call("sync"), Call("reply")>>)
    /\ UNCHANGED <<evars, kvars, notified, real, disk>>

\* vula peer show queries the interface.
ShowPeer ==
    /\ "show" \in Commands
    /\ Idle("dbus")
    /\ WgQuery
    /\ undisturbed' = [t \in Thread |-> FALSE]
    /\ UNCHANGED <<evars, todo, status, notified, real, disk, used>>

\* The host gets or loses an address or a route.
SystemChanges ==
    /\ used.changes < MaxChanges
    /\ used' = [used EXCEPT !.changes = @ + 1]
    /\ real' \in SysStates \ {real}
    /\ notified' = (notified \/ status["monitor"] = "running")
    /\ UNCHANGED <<evars, kvars, todo, status, disk, undisturbed>>

\* systemd starts the daemon again: it loads the state file; the kernel is
\* as it was.
Restarted ==
    /\ peers' = disk.peers
    /\ prefs' = disk.prefs
    /\ system_state' = disk.system_state
    /\ result' = [event |-> "none", error |-> FALSE, sync |-> {}]
    /\ wgi' = {}
    /\ Started
    /\ UNCHANGED <<kernel, real, disk>>

Crash ==
    /\ used.crashes < MaxCrashes
    /\ used' = [used EXCEPT !.crashes = @ + 1]
    /\ Restarted

\* The daemon exits when the main thread and the monitor have ended.
Exit ==
    /\ status["dbus"] = "dead"
    /\ status["monitor"] # "running"
    /\ Restarted
    /\ UNCHANGED used

DaemonNext ==
    \/ \E t \in Thread : ThreadStep(t)
    \/ MonitorWakes
    \/ DbusEvent
    \/ Repair
    \/ ShowPeer
    \/ SystemChanges
    \/ Crash
    \/ Exit

\* The operating system schedules both threads and systemd restarts the
\* daemon.  Nothing is assumed of the user, the network or the system.
Fairness ==
    /\ \A t \in Thread : WF_allvars(ThreadStep(t))
    /\ WF_allvars(MonitorWakes)
    /\ WF_allvars(Exit)

DaemonSpec == DaemonInit /\ [][DaemonNext]_allvars /\ Fairness
-----------------------------------------------------------------------------
(* Properties *)

Ops ==
    {"sync_peer", "apply_peerconfig", "sync_routes", "add_routes",
     "sync_gw_routes", "remove_wg_peer", "remove_routes", "remove_unknown",
     "remove_unknown_peers", "list_routes", "del_routes", "sync",
     "get_new_system_state", "adopt", "start_monitor", "instruct_zeroconf",
     "main_loop", "reply", "catch"}

\* Type correctness of the daemon; the state file always holds a table that
\* the engine has validated.
DaemonTypeOK ==
    /\ TypeOK
    /\ KernelTypeOK
    /\ \A t \in Thread : \A i \in DOMAIN todo[t] : todo[t][i].op \in Ops
    /\ status \in [Thread -> {"off", "running", "dead"}]
    /\ notified \in BOOLEAN
    /\ real \in SysStates
    /\ disk.peers \in Peers /\ Conflicts(disk.peers) = {}
    /\ undisturbed \in [Thread -> BOOLEAN]

\* The end of get_new_system_state, of run() or of vula repair, after its
\* call of sync().
AfterSync(t) ==
    /\ todo[t] # <<>>
    /\ Head(todo[t]).op \in {"instruct_zeroconf", "main_loop", "reply"}

\* Whatever a crash, a lost trigger, a race or an outsider left in the kernel,
\* a sync() that nobody interferes with repairs all of it: stale peers and
\* routes are gone, and every enabled peer has its key, its addresses, its
\* routes and, if it is the gateway, the default routes.
RepairRestores ==
    \A t \in Thread : AfterSync(t) /\ undisturbed[t] => InSync(peers)

\* The kernel has what the enabled peers need, if not only that.
Configured(ps) ==
    \A v \in Enabled(ps) :
        /\ ps[v].desc.pk \in wg_peers
        /\ \A a \in WgAllowedIps(ps[v]) : allowed_ips[a] = ps[v].desc.pk
        /\ Routes(ps[v]) \subseteq routes
        /\ ps[v].use_as_gateway => gw_routes

AllIdle == \A t \in Thread : Idle(t)

\* While the network stays as it is, the triggers alone keep the kernel up
\* with the table: whenever the daemon has nothing left to do, every enabled
\* peer is reachable, in spite of evictions, removals and crashes.  (Where
\* peers are disabled this does not hold: removing a disabled peer removes the
\* routes to its addresses even if another peer has been accepted with them.)
EnabledConfigured == AllIdle => Configured(peers)

\* A change of the system that netlink reports to a running monitor is
\* adopted for good: the engine's system state catches up with the real one
\* and is not set back, as long as the monitor runs.  (It may be set back
\* where the main thread reads the system too, after an edit of a preference.)
ChangesAdopted ==
    [](status["monitor"] = "running" /\ notified =>
        <>[](system_state = real \/ status["monitor"] # "running"))

\* After a crash between any two steps (of an eviction, between the commit of
\* an event and its triggers, during a repair) the daemon gets back to its
\* main loop with the kernel exactly as the table asks for.
RestartRepairs ==
    [](todo["dbus"] = Startup => <>(Idle("dbus") /\ InSync(peers)))

-----------------------------------------------------------------------------
(* A statement of a docstring that the code does not keep *)

\* remove_unknown: "This is currently the code path where disabled and removed
\* peers get their routes and wg peer configs removed."
DisabledUnconfigured ==
    AllIdle => \A v \in Known(peers) \ Enabled(peers) :
                  peers[v].desc.pk \notin wg_peers
=============================================================================
