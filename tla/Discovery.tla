------------------------------ MODULE Discovery ------------------------------
(***************************************************************************)
(* Discovery over mDNS: the daemons discover (discover.py) and publish     *)
(* (publish.py) and the part of the organize daemon that instructs them    *)
(* (_instruct_zeroconf, rediscover and run of organize.py).                *)
(*                                                                         *)
(* The three are processes that call each other over D-Bus, and a caller   *)
(* waits for the answer.  organize has its main thread, which alone answers *)
(* the calls that arrive, and the thread of the netlink monitor.  discover *)
(* has its main thread and a browser thread for each address it listens    *)
(* at; a browser thread hands each descriptor to organize and waits, and   *)
(* cancel() of a browser waits for its thread.  `todo' holds the calls a   *)
(* thread of organize has still to make.                                   *)
(*                                                                         *)
(* D-Bus and python-zeroconf are external.  A D-Bus call fails if it has   *)
(* no answer after 25 seconds.  That is taken to be long enough for any    *)
(* call that can be answered, so only a call that is part of a deadlock    *)
(* times out.                                                              *)
(***************************************************************************)
EXTENDS Descriptors, FiniteSets

CONSTANTS
    OurKey,       \* the verify key of this host
    OurPk,        \* its WireGuard public key
    PrimaryIp,    \* prefs.primary_ip
    Allowed,      \* the addresses in subnets_allowed and not in
                  \* subnets_forbidden
    V4Enabled, V6Enabled,  \* organize's properties of those names
    Interfaces,   \* the values of system_state.current_interfaces
    Iface,        \* the names of the interfaces
    Name,         \* the names of the services other hosts announce
    Announcements, \* what a service may announce: a set of descriptors
    NoCall, Nobody, \* no call is served; nobody waits for the answer
    MaxAnnounce,  \* bound on the announcements of other hosts
    MaxWork       \* bound on the changes of the system, the user's commands
                  \* and the crashes of organize together

Thread == {"main", "monitor"}

ASSUME DiscoveryTypes ==
    /\ Nobody \notin Thread
    /\ V4Enabled \in BOOLEAN /\ V6Enabled \in BOOLEAN
    /\ \A s \in Interfaces : DOMAIN s \subseteq Iface
    /\ MaxAnnounce \in Nat /\ MaxWork \in Nat

ASSUME AnnouncedDescriptors == \A d \in Announcements : IsDescriptor(d)

VARIABLES
    system,    \* organize: system_state.current_interfaces
    todo,      \* organize: per thread, the calls it has still to make
    status,    \* organize: per thread, "off", "running" or "dead"
    waiting,   \* organize: per thread, whether it waits for an answer
    inbox,     \* organize: the calls its main loop has still to answer
    current_descriptors, \* organize: _current_descriptors
    accepted,  \* organize: the descriptors it passed to the state engine
    calls,     \* discover: the calls its main loop has still to answer
    serving,   \* discover: the call of listen() it is executing
    browsers,  \* discover: per address the state of the browser thread
    events,    \* discover: per address the services to look at
    zeroconfs, \* publish: per interface the descriptor that is announced
    remote,    \* what the other hosts announce at present
    mixed,     \* whether discover and publish may follow different readings
    used       \* how much of each bound is used up

ovars == <<system, todo, status, waiting, inbox, current_descriptors, accepted>>
dvars == <<calls, serving, browsers, events>>
vars == <<ovars, dvars, zeroconfs, remote, mixed, used>>

EmptyFn == [x \in {} |-> x]
Without(f, x) == [y \in DOMAIN f \ {x} |-> f[y]]
With(f, x, v) == [y \in DOMAIN f \cup {x} |-> IF y = x THEN v ELSE f[y]]

-----------------------------------------------------------------------------
(* organize: _construct_service_descriptor and _instruct_zeroconf *)

OurAddrs(s, iface) == SelectSeq(s[iface], LAMBDA a : a \in Allowed)

\* The time `vf' at which it is made is left out.
ServiceDescriptor(ips) ==
    LET addrs == SortLLFirst(ips)
    IN  Sign([p |-> PrimaryIp, pk |-> OurPk, vk |-> OurKey, port |-> 5354,
              v4a |-> IF V4Enabled THEN V4s(addrs) ELSE <<>>,
              v6a |-> IF V6Enabled THEN V6s(addrs) ELSE <<>>,
              vf |-> 0, r |-> <<>>],
             OurKey.id)

FirstOf(ips) == IF ips = <<>> THEN {} ELSE {ips[1]}

\* The strings that organize gives to publish, and the addresses that it
\* gives to discover, for each system state: at most one address per
\* interface and version.
OurDescriptorsIn ==
    [s \in Interfaces \cup {EmptyFn} |->
        [i \in DOMAIN s |-> AsString(ServiceDescriptor(OurAddrs(s, i)))]]

DiscoverIpsIn ==
    [s \in Interfaces \cup {EmptyFn} |->
        UNION {FirstOf(V4s(OurAddrs(s, i)))
                 \cup FirstOf(SortLLFirst(V6s(OurAddrs(s, i)))) :
                    i \in DOMAIN s}]

OurDescriptors == OurDescriptorsIn[system]
DiscoverIps == DiscoverIpsIn[system]

Listen(ips) == [op |-> "discover", ips |-> ips]
Call(op) == [op |-> op]

\* run(), from the removal of old listeners on.
Startup ==
    <<Listen({}), Call("get_new_system_state"), Call("start_monitor"),
      Call("instruct_zeroconf"), Call("main_loop")>>

Init ==
    /\ system = EmptyFn
    /\ todo = [t \in Thread |-> IF t = "main" THEN Startup ELSE <<>>]
    /\ status = [t \in Thread |-> IF t = "main" THEN "running" ELSE "off"]
    /\ waiting = [t \in Thread |-> FALSE]
    /\ inbox = <<>>
    /\ current_descriptors = EmptyFn
    /\ accepted = {}
    /\ calls = <<>>
    /\ serving = NoCall
    /\ browsers = EmptyFn
    /\ events = EmptyFn
    /\ zeroconfs = EmptyFn
    /\ remote = [n \in Name |-> None]
    /\ mixed = TRUE
    /\ used = [announce |-> 0, work |-> 0]

Idle(t) == status[t] = "running" /\ todo[t] = <<>>

\* The thread has begun to instruct the daemons and not finished yet.
Instructing(t) ==
    \E i \in DOMAIN todo[t] :
        todo[t][i].op \in {"discover", "publish"}

Continue(t, ops) == todo' = [todo EXCEPT ![t] = ops]

\* An exception in thread t: the monitor ends, and so does run() before the
\* main loop; D-Bus reports one in a command to the client.
Raise(t) ==
    LET starting == \E i \in DOMAIN todo[t] : todo[t][i].op = "main_loop"
    IN  /\ status' = [status EXCEPT ![t] =
                        IF t = "monitor" \/ starting THEN "dead" ELSE @]
        /\ todo' = [todo EXCEPT ![t] = <<>>]
        /\ mixed' = TRUE

Next1(t, op) == status[t] = "running" /\ todo[t] # <<>> /\ Head(todo[t]).op = op

\* The reading of the state at the start of _instruct_zeroconf.
InstructZeroconf(t) ==
    /\ Next1(t, "instruct_zeroconf")
    /\ Continue(t, <<Listen(DiscoverIps),
                     [op |-> "publish", read |-> system]>>
                   \o Tail(todo[t]))
    /\ mixed' = (\/ \E u \in Thread \ {t} : Instructing(u)
                 \/ calls # <<>> \/ serving # NoCall
                 \/ \E ip \in DOMAIN browsers : browsers[ip] = "dead")
    /\ UNCHANGED <<system, status, waiting, inbox, current_descriptors,
                   accepted, dvars, zeroconfs, remote, used>>

\* A call of discover.listen(): the thread waits.
CallDiscover(t) ==
    /\ Next1(t, "discover")
    /\ ~waiting[t]
    /\ waiting' = [waiting EXCEPT ![t] = TRUE]
    /\ calls' = Append(calls, [caller |-> t, ips |-> Head(todo[t]).ips])
    /\ UNCHANGED <<system, todo, status, inbox, current_descriptors, accepted,
                   serving, browsers, events, zeroconfs, remote, mixed, used>>

\* get_new_system_state in run(): a state that differs from the saved one is
\* adopted, and the daemons are instructed.  At the first start there is no
\* saved one.
ReadSystem(t) ==
    /\ Next1(t, "get_new_system_state")
    /\ \/ system # EmptyFn
          /\ Continue(t, Tail(todo[t]))
          /\ UNCHANGED <<system, used>>
       \/ /\ system' \in Interfaces \ {system}
          /\ \/ system = EmptyFn /\ UNCHANGED used
             \/ /\ used.work < MaxWork
                /\ used' = [used EXCEPT !.work = @ + 1]
          /\ Continue(t, <<Call("instruct_zeroconf")>> \o Tail(todo[t]))
    /\ UNCHANGED <<status, waiting, inbox, current_descriptors, accepted,
                   dvars, zeroconfs, remote, mixed>>

StartMonitor(t) ==
    /\ Next1(t, "start_monitor")
    /\ status' = [status EXCEPT !["monitor"] = "running"]
    /\ Continue(t, Tail(todo[t]))
    /\ UNCHANGED <<system, waiting, inbox, current_descriptors, accepted,
                   dvars, zeroconfs, remote, mixed, used>>

EnterMainLoop(t) ==
    /\ Next1(t, "main_loop")
    /\ Continue(t, Tail(todo[t]))
    /\ UNCHANGED <<system, status, waiting, inbox, current_descriptors,
                   accepted, dvars, zeroconfs, remote, mixed, used>>

\* get_new_system_state in the monitor, or in the main thread after an edit
\* of a preference.
AdoptSystemState(t) ==
    /\ Idle(t)
    /\ used.work < MaxWork
    /\ used' = [used EXCEPT !.work = @ + 1]
    /\ system' \in Interfaces \ {system}
    /\ Continue(t, <<Call("instruct_zeroconf")>>)
    /\ UNCHANGED <<status, waiting, inbox, current_descriptors, accepted,
                   dvars, zeroconfs, remote, mixed>>

Rediscover ==
    /\ Idle("main")
    /\ used.work < MaxWork
    /\ used' = [used EXCEPT !.work = @ + 1]
    /\ Continue("main", <<Listen({}), Call("instruct_zeroconf")>>)
    /\ mixed' = (mixed \/ Instructing("monitor"))
    /\ UNCHANGED <<system, status, waiting, inbox, current_descriptors,
                   accepted, dvars, zeroconfs, remote>>

\* The oldest call of a browser thread is answered.
AnswerOldest ==
    /\ inbox # <<>>
    /\ LET call == Head(inbox)
           d == Parse(call.str)
       IN  /\ accepted' = IF d # Invalid /\ VerifySignature(d)
                          THEN accepted \cup {d} ELSE accepted
           /\ browsers' = IF call.ip = Nobody THEN browsers
                          ELSE With(browsers, call.ip, "idle")
    /\ inbox' = Tail(inbox)
    /\ UNCHANGED <<system, todo, status, waiting, current_descriptors,
                   calls, serving, events, zeroconfs, remote, mixed, used>>

\* Mutant: the monitor keeps the engine locked while it instructs.
ProcessWhenUnlocked ==
    /\ Idle("main")
    /\ todo["monitor"] = <<>>
    /\ AnswerOldest

\* process_descriptor_string, in the main loop.
ProcessDescriptorString ==
    /\ Idle("main")
    /\ AnswerOldest

-----------------------------------------------------------------------------
(* discover: Discover.listen *)

\* It starts a browser for each new address, and then cancels those for the
\* addresses that are not in the list.
StartListening ==
    /\ serving = NoCall
    /\ calls # <<>>
    /\ LET call == Head(calls)
           ips == call.ips \cup DOMAIN browsers
       IN  /\ serving' = [caller |-> call.caller,
                          old |-> DOMAIN browsers \ call.ips]
           /\ browsers' = [ip \in ips |->
                             IF ip \in DOMAIN browsers THEN browsers[ip] ELSE "idle"]
           /\ events' = [ip \in ips |->
                           IF ip \in DOMAIN browsers THEN events[ip]
                           ELSE {n \in Name : remote[n] # None}]
    /\ calls' = Tail(calls)
    /\ UNCHANGED <<ovars, zeroconfs, remote, mixed, used>>

\* cancel() waits for the browser thread, which may be in a call.
CancelBrowser ==
    /\ serving # NoCall
    /\ \E ip \in serving.old :
          /\ browsers[ip] # "calling"
          /\ browsers' = Without(browsers, ip)
          /\ events' = Without(events, ip)
          /\ serving' = [serving EXCEPT !.old = @ \ {ip}]
    /\ UNCHANGED <<ovars, calls, zeroconfs, remote, mixed, used>>

\* The answer, to a caller that still waits for it.
ListenReturns ==
    /\ serving # NoCall
    /\ serving.old = {}
    /\ serving' = NoCall
    /\ \/ serving.caller = Nobody /\ UNCHANGED <<todo, waiting>>
       \/ /\ serving.caller # Nobody
          /\ waiting' = [waiting EXCEPT ![serving.caller] = FALSE]
          /\ Continue(serving.caller, Tail(todo[serving.caller]))
    /\ UNCHANGED <<system, status, inbox, current_descriptors, accepted, calls,
                   browsers, events, zeroconfs, remote, mixed, used>>

(* VulaServiceListener.add_service, in the browser thread *)

\* from_zeroconf_properties of what arrives of an announcement.
AsReceived ==
    [d \in Announcements |-> FromZeroconf(Received(AsZeroconf(d)))]

\* The descriptor of service n as the listener gets it now.
ServiceInfo(n) == IF remote[n] = None THEN Invalid ELSE AsReceived[remote[n]]

\* The service is gone, its properties are invalid, or it is our own.
DropService(ip, n) ==
    /\ browsers[ip] = "idle"
    /\ n \in events[ip]
    /\ IF ServiceInfo(n) = Invalid THEN TRUE ELSE ServiceInfo(n).pk = OurPk
    /\ events' = [events EXCEPT ![ip] = @ \ {n}]
    /\ UNCHANGED <<ovars, calls, serving, browsers, zeroconfs, remote, mixed,
                   used>>

\* The callback passes the descriptor, as a string, to organize.
AddService(ip, n) ==
    /\ browsers[ip] = "idle"
    /\ n \in events[ip]
    /\ ServiceInfo(n) # Invalid
    /\ ServiceInfo(n).pk # OurPk
    /\ inbox' = Append(inbox, [ip |-> ip, str |-> AsString(ServiceInfo(n))])
    /\ browsers' = [browsers EXCEPT ![ip] = "calling"]
    /\ events' = [events EXCEPT ![ip] = @ \ {n}]
    /\ UNCHANGED <<system, todo, status, waiting, current_descriptors,
                   accepted, calls, serving, zeroconfs, remote, mixed, used>>

-----------------------------------------------------------------------------
(* publish: Publish.listen.  It calls nobody and is one step. *)

\* The descriptors that publish parses, for each system state.
ToPublishIn ==
    [s \in DOMAIN OurDescriptorsIn |->
        [i \in DOMAIN s |-> Parse(OurDescriptorsIn[s][i])]]

\* Mutant: announcements on interfaces that are gone are kept.
PublishKeepsOld(t) ==
    /\ Next1(t, "publish")
    /\ zeroconfs' = ToPublishIn[Head(todo[t]).read] @@ zeroconfs
    /\ current_descriptors' = OurDescriptorsIn[Head(todo[t]).read]
    /\ Continue(t, Tail(todo[t]))
    /\ UNCHANGED <<system, status, waiting, inbox, accepted, dvars, remote,
                   mixed, used>>

\* Announcements on interfaces that are gone are closed, existing ones are
\* updated and new ones started.  (A new one whose name is taken stays in the
\* table; an existing one stays on the addresses it was started on.)  Making
\* the ServiceInfo of a descriptor that is too long raises.  When the call has
\* returned, organize keeps what it gave to publish.
PublishListen(t) ==
    /\ Next1(t, "publish")
    /\ LET descs == ToPublishIn[Head(todo[t]).read]
           kept == [i \in DOMAIN zeroconfs \cap DOMAIN descs |-> zeroconfs[i]]
           tooLong == {i \in DOMAIN descs : ~TxtFits(descs[i])}
       IN  \/ /\ tooLong = {}
              /\ zeroconfs' = descs
              /\ current_descriptors' = OurDescriptorsIn[Head(todo[t]).read]
              /\ Continue(t, Tail(todo[t]))
              /\ UNCHANGED <<status, mixed>>
           \/ /\ tooLong # {}
              /\ \E done \in SUBSET (DOMAIN descs \ tooLong) :
                    zeroconfs' = [i \in done |-> descs[i]] @@ kept
              /\ Raise(t)
              /\ UNCHANGED current_descriptors
    /\ UNCHANGED <<system, waiting, inbox, accepted, dvars, remote, used>>

-----------------------------------------------------------------------------
(* The network, D-Bus timeouts, crashes *)

\* Another host announces d, or withdraws its service (d = None).  Any of the
\* browsers may miss it.
RemoteAnnounces(n, d) ==
    /\ used.announce < MaxAnnounce
    /\ d # remote[n]
    /\ used' = [used EXCEPT !.announce = @ + 1]
    /\ remote' = [remote EXCEPT ![n] = d]
    /\ \E heard \in SUBSET DOMAIN events :
          events' = [ip \in DOMAIN events |->
                       IF ip \in heard /\ d # None THEN events[ip] \cup {n}
                       ELSE events[ip]]
    /\ UNCHANGED <<ovars, calls, serving, browsers, zeroconfs, mixed>>

\* The main thread of organize answers no call: it waits for discover, or
\* it has ended while the monitor keeps the process alive.
MainStuck == waiting["main"] \/ status["main"] = "dead"

\* The main thread of discover waits for a browser thread, which waits for
\* the main thread of organize.  (listen() cancels one browser after the
\* other: any of those to be cancelled may be the first.)
DiscoverStuck ==
    /\ MainStuck
    /\ serving # NoCall
    /\ \E ip \in serving.old : browsers[ip] = "calling"

\* The caller goes on with an exception.  The call is still executed.
CallTimesOut(t) ==
    /\ waiting[t]
    /\ DiscoverStuck
    /\ waiting' = [waiting EXCEPT ![t] = FALSE]
    /\ calls' = [i \in DOMAIN calls |->
                   IF calls[i].caller = t THEN [calls[i] EXCEPT !.caller = Nobody]
                   ELSE calls[i]]
    /\ serving' = IF serving.caller = t THEN [serving EXCEPT !.caller = Nobody]
                  ELSE serving
    /\ Raise(t)
    /\ UNCHANGED <<system, inbox, current_descriptors, accepted, browsers,
                   events, zeroconfs, remote, used>>

\* An exception ends a browser thread.
BrowserTimesOut(ip) ==
    /\ browsers[ip] = "calling"
    /\ DiscoverStuck \/ status["main"] = "dead"
    /\ browsers' = [browsers EXCEPT ![ip] = "dead"]
    /\ inbox' = [i \in DOMAIN inbox |->
                   IF inbox[i].ip = ip THEN [inbox[i] EXCEPT !.ip = Nobody]
                   ELSE inbox[i]]
    /\ mixed' = TRUE
    /\ UNCHANGED <<system, todo, status, waiting, current_descriptors,
                   accepted, calls, serving, events, zeroconfs, remote, used>>

\* systemd starts organize again.  The calls it has not answered fail.
Restarted ==
    /\ todo' = [t \in Thread |-> IF t = "main" THEN Startup ELSE <<>>]
    /\ status' = [t \in Thread |-> IF t = "main" THEN "running" ELSE "off"]
    /\ waiting' = [t \in Thread |-> FALSE]
    /\ inbox' = <<>>
    /\ current_descriptors' = EmptyFn
    /\ calls' = [i \in DOMAIN calls |-> [calls[i] EXCEPT !.caller = Nobody]]
    /\ serving' = IF serving = NoCall THEN NoCall
                  ELSE [serving EXCEPT !.caller = Nobody]
    /\ browsers' = [ip \in DOMAIN browsers |->
                      IF browsers[ip] = "calling" THEN "dead" ELSE browsers[ip]]
    /\ mixed' = TRUE
    /\ UNCHANGED <<system, accepted, events, zeroconfs, remote>>

Crash ==
    /\ used.work < MaxWork
    /\ used' = [used EXCEPT !.work = @ + 1]
    /\ Restarted

Exit ==
    /\ status["main"] = "dead"
    /\ status["monitor"] # "running"
    /\ Restarted
    /\ UNCHANGED used

ThreadStep(t) ==
    \/ InstructZeroconf(t) \/ CallDiscover(t) \/ PublishListen(t)
    \/ ReadSystem(t) \/ StartMonitor(t) \/ EnterMainLoop(t)

DiscoverStep == StartListening \/ CancelBrowser \/ ListenReturns

BrowserStep(ip) == \E n \in Name : DropService(ip, n) \/ AddService(ip, n)

TimeOut ==
    \/ \E t \in Thread : CallTimesOut(t)
    \/ \E ip \in DOMAIN browsers : BrowserTimesOut(ip)

Next ==
    \/ \E t \in Thread : ThreadStep(t) \/ AdoptSystemState(t)
    \/ ProcessDescriptorString
    \/ Rediscover
    \/ DiscoverStep
    \/ \E ip \in DOMAIN browsers : BrowserStep(ip)
    \/ \E n \in Name, d \in Announcements \cup {None} : RemoteAnnounces(n, d)
    \/ TimeOut
    \/ Crash
    \/ Exit

\* The addresses this host may ever listen at.
Ips == UNION {DiscoverIpsIn[s] : s \in Interfaces}

ASSUME NoCallIsNone ==
    NoCall \notin [caller : Thread \cup {Nobody}, old : SUBSET Ips]

\* Every thread is scheduled, D-Bus fails a call that is never answered, and
\* systemd restarts organize.
Fairness ==
    /\ \A t \in Thread : WF_vars(ThreadStep(t))
    /\ WF_vars(ProcessDescriptorString)
    /\ WF_vars(DiscoverStep)
    /\ \A ip \in Ips : WF_vars(ip \in DOMAIN browsers /\ BrowserStep(ip))
    /\ WF_vars(TimeOut)
    /\ WF_vars(Exit)

Spec == Init /\ [][Next]_vars /\ Fairness
-----------------------------------------------------------------------------
(* Properties *)

\* What organize hands to its state engine is, field by field, a descriptor
\* that somebody announced and signed with the key it names, with keys of
\* the right length and a port: nothing is altered by packing, by the
\* strings or by the two parsers on the way, and nothing malformed passes.
AcceptedAsAnnounced ==
    \A d \in accepted :
        /\ d \in Announcements
        /\ d.s.id[1] = d.vk.id
        /\ d.s.id[2].vf = Text(d.vf)
        /\ d.pk.len = 32 /\ d.vk.len = 32
        /\ d.port \in Ports
        /\ d.pk # OurPk

Quiet ==
    /\ \A t \in Thread : todo[t] = <<>>
    /\ status["main"] = "running"
    /\ calls = <<>> /\ serving = NoCall

\* Unless two threads have instructed the daemons at the same time, one was
\* interrupted by an exception, or a browser thread was already dead: once
\* organize is done with _instruct_zeroconf, discover listens exactly at the addresses of the present system state, with a browser
\* thread that is alive at each, and publish announces exactly the present
\* descriptors, which are those organize shows to the user.
InstructedAsAdopted ==
    Quiet /\ ~mixed =>
        /\ DOMAIN browsers = DiscoverIps
        /\ \A ip \in DOMAIN browsers : browsers[ip] # "dead"
        /\ current_descriptors = OurDescriptors
        /\ zeroconfs = ToPublishIn[system]

\* Every call of discover.listen() returns, although discover calls organize
\* back and its main thread waits for those calls: a deadlock of the two main
\* threads ends with a timeout, and while the monitor thread waits the main
\* loop goes on answering, so that its call is not held up for ever.
CallsReturn == \A t \in Thread : waiting[t] ~> ~waiting[t]

\* A descriptor that has an address of each version and is well formed.
WellFormed(d) ==
    /\ VerifySignature(d)
    /\ d.v4a # <<>> /\ d.v6a # <<>>
    /\ d.pk.len = 32 /\ d.vk.len = 32 /\ d.s.len = 64
    /\ d.port \in Ports
    /\ d.pk # OurPk

Arriving == {d \in Announcements : WellFormed(d)}

Hears(ip, n) ==
    ip \in DOMAIN browsers /\ browsers[ip] # "dead" /\ n \in events[ip]

\* A well-formed descriptor that a browser has heard of reaches the state
\* engine, whatever calls are under way, unless it is replaced first, or the
\* browser is removed or loses its thread.
AnnouncementsArrive ==
    \A ip \in Ips, n \in Name, d \in Arriving :
        Hears(ip, n) /\ remote[n] = d ~>
            \/ d \in accepted
            \/ remote[n] # d
            \/ ip \notin DOMAIN browsers
            \/ browsers[ip] = "dead"
=============================================================================
