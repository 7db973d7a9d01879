--------------------------- MODULE DiscoveryProofs ---------------------------
(***************************************************************************)
(* Proofs about Discovery, for every choice of its constants.              *)
(*                                                                         *)
(* InstructedAsAdopted needs an invariant (Instructed) that follows an     *)
(* _instruct_zeroconf from its reading of the system state over the call   *)
(* of discover.listen() to that of publish.listen(), as long as no other   *)
(* one waits to be made.  That the answer to a call reaches the thread     *)
(* that waits for it, and none else, is CallersOK; that the browser thread *)
(* an answer goes to still exists is InboxOK.                              *)
(***************************************************************************)
EXTENDS Discovery, DescriptorProofs

States == Interfaces \cup {EmptyFn}

\* The calls that may wait in a thread of organize.
Ops ==
    [op : {"get_new_system_state", "start_monitor", "instruct_zeroconf",
           "main_loop"}]
        \cup [op : {"discover"}, ips : SUBSET Ips]
        \cup [op : {"publish"}, read : States]

Callers == Thread \cup {Nobody}

\* The announcements that a browser thread passes on to organize.
Passing ==
    {d \in Announcements : AsReceived[d] # Invalid /\ AsReceived[d].pk # OurPk}

Requests ==
    [ip : Ips \cup {Nobody}, str : {AsString(AsReceived[d]) : d \in Passing}]

TypesOK ==
    /\ system \in States
    /\ todo \in [Thread -> Seq(Ops)]
    /\ waiting \in [Thread -> BOOLEAN]
    /\ inbox \in Seq(Requests)
    /\ calls \in Seq([caller : Callers, ips : SUBSET Ips])
    /\ serving \in {NoCall} \cup [caller : Callers, old : SUBSET Ips]
    /\ DOMAIN browsers \subseteq Ips
    /\ browsers \in [DOMAIN browsers -> {"idle", "calling", "dead"}]
    /\ remote \in [Name -> Announcements \cup {None}]
    /\ mixed \in BOOLEAN

\* The calls of discover and publish come first, in this order.
Plain(s) == \A i \in 1..Len(s) : s[i].op \notin {"discover", "publish"}
InFront(s) ==
    \A i \in 1..Len(s) :
        /\ s[i].op = "discover" => i = 1
        /\ s[i].op = "publish" => i = 1 \/ (i = 2 /\ s[1].op = "discover")
HasInstruct(s) == \E i \in 1..Len(s) : s[i].op = "instruct_zeroconf"

\* A call that discover has not answered yet has a thread that waits for it,
\* unless it was given up; a thread waits for one call.
CallersOK ==
    /\ \A t \in Thread : waiting[t] => todo[t] # <<>> /\ todo[t][1].op = "discover"
    /\ \A i \in 1..Len(calls) : calls[i].caller # Nobody =>
          /\ waiting[calls[i].caller]
          /\ \A j \in 1..Len(calls) : calls[j].caller = calls[i].caller => i = j
    /\ serving # NoCall /\ serving.caller # Nobody =>
          /\ waiting[serving.caller]
          /\ \A i \in 1..Len(calls) : calls[i].caller # serving.caller

\* The same for the calls of the browser threads.
InboxOK ==
    \A i \in 1..Len(inbox) : inbox[i].ip # Nobody =>
        /\ inbox[i].ip \in DOMAIN browsers
        /\ browsers[inbox[i].ip] = "calling"
        /\ \A j \in 1..Len(inbox) : inbox[j].ip = inbox[i].ip => i = j

Settled ==
    /\ calls = <<>> /\ serving = NoCall
    /\ DOMAIN browsers = DiscoverIps
    /\ current_descriptors = OurDescriptors
    /\ zeroconfs = ToPublishIn[system]

\* Thread t has read the system state: its call of discover.listen() is to be
\* made, waits, is under way, or has returned.
ToListen(t) ==
    /\ Len(todo[t]) >= 2
    /\ todo[t][1].op = "discover" /\ todo[t][1].ips = DiscoverIps
    /\ todo[t][2].op = "publish" /\ todo[t][2].read = system
    /\ \/ ~waiting[t] /\ calls = <<>> /\ serving = NoCall
       \/ /\ waiting[t] /\ serving = NoCall
          /\ Len(calls) = 1 /\ calls[1].ips = DiscoverIps /\ calls[1].caller = t
       \/ /\ waiting[t] /\ calls = <<>> /\ serving # NoCall
          /\ serving.caller = t
          /\ DOMAIN browsers = DiscoverIps \cup serving.old
          /\ serving.old \cap DiscoverIps = {}
ToPublish(t) ==
    /\ Len(todo[t]) >= 1
    /\ todo[t][1].op = "publish" /\ todo[t][1].read = system
    /\ calls = <<>> /\ serving = NoCall
    /\ DOMAIN browsers = DiscoverIps

Instructed ==
    ~mixed /\ (\A t \in Thread : ~HasInstruct(todo[t])) =>
        /\ \A ip \in DOMAIN browsers : browsers[ip] # "dead"
        /\ \/ (\A t \in Thread : Plain(todo[t])) /\ Settled
           \/ \E t \in Thread : /\ \A u \in Thread \ {t} : Plain(todo[u])
                                /\ ToListen(t) \/ ToPublish(t)

DiscInv ==
    /\ TypesOK
    /\ \A t \in Thread : InFront(todo[t])
    /\ CallersOK
    /\ InboxOK
    /\ Instructed

-----------------------------------------------------------------------------
(* Lemmas about the waiting calls *)

\* The calls that the model makes are calls.
LEMMA OpTypes ==
    /\ \A op \in {"get_new_system_state", "start_monitor", "instruct_zeroconf",
                  "main_loop"} : Call(op) \in Ops /\ Call(op).op = op
    /\ \A ips \in SUBSET Ips : /\ Listen(ips) \in Ops /\ Listen(ips).op = "discover"
                               /\ Listen(ips).ips = ips
    /\ \A s \in States : [op |-> "publish", read |-> s] \in Ops
  BY DEF Ops, Call, Listen

\* The addresses to listen at, in any state of the system.
LEMMA ListenIps ==
    ASSUME NEW s \in States
    PROVE  DiscoverIpsIn[s] \in SUBSET Ips
  <1>1. CASE s \in Interfaces
    BY <1>1 DEF Ips
  <1>2. CASE s = EmptyFn
    <2>1. DOMAIN EmptyFn = {}
      BY DEF EmptyFn
    <2>2. DiscoverIpsIn[EmptyFn] = {}
      BY <2>1 DEF DiscoverIpsIn
    <2> QED
      BY <1>2, <2>2
  <1> QED
    BY <1>1, <1>2 DEF States

\* What is left after the first call.
LEMMA TailFacts ==
    ASSUME NEW s \in Seq(Ops), s # <<>>
    PROVE  /\ Head(s) = s[1] /\ s[1] \in Ops
           /\ Tail(s) \in Seq(Ops) /\ Len(Tail(s)) = Len(s) - 1
           /\ \A i \in 1..Len(s) - 1 : Tail(s)[i] = s[i + 1]
           /\ InFront(s) => InFront(Tail(s))
           /\ InFront(s) /\ s[1].op # "discover" => Plain(Tail(s))
           /\ Plain(s) => Plain(Tail(s))
           /\ s[1].op # "instruct_zeroconf" /\ HasInstruct(s) => HasInstruct(Tail(s))
  <1>1. /\ Head(s) = s[1] /\ s[1] \in Ops
        /\ Tail(s) \in Seq(Ops) /\ Len(Tail(s)) = Len(s) - 1 /\ Len(s) \in Nat
        /\ \A i \in 1..Len(s) - 1 : Tail(s)[i] = s[i + 1]
    OBVIOUS
  <1>2. PICK r : r = Tail(s)
    OBVIOUS
  <1>3. /\ Len(r) = Len(s) - 1
        /\ \A i \in 1..Len(r) : i + 1 \in 1..Len(s) /\ r[i] = s[i + 1]
    BY <1>1, <1>2
  <1>4. InFront(s) => InFront(r)
    BY <1>1, <1>3 DEF InFront
  <1>5. InFront(s) /\ s[1].op # "discover" => Plain(r)
    BY <1>1, <1>3 DEF InFront, Plain
  <1>6. Plain(s) => Plain(r)
    BY <1>1, <1>3 DEF Plain
  <1>7. ASSUME s[1].op # "instruct_zeroconf", HasInstruct(s)
        PROVE  HasInstruct(r)
    <2>1. PICK i \in 1..Len(s) : s[i].op = "instruct_zeroconf"
      BY <1>7 DEF HasInstruct
    <2>2. i - 1 \in 1..Len(r) /\ (i - 1) + 1 = i
      BY <1>1, <1>3, <1>7, <2>1
    <2>3. r[i - 1] = s[i]
      BY <1>3, <2>2
    <2> QED
      BY <2>1, <2>2, <2>3 DEF HasInstruct
  <1> QED
    BY <1>1, <1>2, <1>4, <1>5, <1>6, <1>7

\* One or two calls before others.
LEMMA ConsFacts ==
    ASSUME NEW s \in Seq(Ops), NEW x \in Ops, NEW y \in Ops
    PROVE  /\ <<x>> \o s \in Seq(Ops) /\ <<x, y>> \o s \in Seq(Ops)
           /\ (<<x>> \o s)[1] = x
           /\ Len(<<x, y>> \o s) >= 2
           /\ (<<x, y>> \o s)[1] = x /\ (<<x, y>> \o s)[2] = y
           /\ Plain(s) => InFront(<<x>> \o s)
           /\ Plain(s) /\ x.op = "discover" /\ y.op # "discover" =>
                 InFront(<<x, y>> \o s)
           /\ x.op = "instruct_zeroconf" => HasInstruct(<<x>> \o s)
           /\ HasInstruct(s) => HasInstruct(<<x, y>> \o s)
  <1>1. PICK r, w : r = <<x>> \o s /\ w = <<x, y>> \o s
    OBVIOUS
  <1>2. /\ r \in Seq(Ops) /\ Len(r) = Len(s) + 1 /\ Len(s) \in Nat
        /\ r[1] = x /\ \A i \in 2..Len(r) : r[i] = s[i - 1]
    BY <1>1
  <1>3. /\ w \in Seq(Ops) /\ Len(w) = Len(s) + 2
        /\ w[1] = x /\ w[2] = y /\ \A i \in 3..Len(w) : w[i] = s[i - 2]
    BY <1>1
  <1>4. ASSUME Plain(s) PROVE InFront(r)
    <2> SUFFICES ASSUME NEW i \in 1..Len(r), i # 1
                 PROVE  r[i].op \notin {"discover", "publish"}
      BY DEF InFront
    <2>1. i - 1 \in 1..Len(s) /\ r[i] = s[i - 1]
      BY <1>2
    <2> QED
      BY <1>4, <2>1 DEF Plain
  <1>5. ASSUME Plain(s), x.op = "discover", y.op # "discover" PROVE InFront(w)
    <2>1. ASSUME NEW i \in 1..Len(w), i # 1, i # 2
          PROVE  w[i].op \notin {"discover", "publish"}
      <3>1. i - 2 \in 1..Len(s) /\ w[i] = s[i - 2]
        BY <1>2, <1>3, <2>1
      <3> QED
        BY <1>5, <3>1 DEF Plain
    <2>2. w[2].op # "discover" /\ w[1].op = "discover"
      BY <1>3, <1>5
    <2> QED
      BY <2>1, <2>2 DEF InFront
  <1>6. x.op = "instruct_zeroconf" => HasInstruct(r)
    BY <1>2 DEF HasInstruct
  <1>7. ASSUME HasInstruct(s) PROVE HasInstruct(w)
    <2>1. PICK i \in 1..Len(s) : s[i].op = "instruct_zeroconf"
      BY <1>7 DEF HasInstruct
    <2>2. i + 2 \in 1..Len(w) /\ i + 2 \in 3..Len(w) /\ (i + 2) - 2 = i
      BY <1>2, <1>3
    <2>3. w[i + 2] = s[i]
      BY <1>3, <2>2
    <2> QED
      BY <2>1, <2>2, <2>3 DEF HasInstruct
  <1> QED
    BY <1>1, <1>2, <1>3, <1>4, <1>5, <1>6, <1>7

\* A thread that is not instructing has nothing but plain calls.
LEMMA PlainNotInstructing ==
    ASSUME TypesOK, NEW t \in Thread
    PROVE  Instructing(t) <=> ~Plain(todo[t])
  <1>1. todo[t] \in Seq(Ops)
    BY DEF TypesOK
  <1>2. DOMAIN todo[t] = 1..Len(todo[t])
    BY <1>1
  <1> QED
    BY <1>2 DEF Instructing, Plain

\* The calls that run() makes.
LEMMA StartupCalls ==
    /\ Startup \in Seq(Ops)
    /\ InFront(Startup)
  <1>1. Listen({}) \in Ops /\ Listen({}).op = "discover"
    BY OpTypes
  <1>2. /\ Call("get_new_system_state") \in Ops /\ Call("start_monitor") \in Ops
        /\ Call("instruct_zeroconf") \in Ops /\ Call("main_loop") \in Ops
    BY OpTypes
  <1>3. /\ Call("get_new_system_state").op = "get_new_system_state"
        /\ Call("start_monitor").op = "start_monitor"
        /\ Call("instruct_zeroconf").op = "instruct_zeroconf"
        /\ Call("main_loop").op = "main_loop"
    BY OpTypes
  <1>4. PICK a, b, c, d, e : /\ a = Listen({}) /\ b = Call("get_new_system_state")
                             /\ c = Call("start_monitor")
                             /\ d = Call("instruct_zeroconf") /\ e = Call("main_loop")
    OBVIOUS
  <1>5. Startup = <<a, b, c, d, e>>
    BY <1>4 DEF Startup
  <1>6. <<a, b, c, d, e>> \in Seq(Ops)
    BY <1>1, <1>2, <1>4
  <1>7. InFront(<<a, b, c, d, e>>)
    BY <1>1, <1>3, <1>4 DEF InFront
  <1> QED
    BY <1>5, <1>6, <1>7

-----------------------------------------------------------------------------
(* The types *)

\* A thread of organize keeps the types.
LEMMA ThreadTypes ==
    ASSUME TypesOK, NEW t \in Thread, ThreadStep(t) \/ AdoptSystemState(t)
    PROVE  TypesOK'
  <1>0. /\ todo \in [Thread -> Seq(Ops)] /\ todo[t] \in Seq(Ops)
        /\ system \in States
    BY DEF TypesOK
  <1>1. ASSUME todo[t] # <<>> PROVE Head(todo[t]) \in Ops /\ Tail(todo[t]) \in Seq(Ops)
    BY <1>0, <1>1, TailFacts
  <1>2. CASE InstructZeroconf(t)
    <2>1. PICK x, y : x = Listen(DiscoverIps) /\ y = [op |-> "publish", read |-> system]
      OBVIOUS
    <2>2. x \in Ops /\ y \in Ops
      BY <1>0, <2>1, ListenIps, OpTypes DEF DiscoverIps
    <2>3. <<x, y>> \o Tail(todo[t]) \in Seq(Ops)
      BY <1>1, <1>2, <2>2, ConsFacts DEF InstructZeroconf, Next1
    <2>4. todo' = [todo EXCEPT ![t] = <<x, y>> \o Tail(todo[t])]
      BY <1>2, <2>1 DEF InstructZeroconf, Continue
    <2>5. todo' \in [Thread -> Seq(Ops)]
      BY <1>0, <2>3, <2>4
    <2>6. mixed' \in BOOLEAN
      BY <1>2 DEF InstructZeroconf
    <2> QED
      BY <1>2, <2>5, <2>6 DEF InstructZeroconf, TypesOK, dvars
  <1>3. CASE CallDiscover(t)
    <2>1. Head(todo[t]) \in Ops /\ Head(todo[t]).op = "discover"
      BY <1>1, <1>3 DEF CallDiscover, Next1
    <2>2. Head(todo[t]).ips \in SUBSET Ips
      BY <2>1 DEF Ops
    <2>3. [caller |-> t, ips |-> Head(todo[t]).ips] \in [caller : Callers, ips : SUBSET Ips]
      BY <2>2 DEF Callers
    <2>4. calls' \in Seq([caller : Callers, ips : SUBSET Ips])
      BY <1>3, <2>3 DEF CallDiscover, TypesOK
    <2>5. waiting' \in [Thread -> BOOLEAN]
      BY <1>3 DEF CallDiscover, TypesOK
    <2> QED
      BY <1>3, <2>4, <2>5 DEF CallDiscover, TypesOK
  <1>4. CASE PublishListen(t)
    <2>1. <<>> \in Seq(Ops)
      OBVIOUS
    <2>2. \/ todo' = [todo EXCEPT ![t] = Tail(todo[t])] /\ mixed' = mixed
          \/ todo' = [todo EXCEPT ![t] = <<>>] /\ mixed' = TRUE
      BY <1>4 DEF PublishListen, Continue, Raise
    <2>3. Tail(todo[t]) \in Seq(Ops)
      BY <1>0, <1>1, <1>4 DEF PublishListen, Next1, TypesOK
    <2>4. todo' \in [Thread -> Seq(Ops)] /\ mixed' \in BOOLEAN
      BY <2>1, <2>2, <2>3 DEF TypesOK
    <2> QED
      BY <1>4, <2>4 DEF PublishListen, TypesOK, dvars
  <1>5. CASE ReadSystem(t)
    <2>1. PICK x : x = Call("instruct_zeroconf")
      OBVIOUS
    <2>2. x \in Ops
      BY <2>1, OpTypes
    <2>3. Tail(todo[t]) \in Seq(Ops) /\ <<x>> \o Tail(todo[t]) \in Seq(Ops)
      BY <1>1, <1>5, <2>2, ConsFacts DEF ReadSystem, Next1
    <2>4. \/ todo' = [todo EXCEPT ![t] = Tail(todo[t])]
          \/ todo' = [todo EXCEPT ![t] = <<x>> \o Tail(todo[t])]
      BY <1>5, <2>1 DEF ReadSystem, Continue
    <2>5. todo' \in [Thread -> Seq(Ops)]
      BY <1>0, <2>3, <2>4
    <2>6. system' \in States
      BY <1>0, <1>5 DEF ReadSystem, States
    <2> QED
      BY <1>5, <2>5, <2>6 DEF ReadSystem, TypesOK, dvars
  <1>6. CASE StartMonitor(t)
    <2>1. todo' \in [Thread -> Seq(Ops)]
      BY <1>0, <1>1, <1>6 DEF StartMonitor, Next1, Continue
    <2> QED
      BY <1>6, <2>1 DEF StartMonitor, TypesOK, dvars
  <1>7. CASE EnterMainLoop(t)
    <2>1. todo' \in [Thread -> Seq(Ops)]
      BY <1>0, <1>1, <1>7 DEF EnterMainLoop, Next1, Continue
    <2> QED
      BY <1>7, <2>1 DEF EnterMainLoop, TypesOK, dvars
  <1>8. CASE AdoptSystemState(t)
    <2>1. <<Call("instruct_zeroconf")>> \in Seq(Ops)
      BY OpTypes
    <2>2. todo' \in [Thread -> Seq(Ops)] /\ system' \in States
      BY <1>0, <1>8, <2>1 DEF AdoptSystemState, Continue, States
    <2> QED
      BY <1>8, <2>2 DEF AdoptSystemState, TypesOK, dvars
  <1> QED
    BY <1>2, <1>3, <1>4, <1>5, <1>6, <1>7, <1>8 DEF ThreadStep

\* So do the commands and calls that organize answers in its main loop.
LEMMA MainLoopTypes ==
    ASSUME TypesOK, ProcessDescriptorString \/ Rediscover
    PROVE  TypesOK'
  <1>1. CASE ProcessDescriptorString
    <2>1. inbox \in Seq(Requests) /\ inbox # <<>>
      BY <1>1 DEF TypesOK, ProcessDescriptorString, AnswerOldest
    <2>2. Head(inbox) \in Requests /\ Tail(inbox) \in Seq(Requests)
      BY <2>1
    <2>3. Head(inbox).ip \in Ips \cup {Nobody}
      BY <2>2 DEF Requests
    <2>4. \/ browsers' = browsers
          \/ Head(inbox).ip \in Ips /\ browsers' = With(browsers, Head(inbox).ip, "idle")
      BY <1>1, <2>3 DEF ProcessDescriptorString, AnswerOldest
    <2>5. /\ DOMAIN browsers' \subseteq Ips
          /\ browsers' \in [DOMAIN browsers' -> {"idle", "calling", "dead"}]
      BY <2>4 DEF With, TypesOK
    <2> QED
      BY <1>1, <2>2, <2>5 DEF ProcessDescriptorString, AnswerOldest, TypesOK
  <1>2. CASE Rediscover
    <2>1. <<Listen({}), Call("instruct_zeroconf")>> \in Seq(Ops)
      <3>1. {} \in SUBSET Ips
        OBVIOUS
      <3> QED
        BY <3>1, OpTypes
    <2>2. todo' \in [Thread -> Seq(Ops)] /\ mixed' \in BOOLEAN
      BY <1>2, <2>1 DEF Rediscover, Continue, TypesOK, Thread
    <2> QED
      BY <1>2, <2>2 DEF Rediscover, TypesOK, dvars
  <1> QED
    BY <1>1, <1>2

\* So does discover.
LEMMA DiscoverTypes ==
    ASSUME TypesOK, CallersOK, DiscoverStep
    PROVE  TypesOK'
  <1>1. CASE StartListening
    <2>1. calls \in Seq([caller : Callers, ips : SUBSET Ips]) /\ calls # <<>>
      BY <1>1 DEF TypesOK, StartListening
    <2>2. /\ Head(calls) \in [caller : Callers, ips : SUBSET Ips]
          /\ Tail(calls) \in Seq([caller : Callers, ips : SUBSET Ips])
      <3>1. ASSUME NEW S, NEW q \in Seq(S), q # <<>>
            PROVE  Head(q) \in S /\ Tail(q) \in Seq(S)
        BY <3>1
      <3> QED
        BY <2>1, <3>1
    <2>3. serving' \in [caller : Callers, old : SUBSET Ips]
      BY <1>1, <2>2 DEF StartListening, TypesOK
    <2>4. /\ DOMAIN browsers' \subseteq Ips
          /\ browsers' \in [DOMAIN browsers' -> {"idle", "calling", "dead"}]
      BY <1>1, <2>2 DEF StartListening, TypesOK
    <2> QED
      BY <1>1, <2>2, <2>3, <2>4 DEF StartListening, TypesOK, ovars
  <1>2. CASE CancelBrowser
    <2>1. serving \in [caller : Callers, old : SUBSET Ips]
      BY <1>2 DEF CancelBrowser, TypesOK
    <2>2. PICK ip \in serving.old : /\ browsers' = Without(browsers, ip)
                                    /\ serving' = [serving EXCEPT !.old = @ \ {ip}]
      BY <1>2 DEF CancelBrowser
    <2>3. serving' \in [caller : Callers, old : SUBSET Ips]
      BY <2>1, <2>2
    <2>4. /\ DOMAIN browsers' \subseteq Ips
          /\ browsers' \in [DOMAIN browsers' -> {"idle", "calling", "dead"}]
      BY <2>2 DEF Without, TypesOK
    <2> QED
      BY <1>2, <2>3, <2>4 DEF CancelBrowser, TypesOK, ovars
  <1>3. CASE ListenReturns
    <2>1. CASE serving.caller = Nobody /\ UNCHANGED <<todo, waiting>>
      BY <1>3, <2>1 DEF ListenReturns, TypesOK
    <2>2. CASE /\ serving.caller # Nobody
               /\ waiting' = [waiting EXCEPT ![serving.caller] = FALSE]
               /\ Continue(serving.caller, Tail(todo[serving.caller]))
      <3>1. PICK t : t = serving.caller
        OBVIOUS
      <3>2. t \in Thread
        BY <1>3, <2>2, <3>1 DEF ListenReturns, TypesOK, Callers
      <3>3. todo' \in [Thread -> Seq(Ops)]
        <4>1. todo[t] # <<>>
          BY <1>3, <2>2, <3>1, <3>2 DEF ListenReturns, CallersOK
        <4>2. Tail(todo[t]) \in Seq(Ops)
          BY <3>2, <4>1, TailFacts DEF TypesOK
        <4> QED
          BY <2>2, <3>1, <3>2, <4>2 DEF Continue, TypesOK
      <3>4. waiting' \in [Thread -> BOOLEAN]
        BY <2>2, <3>1, <3>2 DEF TypesOK
      <3> QED
        BY <1>3, <3>3, <3>4 DEF ListenReturns, TypesOK
    <2> QED
      BY <1>3, <2>1, <2>2 DEF ListenReturns
  <1> QED
    BY <1>1, <1>2, <1>3 DEF DiscoverStep
\* A sequence of the same length.
LEMMA SameLength ==
    ASSUME NEW S, NEW T, NEW q \in Seq(S), NEW g, g \in [DOMAIN q -> T]
    PROVE  g \in Seq(T) /\ Len(g) = Len(q) /\ DOMAIN g = 1..Len(q)
  <1>1. DOMAIN q = 1..Len(q) /\ Len(q) \in Nat
    OBVIOUS
  <1>2. g \in [1..Len(q) -> T] /\ DOMAIN g = 1..Len(q)
    BY <1>1
  <1> QED
    BY <1>1, <1>2

\* Calls whose callers gave them up, to discover and to organize.
LEMMA GivenUp ==
    ASSUME NEW q \in Seq([caller : Callers, ips : SUBSET Ips]), NEW r, NEW t,
           \/ r = [i \in DOMAIN q |-> IF q[i].caller = t
                     THEN [q[i] EXCEPT !.caller = Nobody] ELSE q[i]]
           \/ r = [i \in DOMAIN q |-> [q[i] EXCEPT !.caller = Nobody]]
    PROVE  r \in Seq([caller : Callers, ips : SUBSET Ips]) /\ Len(r) = Len(q)
  <1> DEFINE S == [caller : Callers, ips : SUBSET Ips]
  <1>1. \A c \in S : [c EXCEPT !.caller = Nobody] \in S
    BY DEF Callers
  <1> HIDE DEF S
  <1>2. q \in Seq(S)
    BY DEF S
  <1>3. \A i \in DOMAIN q : q[i] \in S
    BY <1>2
  <1>4. r \in [DOMAIN q -> S]
    BY <1>1, <1>3
  <1> QED
    BY <1>2, <1>4, SameLength DEF S

\* Requests stay requests when those of one address are given up.
LEMMA GivenUpToo ==
    ASSUME NEW q \in Seq(Requests), NEW r, NEW ip,
           r = [i \in DOMAIN q |-> IF q[i].ip = ip
                     THEN [q[i] EXCEPT !.ip = Nobody] ELSE q[i]]
    PROVE  r \in Seq(Requests) /\ Len(r) = Len(q)
  <1>1. \A c \in Requests : [c EXCEPT !.ip = Nobody] \in Requests
    BY DEF Requests
  <1>2. r \in [DOMAIN q -> Requests]
    BY <1>1
  <1> QED
    BY <1>2, SameLength

\* So do the browser threads, the other hosts, the timeouts and a restart.
LEMMA OtherTypes ==
    ASSUME TypesOK,
           \/ \E ip \in DOMAIN browsers : BrowserStep(ip)
           \/ \E n \in Name, d \in Announcements \cup {None} : RemoteAnnounces(n, d)
           \/ TimeOut
           \/ Crash
           \/ Exit
    PROVE  TypesOK'
  <1>1. ASSUME NEW ip \in DOMAIN browsers, BrowserStep(ip) PROVE TypesOK'
    <2>1. PICK n \in Name : DropService(ip, n) \/ AddService(ip, n)
      BY <1>1 DEF BrowserStep
    <2>2. CASE DropService(ip, n)
      BY <2>2 DEF DropService, TypesOK, ovars
    <2>3. CASE AddService(ip, n)
      <3>1. remote[n] \in Announcements /\ ServiceInfo(n) = AsReceived[remote[n]]
        BY <2>3 DEF AddService, ServiceInfo, TypesOK
      <3>2. remote[n] \in Passing
        BY <2>3, <3>1 DEF AddService, Passing
      <3>3. [ip |-> ip, str |-> AsString(ServiceInfo(n))] \in Requests
        BY <3>1, <3>2 DEF Requests, TypesOK
      <3>4. inbox' \in Seq(Requests)
        BY <2>3, <3>3 DEF AddService, TypesOK
      <3>5. /\ DOMAIN browsers' \subseteq Ips
            /\ browsers' \in [DOMAIN browsers' -> {"idle", "calling", "dead"}]
        BY <2>3 DEF AddService, TypesOK
      <3> QED
        BY <2>3, <3>4, <3>5 DEF AddService, TypesOK
    <2> QED
      BY <2>1, <2>2, <2>3
  <1>2. ASSUME NEW n \in Name, NEW d \in Announcements \cup {None},
               RemoteAnnounces(n, d)
        PROVE  TypesOK'
    <2>1. remote' \in [Name -> Announcements \cup {None}]
      BY <1>2 DEF RemoteAnnounces, TypesOK
    <2> QED
      BY <1>2, <2>1 DEF RemoteAnnounces, TypesOK, ovars
  <1>3. ASSUME NEW t \in Thread, CallTimesOut(t) PROVE TypesOK'
    <2>1. waiting' \in [Thread -> BOOLEAN]
      BY <1>3 DEF CallTimesOut, TypesOK
    <2>2. todo' \in [Thread -> Seq(Ops)]
      <3>1. <<>> \in Seq(Ops)
        OBVIOUS
      <3>2. todo' = [todo EXCEPT ![t] = <<>>]
        BY <1>3 DEF CallTimesOut, Raise
      <3> QED
        BY <3>1, <3>2 DEF TypesOK
    <2>3. calls' \in Seq([caller : Callers, ips : SUBSET Ips])
      BY <1>3, GivenUp DEF CallTimesOut, TypesOK
    <2>4. serving \in [caller : Callers, old : SUBSET Ips]
      BY <1>3 DEF CallTimesOut, DiscoverStuck, TypesOK
    <2>5. [serving EXCEPT !.caller = Nobody] \in [caller : Callers, old : SUBSET Ips]
      BY <2>4 DEF Callers
    <2>6. serving' \in [caller : Callers, old : SUBSET Ips]
      BY <1>3, <2>4, <2>5 DEF CallTimesOut
    <2>7. mixed' = TRUE
      BY <1>3 DEF CallTimesOut, Raise
    <2> QED
      BY <1>3, <2>1, <2>2, <2>3, <2>6, <2>7 DEF CallTimesOut, TypesOK
  <1>4. ASSUME NEW ip \in DOMAIN browsers, BrowserTimesOut(ip) PROVE TypesOK'
    <2>1. inbox' \in Seq(Requests)
      BY <1>4, GivenUpToo DEF BrowserTimesOut, TypesOK
    <2>2. /\ DOMAIN browsers' \subseteq Ips
          /\ browsers' \in [DOMAIN browsers' -> {"idle", "calling", "dead"}]
      BY <1>4 DEF BrowserTimesOut, TypesOK
    <2> QED
      BY <1>4, <2>1, <2>2 DEF BrowserTimesOut, TypesOK
  <1>5. ASSUME Restarted PROVE TypesOK'
    <2>1. todo' \in [Thread -> Seq(Ops)]
      <3>1. Startup \in Seq(Ops) /\ <<>> \in Seq(Ops)
        BY StartupCalls
      <3> QED
        BY <1>5, <3>1 DEF Restarted
    <2>2. waiting' \in [Thread -> BOOLEAN] /\ inbox' \in Seq(Requests)
      BY <1>5 DEF Restarted
    <2>3. calls' \in Seq([caller : Callers, ips : SUBSET Ips])
      BY <1>5, GivenUp DEF Restarted, TypesOK
    <2>4. serving' \in {NoCall} \cup [caller : Callers, old : SUBSET Ips]
      <3>1. CASE serving = NoCall
        BY <1>5, <3>1 DEF Restarted
      <3>2. CASE serving # NoCall
        <4>1. serving \in [caller : Callers, old : SUBSET Ips]
          BY <3>2 DEF TypesOK
        <4>2. [serving EXCEPT !.caller = Nobody] \in [caller : Callers, old : SUBSET Ips]
          BY <4>1 DEF Callers
        <4> QED
          BY <1>5, <3>2, <4>2 DEF Restarted
      <3> QED
        BY <3>1, <3>2
    <2>5. /\ DOMAIN browsers' \subseteq Ips
          /\ browsers' \in [DOMAIN browsers' -> {"idle", "calling", "dead"}]
      BY <1>5 DEF Restarted, TypesOK
    <2> QED
      BY <1>5, <2>1, <2>2, <2>3, <2>4, <2>5 DEF Restarted, TypesOK
  <1> QED
    BY <1>1, <1>2, <1>3, <1>4, <1>5 DEF TimeOut, Crash, Exit
-----------------------------------------------------------------------------
(* The calls that come first, and who waits for an answer *)

\* The steps in which a thread that waits for no answer changes what it has
\* to do; none of them makes a call or answers one.
OwnStep(t) ==
    /\ todo[t] # <<>> => todo[t][1].op # "discover"
    /\ todo' = [todo EXCEPT ![t] = todo'[t]]
    /\ UNCHANGED <<waiting, calls, serving>>

\* The steps that a thread of organize takes without a call of discover.
LEMMA OwnSteps ==
    ASSUME TypesOK, \A u \in Thread : InFront(todo[u]), NEW t \in Thread,
           \/ InstructZeroconf(t) \/ PublishListen(t) \/ ReadSystem(t)
           \/ StartMonitor(t) \/ EnterMainLoop(t) \/ AdoptSystemState(t)
           \/ Rediscover /\ t = "main"
    PROVE  OwnStep(t) /\ InFront(todo'[t])
  <1>0. todo[t] \in Seq(Ops) /\ InFront(todo[t]) /\ todo \in [Thread -> Seq(Ops)]
    BY DEF TypesOK
  <1>1. ASSUME todo[t] # <<>>
        PROVE  /\ Head(todo[t]) = todo[t][1] /\ InFront(Tail(todo[t]))
               /\ Tail(todo[t]) \in Seq(Ops)
               /\ todo[t][1].op # "discover" => Plain(Tail(todo[t]))
    BY <1>0, <1>1, TailFacts
  <1>2. CASE InstructZeroconf(t)
    <2>1. todo[t] # <<>> /\ todo[t][1].op = "instruct_zeroconf"
      BY <1>1, <1>2 DEF InstructZeroconf, Next1
    <2>2. PICK x, y : x = Listen(DiscoverIps) /\ y = [op |-> "publish", read |-> system]
      OBVIOUS
    <2>3. x \in Ops /\ y \in Ops /\ x.op = "discover" /\ y.op # "discover"
      BY <2>2, ListenIps, OpTypes DEF DiscoverIps, TypesOK
    <2>4. todo' = [todo EXCEPT ![t] = <<x, y>> \o Tail(todo[t])]
      BY <1>2, <2>2 DEF InstructZeroconf, Continue
    <2>5. InFront(<<x, y>> \o Tail(todo[t]))
      BY <1>1, <2>1, <2>3, ConsFacts
    <2>6. todo'[t] = <<x, y>> \o Tail(todo[t])
      BY <1>0, <2>4
    <2> QED
      BY <1>2, <2>1, <2>4, <2>5, <2>6 DEF InstructZeroconf, OwnStep, dvars
  <1>3. CASE PublishListen(t)
    <2>1. todo[t] # <<>> /\ todo[t][1].op = "publish"
      BY <1>1, <1>3 DEF PublishListen, Next1
    <2>2. \/ todo' = [todo EXCEPT ![t] = Tail(todo[t])]
          \/ todo' = [todo EXCEPT ![t] = <<>>]
      BY <1>3 DEF PublishListen, Continue, Raise
    <2>3. InFront(<<>>)
      <3>1. \A i \in 1..Len(<<>>) : FALSE
        OBVIOUS
      <3> QED
        BY <3>1 DEF InFront
    <2>4. todo'[t] = Tail(todo[t]) \/ todo'[t] = <<>>
      BY <1>0, <2>2
    <2>5. todo' = [todo EXCEPT ![t] = todo'[t]]
      BY <1>0, <2>2
    <2> QED
      BY <1>1, <1>3, <2>1, <2>3, <2>4, <2>5 DEF PublishListen, OwnStep, dvars
  <1>4. CASE ReadSystem(t)
    <2>1. todo[t] # <<>> /\ todo[t][1].op = "get_new_system_state"
      BY <1>1, <1>4 DEF ReadSystem, Next1
    <2>2. PICK x : x = Call("instruct_zeroconf")
      OBVIOUS
    <2>3. x \in Ops
      BY <2>2, OpTypes
    <2>4. \/ todo' = [todo EXCEPT ![t] = Tail(todo[t])]
          \/ todo' = [todo EXCEPT ![t] = <<x>> \o Tail(todo[t])]
      BY <1>4, <2>2 DEF ReadSystem, Continue
    <2>5. InFront(Tail(todo[t])) /\ InFront(<<x>> \o Tail(todo[t]))
      BY <1>1, <2>1, <2>3, ConsFacts
    <2>6. todo'[t] = Tail(todo[t]) \/ todo'[t] = <<x>> \o Tail(todo[t])
      BY <1>0, <2>4
    <2>7. todo' = [todo EXCEPT ![t] = todo'[t]]
      BY <1>0, <2>4
    <2> QED
      BY <1>4, <2>1, <2>5, <2>6, <2>7 DEF ReadSystem, OwnStep, dvars
  <1>5. CASE StartMonitor(t) \/ EnterMainLoop(t)
    <2>1. todo[t] # <<>> /\ todo[t][1].op # "discover"
      BY <1>1, <1>5 DEF StartMonitor, EnterMainLoop, Next1
    <2>2. todo' = [todo EXCEPT ![t] = Tail(todo[t])]
      BY <1>5 DEF StartMonitor, EnterMainLoop, Continue
    <2>3. todo'[t] = Tail(todo[t])
      BY <1>0, <2>2
    <2> QED
      BY <1>1, <1>5, <2>1, <2>2, <2>3 DEF StartMonitor, EnterMainLoop, OwnStep, dvars
  <1>6. CASE AdoptSystemState(t)
    <2>1. todo[t] = <<>>
      BY <1>6 DEF AdoptSystemState, Idle
    <2>2. PICK x : x = Call("instruct_zeroconf")
      OBVIOUS
    <2>3. todo' = [todo EXCEPT ![t] = <<x>>]
      BY <1>6, <2>2 DEF AdoptSystemState, Continue
    <2>4. todo'[t] = <<x>>
      BY <1>0, <2>3
    <2>5. InFront(<<x>>)
      BY <2>2, OpTypes DEF InFront
    <2> QED
      BY <1>6, <2>1, <2>3, <2>4, <2>5 DEF AdoptSystemState, OwnStep, dvars
  <1>7. CASE Rediscover /\ t = "main"
    <2>1. todo[t] = <<>>
      BY <1>7 DEF Rediscover, Idle
    <2>2. PICK x, y : x = Listen({}) /\ y = Call("instruct_zeroconf")
      OBVIOUS
    <2>3. todo' = [todo EXCEPT ![t] = <<x, y>>]
      BY <1>7, <2>2 DEF Rediscover, Continue
    <2>4. todo'[t] = <<x, y>>
      BY <1>0, <2>3
    <2>5. x.op = "discover" /\ y.op = "instruct_zeroconf"
      BY <2>2, OpTypes
    <2>6. InFront(<<x, y>>)
      BY <2>5 DEF InFront
    <2> QED
      BY <1>7, <2>1, <2>3, <2>4, <2>6 DEF Rediscover, OwnStep, dvars
  <1> QED
    BY <1>2, <1>3, <1>4, <1>5, <1>6, <1>7

\* An answer reaches a thread whose first call was discover.listen().
LEMMA Answered ==
    ASSUME TypesOK, CallersOK, ListenReturns, serving.caller # Nobody
    PROVE  /\ serving.caller \in Thread
           /\ waiting[serving.caller]
           /\ todo[serving.caller] \in Seq(Ops) /\ todo[serving.caller] # <<>>
           /\ todo[serving.caller][1].op = "discover"
           /\ todo' = [todo EXCEPT ![serving.caller] = Tail(todo[serving.caller])]
           /\ waiting' = [waiting EXCEPT ![serving.caller] = FALSE]
  <1>1. serving # NoCall
    BY DEF ListenReturns
  <1>2. serving.caller \in Thread
    BY <1>1 DEF TypesOK, Callers
  <1> QED
    BY <1>1, <1>2 DEF ListenReturns, Continue, CallersOK, TypesOK

\* The steps that leave the calls of organize's threads alone.
LEMMA QuietSteps ==
    ASSUME \/ ProcessDescriptorString
           \/ \E ip \in DOMAIN browsers : BrowserStep(ip) \/ BrowserTimesOut(ip)
           \/ \E n \in Name, d \in Announcements \cup {None} : RemoteAnnounces(n, d)
    PROVE  UNCHANGED <<system, todo, waiting, calls, serving, zeroconfs,
                       current_descriptors>>
  BY DEF ProcessDescriptorString, AnswerOldest, BrowserStep, DropService,
         AddService, RemoteAnnounces, BrowserTimesOut, ovars

\* The calls of discover and publish stay in front.
LEMMA InFrontNext ==
    ASSUME TypesOK, CallersOK, \A u \in Thread : InFront(todo[u]), Next
    PROVE  \A u \in Thread : InFront(todo'[u])
  <1>0. todo \in [Thread -> Seq(Ops)]
    BY DEF TypesOK
  <1>1. ASSUME NEW t \in Thread, OwnStep(t), InFront(todo'[t])
        PROVE  \A u \in Thread : InFront(todo'[u])
    <2>1. \A u \in Thread \ {t} : todo'[u] = todo[u]
      BY <1>0, <1>1 DEF OwnStep
    <2> QED
      BY <1>1, <2>1
  <1>2. ASSUME NEW t \in Thread, ThreadStep(t) \/ AdoptSystemState(t)
        PROVE  \A u \in Thread : InFront(todo'[u])
    <2>1. CASE CallDiscover(t)
      BY <2>1 DEF CallDiscover
    <2> QED
      BY <1>1, <1>2, <2>1, OwnSteps DEF ThreadStep
  <1>3. ASSUME Rediscover
        PROVE  \A u \in Thread : InFront(todo'[u])
    <2>1. "main" \in Thread
      BY DEF Thread
    <2> QED
      BY <1>1, <1>3, <2>1, OwnSteps
  <1>4. CASE StartListening \/ CancelBrowser
    BY <1>4 DEF StartListening, CancelBrowser, ovars
  <1>5. CASE ListenReturns
    <2>1. CASE serving.caller = Nobody
      BY <1>5, <2>1 DEF ListenReturns
    <2>2. CASE serving.caller # Nobody
      <3>1. PICK t : t = serving.caller
        OBVIOUS
      <3>2. InFront(Tail(todo[t]))
        BY <1>5, <2>2, <3>1, Answered, TailFacts
      <3> QED
        BY <1>0, <1>5, <2>2, <3>1, <3>2, Answered
    <2> QED
      BY <2>1, <2>2
  <1>6. InFront(<<>>)
    <2>1. \A i \in 1..Len(<<>>) : FALSE
      OBVIOUS
    <2> QED
      BY <2>1 DEF InFront
  <1>7. ASSUME NEW t \in Thread, CallTimesOut(t)
        PROVE  \A u \in Thread : InFront(todo'[u])
    <2>1. todo' = [todo EXCEPT ![t] = <<>>]
      BY <1>7 DEF CallTimesOut, Raise
    <2> QED
      BY <1>0, <1>6, <2>1
  <1>8. CASE Restarted
    BY <1>6, <1>8, StartupCalls DEF Restarted
  <1> QED
    BY <1>2, <1>3, <1>4, <1>5, <1>7, <1>8, QuietSteps
       DEF Next, DiscoverStep, TimeOut, Crash, Exit
\* Every unanswered call of discover.listen() has its thread.
LEMMA CallersNext ==
    ASSUME TypesOK, CallersOK, \A u \in Thread : InFront(todo[u]), Next
    PROVE  CallersOK'
  <1>0. /\ todo \in [Thread -> Seq(Ops)] /\ waiting \in [Thread -> BOOLEAN]
        /\ calls \in Seq([caller : Callers, ips : SUBSET Ips])
        /\ serving \in {NoCall} \cup [caller : Callers, old : SUBSET Ips]
    BY DEF TypesOK
  <1>c. \A i \in 1..Len(calls) : /\ calls[i] \in [caller : Callers, ips : SUBSET Ips]
                                 /\ calls[i].caller \in Callers
    <2>1. ASSUME NEW S, NEW q \in Seq(S) PROVE \A i \in 1..Len(q) : q[i] \in S
      OBVIOUS
    <2>2. \A i \in 1..Len(calls) : calls[i] \in [caller : Callers, ips : SUBSET Ips]
      BY <1>0, <2>1
    <2> QED
      BY <2>2
  <1>1. ASSUME NEW t \in Thread, OwnStep(t) PROVE CallersOK'
    <2>1. ~waiting[t]
      BY <1>1 DEF OwnStep, CallersOK
    <2>2. \A u \in Thread \ {t} : todo'[u] = todo[u]
      BY <1>0, <1>1 DEF OwnStep
    <2> QED
      BY <1>1, <2>1, <2>2 DEF OwnStep, CallersOK
  <1>2. ASSUME NEW t \in Thread, CallDiscover(t) PROVE CallersOK'
    <2>1. /\ todo[t] # <<>> /\ ~waiting[t] /\ todo' = todo /\ serving' = serving
          /\ Head(todo[t]).op = "discover"
          /\ waiting' = [waiting EXCEPT ![t] = TRUE]
      BY <1>2 DEF CallDiscover, Next1
    <2>2. todo[t][1].op = "discover"
      BY <1>0, <2>1
    <2>3. PICK c : c = [caller |-> t, ips |-> Head(todo[t]).ips]
      OBVIOUS
    <2>4. calls' = Append(calls, c) /\ c.caller = t
      BY <1>2, <2>3 DEF CallDiscover
    <2>5. /\ Len(calls') = Len(calls) + 1 /\ Len(calls) \in Nat
          /\ \A i \in 1..Len(calls) : calls'[i] = calls[i]
          /\ calls'[Len(calls) + 1] = c
      BY <1>0, <2>4
    <2>6. \A i \in 1..Len(calls) : calls[i].caller # t
      <3>1. t # Nobody
        BY DiscoveryTypes
      <3> QED
        BY <2>1, <3>1 DEF CallersOK
    <2>7. serving # NoCall => serving.caller # t
      <3>1. t # Nobody
        BY DiscoveryTypes
      <3> QED
        BY <2>1, <3>1 DEF CallersOK
    <2>8. \A u \in Thread : waiting'[u] => waiting[u] \/ u = t
      BY <1>0, <2>1
    <2>9. \A i \in 1..Len(calls') : i \in 1..Len(calls) \/ i = Len(calls) + 1
      BY <2>5
    <2>10. \A i \in 1..Len(calls) : calls[i].caller \in Callers
      BY <1>c
    <2>11. \A i \in 1..Len(calls') : calls'[i].caller # Nobody => waiting'[calls'[i].caller]
      <3> SUFFICES ASSUME NEW i \in 1..Len(calls'), calls'[i].caller # Nobody
                   PROVE  waiting'[calls'[i].caller]
        OBVIOUS
      <3>1. CASE i \in 1..Len(calls)
        <4>1. waiting[calls[i].caller] /\ calls[i].caller \in Thread
          BY <2>5, <2>10, <3>1 DEF CallersOK, Callers
        <4> QED
          BY <1>0, <2>1, <2>5, <3>1, <4>1
      <3>2. CASE i = Len(calls) + 1
        BY <1>0, <2>1, <2>4, <2>5, <3>2
      <3> QED
        BY <2>9, <3>1, <3>2
    <2>12. \A i, j \in 1..Len(calls') :
              calls'[i].caller # Nobody /\ calls'[j].caller = calls'[i].caller => i = j
      BY <2>4, <2>5, <2>6, <2>9 DEF CallersOK
    <2>13. serving' # NoCall /\ serving'.caller # Nobody =>
              /\ waiting'[serving'.caller]
              /\ \A i \in 1..Len(calls') : calls'[i].caller # serving'.caller
      <3> SUFFICES ASSUME serving # NoCall, serving.caller # Nobody
                   PROVE  /\ waiting'[serving.caller]
                          /\ \A i \in 1..Len(calls') : calls'[i].caller # serving.caller
        BY <2>1
      <3>1. serving.caller \in Thread /\ waiting[serving.caller]
        BY <1>0 DEF CallersOK, Callers
      <3>2. waiting'[serving.caller]
        BY <1>0, <2>1, <3>1
      <3> QED
        BY <2>4, <2>5, <2>7, <2>9, <3>2 DEF CallersOK
    <2>14. \A u \in Thread : waiting'[u] => todo'[u] # <<>> /\ todo'[u][1].op = "discover"
      BY <2>1, <2>2, <2>8 DEF CallersOK
    <2> QED
      BY <2>11, <2>12, <2>13, <2>14 DEF CallersOK
  <1>3. CASE Rediscover
    <2>1. "main" \in Thread
      BY DEF Thread
    <2> QED
      BY <1>1, <1>3, <2>1, OwnSteps
  <1>4. CASE StartListening
    <2>1. /\ calls # <<>> /\ calls' = Tail(calls) /\ todo' = todo /\ waiting' = waiting
          /\ serving'.caller = Head(calls).caller
      BY <1>4 DEF StartListening, ovars
    <2>2. /\ Head(calls) = calls[1] /\ 1 \in 1..Len(calls) /\ Len(calls) \in Nat
          /\ Len(calls') = Len(calls) - 1
          /\ \A i \in 1..Len(calls') : i + 1 \in 1..Len(calls) /\ calls'[i] = calls[i + 1]
                                       /\ i + 1 # 1
      BY <1>0, <2>1
    <2>3. \A i \in 1..Len(calls') : calls'[i].caller # Nobody =>
             /\ waiting'[calls'[i].caller]
             /\ \A j \in 1..Len(calls') : calls'[j].caller = calls'[i].caller => i = j
      BY <2>1, <2>2 DEF CallersOK
    <2>4. serving'.caller # Nobody =>
             /\ waiting'[serving'.caller]
             /\ \A i \in 1..Len(calls') : calls'[i].caller # serving'.caller
      BY <2>1, <2>2 DEF CallersOK
    <2> QED
      BY <2>1, <2>3, <2>4 DEF CallersOK
  <1>5. CASE CancelBrowser
    <2>1. serving \in [caller : Callers, old : SUBSET Ips] /\ serving # NoCall
      BY <1>0, <1>5 DEF CancelBrowser
    <2>2. /\ serving'.caller = serving.caller
          /\ UNCHANGED <<todo, waiting, calls>>
      BY <1>5, <2>1 DEF CancelBrowser, ovars
    <2> QED
      BY <2>1, <2>2 DEF CallersOK
  <1>6. CASE ListenReturns
    <2>1. serving # NoCall /\ serving' = NoCall /\ calls' = calls
      BY <1>6 DEF ListenReturns
    <2>2. CASE serving.caller = Nobody
      BY <1>6, <2>1, <2>2 DEF ListenReturns, CallersOK
    <2>3. CASE serving.caller # Nobody
      <3>1. PICK t : t = serving.caller
        OBVIOUS
      <3>2. /\ t \in Thread /\ todo' = [todo EXCEPT ![t] = Tail(todo[t])]
            /\ waiting' = [waiting EXCEPT ![t] = FALSE]
        BY <1>6, <2>3, <3>1, Answered
      <3>3. \A u \in Thread : waiting'[u] => u # t /\ waiting[u] /\ todo'[u] = todo[u]
        BY <1>0, <3>2
      <3>4. \A i \in 1..Len(calls) : calls[i].caller # t
        BY <2>1, <2>3, <3>1 DEF CallersOK
      <3>5. \A i \in 1..Len(calls) : calls[i].caller # Nobody =>
               waiting'[calls[i].caller]
        <4> SUFFICES ASSUME NEW i \in 1..Len(calls), calls[i].caller # Nobody
                     PROVE  waiting'[calls[i].caller]
          OBVIOUS
        <4>1. calls[i].caller \in Thread
          BY <1>c DEF Callers
        <4>2. waiting[calls[i].caller] /\ calls[i].caller # t
          BY <3>4 DEF CallersOK
        <4> QED
          BY <1>0, <3>2, <4>1, <4>2
      <3> QED
        BY <2>1, <3>3, <3>5 DEF CallersOK
    <2> QED
      BY <2>2, <2>3
  <1>7. ASSUME NEW t \in Thread, CallTimesOut(t) PROVE CallersOK'
    <2>1. /\ waiting[t] /\ waiting' = [waiting EXCEPT ![t] = FALSE]
          /\ todo' = [todo EXCEPT ![t] = <<>>]
          /\ calls' = [i \in DOMAIN calls |->
               IF calls[i].caller = t THEN [calls[i] EXCEPT !.caller = Nobody]
               ELSE calls[i]]
          /\ serving # NoCall
          /\ serving' = IF serving.caller = t THEN [serving EXCEPT !.caller = Nobody]
                        ELSE serving
      BY <1>7 DEF CallTimesOut, Raise, DiscoverStuck
    <2>2. \A u \in Thread : waiting'[u] => u # t /\ waiting[u] /\ todo'[u] = todo[u]
      BY <1>0, <2>1
    <2>3. Len(calls') = Len(calls)
      BY <1>0, <2>1, GivenUp
    <2>4. \A i \in 1..Len(calls) :
             calls[i].caller \in Callers /\ calls'[i].caller =
                IF calls[i].caller = t THEN Nobody ELSE calls[i].caller
      <3>1. \A i \in 1..Len(calls) : calls'[i] =
               IF calls[i].caller = t THEN [calls[i] EXCEPT !.caller = Nobody]
               ELSE calls[i]
        <4>1. ASSUME NEW S, NEW q \in Seq(S) PROVE DOMAIN q = 1..Len(q)
          OBVIOUS
        <4>2. DOMAIN calls = 1..Len(calls)
          BY <1>0, <4>1
        <4> QED
          BY <2>1, <4>2, Zenon
      <3>2. \A c \in [caller : Callers, ips : SUBSET Ips] :
               [c EXCEPT !.caller = Nobody].caller = Nobody
        OBVIOUS
      <3> QED
        BY <1>c, <3>1, <3>2
    <2>5. serving.caller \in Callers /\ serving'.caller =
             IF serving.caller = t THEN Nobody ELSE serving.caller
      BY <1>0, <2>1
    <2>6. \A i \in 1..Len(calls) : calls'[i].caller # Nobody =>
             /\ waiting'[calls'[i].caller]
             /\ \A j \in 1..Len(calls) : calls'[j].caller = calls'[i].caller => i = j
      <3> SUFFICES ASSUME NEW i \in 1..Len(calls), calls'[i].caller # Nobody
                   PROVE  /\ waiting'[calls'[i].caller]
                          /\ \A j \in 1..Len(calls) :
                                calls'[j].caller = calls'[i].caller => i = j
        OBVIOUS
      <3>1. calls'[i].caller = calls[i].caller /\ calls[i].caller # t
        BY <2>4
      <3>2. calls[i].caller \in Thread /\ waiting[calls[i].caller]
        BY <2>4, <3>1 DEF CallersOK, Callers
      <3>3. waiting'[calls[i].caller]
        BY <1>0, <2>1, <3>1, <3>2
      <3>4. \A j \in 1..Len(calls) : calls'[j].caller = calls[i].caller =>
               calls[j].caller = calls[i].caller
        BY <2>4, <3>1
      <3>5. \A j \in 1..Len(calls) : calls[j].caller = calls[i].caller => i = j
        BY <3>1 DEF CallersOK
      <3> QED
        BY <3>1, <3>3, <3>4, <3>5
    <2>7. serving'.caller # Nobody =>
             /\ waiting'[serving'.caller]
             /\ \A i \in 1..Len(calls) : calls'[i].caller # serving'.caller
      <3> SUFFICES ASSUME serving'.caller # Nobody
                   PROVE  /\ waiting'[serving'.caller]
                          /\ \A i \in 1..Len(calls) : calls'[i].caller # serving'.caller
        OBVIOUS
      <3>1. serving'.caller = serving.caller /\ serving.caller # t
        BY <2>5
      <3>2. serving.caller \in Thread /\ waiting[serving.caller]
        BY <2>1, <2>5, <3>1 DEF CallersOK, Callers
      <3>3. waiting'[serving.caller]
        BY <1>0, <2>1, <3>1, <3>2
      <3>4. \A i \in 1..Len(calls) : calls[i].caller # serving.caller
        BY <2>1, <3>1 DEF CallersOK
      <3> QED
        BY <2>4, <3>1, <3>3, <3>4
    <2> QED
      BY <2>2, <2>3, <2>6, <2>7 DEF CallersOK
  <1>8. CASE Restarted
    <2>1. \A u \in Thread : ~waiting'[u]
      BY <1>8 DEF Restarted
    <2>2. Len(calls') = Len(calls)
      <3>1. calls' = [i \in DOMAIN calls |-> [calls[i] EXCEPT !.caller = Nobody]]
        BY <1>8 DEF Restarted
      <3> QED
        BY <1>0, <3>1, GivenUp
    <2>3. \A i \in 1..Len(calls) : calls'[i].caller = Nobody
      BY <1>0, <1>8 DEF Restarted
    <2>4. serving' # NoCall => serving'.caller = Nobody
      BY <1>0, <1>8 DEF Restarted
    <2> QED
      BY <2>1, <2>2, <2>3, <2>4 DEF CallersOK
  <1>9. CASE UNCHANGED <<todo, waiting, calls, serving>>
    BY <1>9 DEF CallersOK
  <1>10. ASSUME NEW t \in Thread, ThreadStep(t) \/ AdoptSystemState(t)
         PROVE  CallersOK'
    BY <1>1, <1>2, <1>10, OwnSteps DEF ThreadStep
  <1> QED
    BY <1>3, <1>4, <1>5, <1>6, <1>7, <1>8, <1>9, <1>10, QuietSteps
       DEF Next, DiscoverStep, TimeOut, Crash, Exit

\* Every unanswered call of a browser thread has its thread.
LEMMA InboxNext ==
    ASSUME TypesOK, InboxOK, Next
    PROVE  InboxOK'
  <1>0. inbox \in Seq(Requests)
    BY DEF TypesOK
  <1>1. CASE UNCHANGED <<inbox, browsers>>
    BY <1>1 DEF InboxOK
  <1>2. ASSUME NEW t \in Thread, ThreadStep(t) \/ AdoptSystemState(t)
        PROVE  UNCHANGED <<inbox, browsers>>
    BY <1>2 DEF ThreadStep, InstructZeroconf, CallDiscover, PublishListen,
                ReadSystem, StartMonitor, EnterMainLoop, AdoptSystemState, dvars
  <1>3. CASE ProcessDescriptorString
    <2>1. inbox # <<>> /\ inbox' = Tail(inbox)
      BY <1>3 DEF ProcessDescriptorString, AnswerOldest
    <2>2. PICK call : call = inbox[1]
      OBVIOUS
    <2>3. /\ Head(inbox) = call /\ 1 \in 1..Len(inbox) /\ Len(inbox) \in Nat
          /\ Len(inbox') = Len(inbox) - 1
          /\ \A i \in 1..Len(inbox') : i + 1 \in 1..Len(inbox) /\ inbox'[i] = inbox[i + 1]
                                       /\ i + 1 # 1
      BY <1>0, <2>1, <2>2
    <2>4. \A i \in 1..Len(inbox') : inbox'[i].ip # Nobody =>
             /\ inbox'[i].ip \in DOMAIN browsers
             /\ browsers[inbox'[i].ip] = "calling"
             /\ inbox'[i].ip # call.ip
             /\ \A j \in 1..Len(inbox') : inbox'[j].ip = inbox'[i].ip => i = j
      BY <2>2, <2>3, SMTT(20) DEF InboxOK
    <2>5. browsers' = IF call.ip = Nobody THEN browsers
                      ELSE With(browsers, call.ip, "idle")
      BY <1>3, <2>3 DEF ProcessDescriptorString, AnswerOldest
    <2>6. \A ip \in DOMAIN browsers : ip # call.ip =>
             ip \in DOMAIN browsers' /\ browsers'[ip] = browsers[ip]
      BY <2>5 DEF With
    <2> QED
      BY <2>4, <2>6 DEF InboxOK
  <1>4. CASE Rediscover
    BY <1>1, <1>4 DEF Rediscover, dvars
  <1>5. CASE StartListening
    <2>1. /\ inbox' = inbox
          /\ \A ip \in DOMAIN browsers :
                ip \in DOMAIN browsers' /\ browsers'[ip] = browsers[ip]
      BY <1>5 DEF StartListening, ovars
    <2> QED
      BY <2>1 DEF InboxOK
  <1>6. CASE CancelBrowser
    <2>1. PICK ip : browsers[ip] # "calling" /\ browsers' = Without(browsers, ip)
      BY <1>6 DEF CancelBrowser
    <2>2. \A x \in DOMAIN browsers : browsers[x] = "calling" =>
             x \in DOMAIN browsers' /\ browsers'[x] = browsers[x]
      BY <2>1 DEF Without
    <2>3. inbox' = inbox
      BY <1>6 DEF CancelBrowser, ovars
    <2> QED
      BY <2>2, <2>3 DEF InboxOK
  <1>7. CASE ListenReturns
    BY <1>1, <1>7 DEF ListenReturns
  <1>8. ASSUME NEW ip \in DOMAIN browsers, NEW n \in Name, AddService(ip, n)
        PROVE  InboxOK'
    <2>1. PICK c : c = [ip |-> ip, str |-> AsString(ServiceInfo(n))]
      OBVIOUS
    <2>2. /\ inbox' = Append(inbox, c) /\ c.ip = ip
          /\ browsers[ip] = "idle" /\ browsers' = [browsers EXCEPT ![ip] = "calling"]
      BY <1>8, <2>1 DEF AddService
    <2>3. /\ Len(inbox') = Len(inbox) + 1 /\ Len(inbox) \in Nat
          /\ \A i \in 1..Len(inbox) : inbox'[i] = inbox[i]
          /\ inbox'[Len(inbox) + 1] = c
      BY <1>0, <2>2
    <2>4. \A i \in 1..Len(inbox') : i \in 1..Len(inbox) \/ i = Len(inbox) + 1
      BY <2>3
    <2>5. \A i \in 1..Len(inbox) : inbox[i].ip # Nobody => inbox[i].ip # ip
      BY <2>2 DEF InboxOK
    <2>6. DOMAIN browsers' = DOMAIN browsers /\ browsers'[ip] = "calling"
      BY <2>2
    <2>7. \A x \in DOMAIN browsers : x # ip => browsers'[x] = browsers[x]
      BY <2>2
    <2>8. \A i \in 1..Len(inbox') : inbox'[i].ip # Nobody =>
             inbox'[i].ip \in DOMAIN browsers /\ browsers'[inbox'[i].ip] = "calling"
      BY <2>2, <2>3, <2>4, <2>6, <2>7 DEF InboxOK
    <2>9. \A i, j \in 1..Len(inbox') :
             inbox'[i].ip # Nobody /\ inbox'[j].ip = inbox'[i].ip => i = j
      BY <2>2, <2>3, <2>4, <2>5 DEF InboxOK
    <2> QED
      BY <2>6, <2>8, <2>9 DEF InboxOK
  <1>9. ASSUME NEW ip \in DOMAIN browsers, NEW n \in Name, DropService(ip, n)
        PROVE  InboxOK'
    BY <1>1, <1>9 DEF DropService, ovars
  <1>10. ASSUME NEW n \in Name, NEW d \in Announcements \cup {None},
                RemoteAnnounces(n, d)
         PROVE  InboxOK'
    BY <1>1, <1>10 DEF RemoteAnnounces, ovars
  <1>11. ASSUME NEW t \in Thread, CallTimesOut(t) PROVE InboxOK'
    BY <1>1, <1>11 DEF CallTimesOut
  <1>12. ASSUME NEW ip \in DOMAIN browsers, BrowserTimesOut(ip) PROVE InboxOK'
    <2>1. /\ browsers' = [browsers EXCEPT ![ip] = "dead"]
          /\ inbox' = [i \in DOMAIN inbox |->
               IF inbox[i].ip = ip THEN [inbox[i] EXCEPT !.ip = Nobody]
               ELSE inbox[i]]
      BY <1>12 DEF BrowserTimesOut
    <2>2. Len(inbox') = Len(inbox)
      BY <1>0, <2>1, GivenUpToo
    <2>3. \A i \in 1..Len(inbox) : inbox'[i].ip =
             IF inbox[i].ip = ip THEN Nobody ELSE inbox[i].ip
      BY <1>0, <2>1 DEF Requests
    <2>4. /\ DOMAIN browsers' = DOMAIN browsers
          /\ \A x \in DOMAIN browsers : x # ip => browsers'[x] = browsers[x]
      BY <2>1
    <2>5. \A i \in 1..Len(inbox) : inbox'[i].ip # Nobody =>
             /\ inbox'[i].ip = inbox[i].ip /\ inbox[i].ip # ip
             /\ \A j \in 1..Len(inbox) : inbox'[j].ip = inbox'[i].ip =>
                   inbox[j].ip = inbox[i].ip
      BY <2>3
    <2> QED
      BY <2>2, <2>4, <2>5 DEF InboxOK
  <1>13. CASE Restarted
    <2>1. \A i \in 1..Len(<<>>) : FALSE
      OBVIOUS
    <2>2. inbox' = <<>>
      BY <1>13 DEF Restarted
    <2> QED
      BY <2>1, <2>2 DEF InboxOK
  <1> QED
    BY <1>1, <1>2, <1>3, <1>4, <1>5, <1>6, <1>7, <1>8, <1>9, <1>10, <1>11, <1>12, <1>13
       DEF Next, DiscoverStep, BrowserStep, TimeOut, Crash, Exit
-----------------------------------------------------------------------------
(* From the reading of the system state to the end of publish.listen() *)

\* What Instructed says if no other reading is to be made.
Following ==
    /\ \A ip \in DOMAIN browsers : browsers[ip] # "dead"
    /\ \/ (\A t \in Thread : Plain(todo[t])) /\ Settled
       \/ \E t \in Thread : /\ \A u \in Thread \ {t} : Plain(todo[u])
                            /\ ToListen(t) \/ ToPublish(t)

Undisturbed == ~mixed /\ \A t \in Thread : ~HasInstruct(todo[t])

\* What the property says, in the terms used here.
LEMMA InstructedIs == Instructed <=> (Undisturbed => Following)
  BY DEF Instructed, Undisturbed, Following

\* Whose turn it is, by the first call of a thread and the state of discover.
LEMMA WhoFollows ==
    ASSUME TypesOK, Following
    PROVE  /\ \A t \in Thread : todo[t] # <<>> /\ todo[t][1].op = "discover" =>
                 ToListen(t) /\ \A u \in Thread \ {t} : Plain(todo[u])
           /\ \A t \in Thread : todo[t] # <<>> /\ todo[t][1].op = "publish" =>
                 ToPublish(t) /\ \A u \in Thread \ {t} : Plain(todo[u])
           /\ calls # <<>> \/ serving # NoCall =>
                 \E t \in Thread : ToListen(t) /\ \A u \in Thread \ {t} : Plain(todo[u])
  <1>1. \A t \in Thread : todo[t] \in Seq(Ops)
    BY DEF TypesOK
  <1>2. ASSUME NEW t \in Thread, todo[t] # <<>>,
               todo[t][1].op = "discover" \/ todo[t][1].op = "publish"
        PROVE  ~Plain(todo[t])
    <2>1. 1 \in 1..Len(todo[t])
      BY <1>1, <1>2
    <2> QED
      BY <1>2, <2>1 DEF Plain
  <1>3. \A t \in Thread : /\ ToListen(t) => todo[t][1].op = "discover"
                          /\ ToPublish(t) => todo[t][1].op = "publish"
    BY DEF ToListen, ToPublish
  <1> QED
    BY <1>2, <1>3 DEF Following, Settled, ToPublish

\* A step that only takes away a plain call, or a call that no thread makes.
LEMMA PlainStep ==
    ASSUME TypesOK, Following, NEW t \in Thread,
           todo[t] # <<>>, todo[t][1].op \notin {"discover", "publish"},
           todo' = [todo EXCEPT ![t] = Tail(todo[t])],
           UNCHANGED <<system, waiting, calls, serving, browsers, zeroconfs,
                       current_descriptors>>
    PROVE  Following'
  <1>1. todo \in [Thread -> Seq(Ops)] /\ todo[t] \in Seq(Ops)
    BY DEF TypesOK
  <1>2. /\ todo'[t] = Tail(todo[t])
        /\ \A u \in Thread \ {t} : todo'[u] = todo[u]
    BY <1>1
  <1>3. \A u \in Thread : Plain(todo[u]) => Plain(todo'[u])
    BY <1>1, <1>2, TailFacts
  <1>4. CASE (\A u \in Thread : Plain(todo[u])) /\ Settled
    BY <1>3, <1>4 DEF Following, Settled, DiscoverIps, OurDescriptors
  <1>5. CASE ~((\A u \in Thread : Plain(todo[u])) /\ Settled)
    <2>1. PICK v \in Thread : /\ \A u \in Thread \ {v} : Plain(todo[u])
                              /\ ToListen(v) \/ ToPublish(v)
      BY <1>5 DEF Following
    <2>2. v # t
      BY <2>1 DEF ToListen, ToPublish
    <2>3. todo'[v] = todo[v]
      BY <1>2, <2>2
    <2>4. \A u \in Thread \ {v} : Plain(todo'[u])
      BY <1>3, <2>1
    <2>5. ToListen(v) => ToListen(v)'
      BY <2>3 DEF ToListen, DiscoverIps
    <2>6. ToPublish(v) => ToPublish(v)'
      BY <2>3 DEF ToPublish, DiscoverIps
    <2>7. \A ip \in DOMAIN browsers' : browsers'[ip] # "dead"
      BY DEF Following
    <2> QED
      BY <2>1, <2>4, <2>5, <2>6, <2>7 DEF Following
  <1> QED
    BY <1>4, <1>5

\* A step that leaves the calls alone and ends no browser thread.
LEMMA BrowserStepFollows ==
    ASSUME Following,
           UNCHANGED <<system, todo, waiting, calls, serving, zeroconfs,
                       current_descriptors>>,
           DOMAIN browsers' = DOMAIN browsers,
           \A ip \in DOMAIN browsers : browsers'[ip] = "dead" => browsers[ip] = "dead"
    PROVE  Following'
  <1>1. \A ip \in DOMAIN browsers' : browsers'[ip] # "dead"
    BY DEF Following
  <1>2. Settled => Settled'
    BY DEF Settled, DiscoverIps, OurDescriptors
  <1>3. \A t \in Thread : /\ ToListen(t) => ToListen(t)'
                          /\ ToPublish(t) => ToPublish(t)'
    BY DEF ToListen, ToPublish, DiscoverIps
  <1> QED
    BY <1>1, <1>2, <1>3 DEF Following
\* The next step of an _instruct_zeroconf, or a new one.
LEMMA InstructedNext ==
    ASSUME DiscInv, Next
    PROVE  Instructed'
  <1> SUFFICES ASSUME Undisturbed' PROVE Following'
    BY InstructedIs DEF Undisturbed, Following, Instructed
  <1>0. /\ TypesOK /\ CallersOK /\ InboxOK /\ Instructed
        /\ \A u \in Thread : InFront(todo[u]) /\ todo[u] \in Seq(Ops)
        /\ todo \in [Thread -> Seq(Ops)] /\ waiting \in [Thread -> BOOLEAN]
        /\ calls \in Seq([caller : Callers, ips : SUBSET Ips])
    BY DEF DiscInv, TypesOK
  <1>u. mixed' = FALSE \/ ~mixed'
    BY DEF Undisturbed
  <1>1. ASSUME mixed' = mixed, todo' = todo
        PROVE  Following
    BY <1>0, <1>1, InstructedIs DEF Undisturbed
  <1>2. ASSUME mixed' = mixed, NEW t \in Thread, todo[t] # <<>>,
               todo[t][1].op # "instruct_zeroconf",
               todo' = [todo EXCEPT ![t] = Tail(todo[t])]
        PROVE  Following
    <2>1. \A u \in Thread : HasInstruct(todo[u]) => HasInstruct(todo'[u])
      <3> SUFFICES ASSUME NEW u \in Thread, HasInstruct(todo[u])
                   PROVE  HasInstruct(todo'[u])
        OBVIOUS
      <3>1. CASE u = t
        BY <1>0, <1>2, <3>1, TailFacts
      <3>2. CASE u # t
        BY <1>0, <1>2, <3>2
      <3> QED
        BY <3>1, <3>2
    <2> QED
      BY <1>0, <1>2, <2>1, InstructedIs DEF Undisturbed
  <1>3. ASSUME NEW t \in Thread, todo[t] # <<>>
        PROVE  Head(todo[t]) = todo[t][1]
    BY <1>0, <1>3, TailFacts
  <1>4. ASSUME NEW t \in Thread, InstructZeroconf(t) PROVE Following'
    <2>1. todo[t] # <<>> /\ todo[t][1].op = "instruct_zeroconf"
      BY <1>3, <1>4 DEF InstructZeroconf, Next1
    <2>2. ~waiting[t]
      BY <1>0, <2>1 DEF CallersOK
    <2>3. PICK x, y : x = Listen(DiscoverIps) /\ y = [op |-> "publish", read |-> system]
      OBVIOUS
    <2>4. /\ x \in Ops /\ y \in Ops /\ x.op = "discover" /\ x.ips = DiscoverIps
          /\ y.op = "publish" /\ y.read = system
      BY <1>0, <2>3, ListenIps, OpTypes DEF DiscoverIps, TypesOK
    <2>5. PICK s : s = <<x, y>> \o Tail(todo[t])
      OBVIOUS
    <2>6. Len(s) >= 2 /\ s[1] = x /\ s[2] = y
      BY <1>0, <2>1, <2>4, <2>5, ConsFacts, TailFacts
    <2>7. todo' = [todo EXCEPT ![t] = s]
      BY <1>4, <2>3, <2>5 DEF InstructZeroconf, Continue
    <2>8. todo'[t] = s /\ \A u \in Thread \ {t} : todo'[u] = todo[u]
      BY <1>0, <2>7
    <2>9. /\ \A u \in Thread \ {t} : ~Instructing(u)
          /\ calls = <<>> /\ serving = NoCall
          /\ \A ip \in DOMAIN browsers : browsers[ip] # "dead"
      BY <1>4, <1>u DEF InstructZeroconf
    <2>10. \A u \in Thread \ {t} : Plain(todo'[u])
      BY <1>0, <2>8, <2>9, PlainNotInstructing
    <2>11. UNCHANGED <<system, waiting, calls, serving, browsers>>
      BY <1>4 DEF InstructZeroconf, dvars
    <2>12. ToListen(t)'
      BY <2>2, <2>4, <2>6, <2>8, <2>9, <2>11 DEF ToListen, DiscoverIps
    <2> QED
      BY <2>9, <2>10, <2>11, <2>12 DEF Following
  <1>5. ASSUME NEW t \in Thread, CallDiscover(t) PROVE Following'
    <2>1. /\ todo[t] # <<>> /\ Head(todo[t]).op = "discover" /\ ~waiting[t]
          /\ waiting' = [waiting EXCEPT ![t] = TRUE]
          /\ calls' = Append(calls, [caller |-> t, ips |-> Head(todo[t]).ips])
          /\ UNCHANGED <<system, todo, serving, browsers, mixed>>
      BY <1>5 DEF CallDiscover, Next1
    <2>2. Head(todo[t]) = todo[t][1]
      BY <1>3, <2>1
    <2>3. Following
      BY <1>1, <2>1
    <2>4. ToListen(t) /\ \A u \in Thread \ {t} : Plain(todo[u])
      BY <1>0, <2>1, <2>2, <2>3, WhoFollows
    <2>5. calls = <<>> /\ serving = NoCall /\ todo[t][1].ips = DiscoverIps
      BY <2>1, <2>4 DEF ToListen
    <2>6. PICK c : c = [caller |-> t, ips |-> DiscoverIps]
      OBVIOUS
    <2>7. calls' = <<c>> /\ c.caller = t /\ c.ips = DiscoverIps
      BY <2>1, <2>2, <2>5, <2>6
    <2>8. Len(calls') = 1 /\ calls'[1] = c
      BY <2>7
    <2>9. waiting'[t]
      BY <1>0, <2>1
    <2>10. ToListen(t)'
      BY <2>1, <2>4, <2>5, <2>7, <2>8, <2>9 DEF ToListen, DiscoverIps
    <2> QED
      BY <2>1, <2>3, <2>4, <2>10 DEF Following
  <1>6. ASSUME NEW t \in Thread, PublishListen(t) PROVE Following'
    <2>1. /\ todo[t] # <<>> /\ todo[t][1].op = "publish"
          /\ Head(todo[t]) = todo[t][1]
      BY <1>3, <1>6 DEF PublishListen, Next1
    <2>2. /\ zeroconfs' = ToPublishIn[Head(todo[t]).read]
          /\ current_descriptors' = OurDescriptorsIn[Head(todo[t]).read]
          /\ todo' = [todo EXCEPT ![t] = Tail(todo[t])]
          /\ mixed' = mixed
      BY <1>6, <1>u DEF PublishListen, Raise, Continue
    <2>3. UNCHANGED <<system, waiting, calls, serving, browsers>>
      BY <1>6 DEF PublishListen, dvars
    <2>4. Following
      BY <1>2, <2>1, <2>2
    <2>5. ToPublish(t) /\ \A u \in Thread \ {t} : Plain(todo[u])
      BY <1>0, <2>1, <2>4, WhoFollows
    <2>6. \A u \in Thread : Plain(todo'[u])
      <3>1. Plain(Tail(todo[t]))
        BY <1>0, <2>1, TailFacts
      <3>2. todo'[t] = Tail(todo[t]) /\ \A u \in Thread \ {t} : todo'[u] = todo[u]
        BY <1>0, <2>2
      <3> QED
        BY <2>5, <3>1, <3>2
    <2>7. Settled'
      BY <2>1, <2>2, <2>3, <2>5
         DEF ToPublish, Settled, DiscoverIps, OurDescriptors
    <2> QED
      BY <2>3, <2>4, <2>6, <2>7 DEF Following
  <1>7. ASSUME NEW t \in Thread, ReadSystem(t) \/ StartMonitor(t) \/ EnterMainLoop(t)
        PROVE  Following'
    <2>1. /\ todo[t] # <<>>
          /\ todo[t][1].op \notin {"discover", "publish", "instruct_zeroconf"}
          /\ mixed' = mixed
          /\ UNCHANGED <<waiting, calls, serving, browsers, zeroconfs,
                         current_descriptors>>
      BY <1>3, <1>7 DEF ReadSystem, StartMonitor, EnterMainLoop, Next1, dvars
    <2>2. CASE system' = system /\ todo' = [todo EXCEPT ![t] = Tail(todo[t])]
      <3>1. Following
        BY <1>2, <2>1, <2>2
      <3> QED
        BY <1>0, <2>1, <2>2, <3>1, PlainStep
    <2>3. CASE todo' = [todo EXCEPT ![t] = <<Call("instruct_zeroconf")>> \o Tail(todo[t])]
      <3>1. HasInstruct(<<Call("instruct_zeroconf")>> \o Tail(todo[t]))
        BY <1>0, <2>1, OpTypes, ConsFacts, TailFacts
      <3>2. HasInstruct(todo'[t])
        BY <1>0, <2>3, <3>1
      <3> QED
        BY <3>2 DEF Undisturbed
    <2> QED
      BY <1>7, <2>2, <2>3 DEF ReadSystem, StartMonitor, EnterMainLoop, Continue
  <1>8. ASSUME NEW t \in Thread, AdoptSystemState(t) PROVE Following'
    <2>1. PICK x : x = Call("instruct_zeroconf")
      OBVIOUS
    <2>2. x.op = "instruct_zeroconf" /\ HasInstruct(<<x>>)
      BY <2>1, OpTypes DEF HasInstruct
    <2>3. todo' = [todo EXCEPT ![t] = <<x>>]
      BY <1>8, <2>1 DEF AdoptSystemState, Continue
    <2>4. HasInstruct(todo'[t])
      BY <1>0, <2>2, <2>3
    <2> QED
      BY <2>4 DEF Undisturbed
  <1>9. CASE Rediscover
    <2>1. PICK x, y : x = Listen({}) /\ y = Call("instruct_zeroconf")
      OBVIOUS
    <2>2. y.op = "instruct_zeroconf"
      BY <2>1, OpTypes
    <2>3. HasInstruct(<<x, y>>)
      <3>1. Len(<<x, y>>) = 2 /\ <<x, y>>[2] = y /\ 2 \in 1..2
        OBVIOUS
      <3> QED
        BY <2>2, <3>1 DEF HasInstruct
    <2>4. todo' = [todo EXCEPT !["main"] = <<x, y>>]
      BY <1>9, <2>1 DEF Rediscover, Continue
    <2>5. "main" \in Thread /\ todo'["main"] = <<x, y>>
      BY <1>0, <2>4 DEF Thread
    <2> QED
      BY <2>3, <2>5 DEF Undisturbed
  <1>10. CASE ProcessDescriptorString
    <2>1. Following
      BY <1>1, <1>10, QuietSteps DEF ProcessDescriptorString, AnswerOldest
    <2>2. inbox # <<>>
      BY <1>10 DEF ProcessDescriptorString, AnswerOldest
    <2>3. Head(inbox) = inbox[1] /\ 1 \in 1..Len(inbox)
      BY <1>0, <2>2 DEF TypesOK
    <2>4. \/ browsers' = browsers
          \/ /\ Head(inbox).ip \in DOMAIN browsers
             /\ browsers' = With(browsers, Head(inbox).ip, "idle")
      BY <1>0, <1>10, <2>3 DEF ProcessDescriptorString, AnswerOldest, InboxOK
    <2>5. /\ DOMAIN browsers' = DOMAIN browsers
          /\ \A ip \in DOMAIN browsers : browsers'[ip] = "dead" => browsers[ip] = "dead"
      BY <2>4 DEF With
    <2> QED
      BY <1>10, <2>1, <2>5, QuietSteps, BrowserStepFollows
  <1>11. CASE StartListening
    <2>1. /\ serving = NoCall /\ calls # <<>> /\ calls' = Tail(calls)
          /\ UNCHANGED <<system, todo, waiting, mixed>>
          /\ serving' = [caller |-> Head(calls).caller,
                         old |-> DOMAIN browsers \ Head(calls).ips]
          /\ DOMAIN browsers' = Head(calls).ips \cup DOMAIN browsers
          /\ \A ip \in DOMAIN browsers' : browsers'[ip] =
                IF ip \in DOMAIN browsers THEN browsers[ip] ELSE "idle"
      BY <1>11 DEF StartListening, ovars
    <2>2. Following
      BY <1>1, <2>1
    <2>3. PICK t \in Thread : ToListen(t) /\ \A u \in Thread \ {t} : Plain(todo[u])
      BY <1>0, <2>1, <2>2, WhoFollows
    <2>4. /\ waiting[t] /\ Len(calls) = 1
          /\ calls[1].ips = DiscoverIps /\ calls[1].caller = t
      BY <2>1, <2>3 DEF ToListen
    <2>5. Head(calls) = calls[1] /\ calls' = <<>>
      BY <1>0, <2>1, <2>4
    <2>6. /\ serving'.caller = t /\ serving'.old = DOMAIN browsers \ DiscoverIps
          /\ DOMAIN browsers' = DiscoverIps \cup DOMAIN browsers
      BY <2>1, <2>4, <2>5
    <2>7. serving' # NoCall
      <3>1. serving' \in [caller : Thread \cup {Nobody}, old : SUBSET Ips]
        BY <1>0, <2>1, <2>4, <2>5 DEF TypesOK
      <3> QED
        BY <3>1, NoCallIsNone
    <2>8. ToListen(t)'
      BY <2>1, <2>3, <2>4, <2>5, <2>6, <2>7 DEF ToListen, DiscoverIps
    <2>9. \A ip \in DOMAIN browsers' : browsers'[ip] # "dead"
      BY <2>1, <2>2 DEF Following
    <2> QED
      BY <2>1, <2>3, <2>8, <2>9 DEF Following
  <1>12. CASE CancelBrowser
    <2>1. PICK ip \in serving.old : /\ browsers' = Without(browsers, ip)
                                    /\ serving' = [serving EXCEPT !.old = @ \ {ip}]
      BY <1>12 DEF CancelBrowser
    <2>2. serving # NoCall /\ UNCHANGED <<system, todo, waiting, calls, mixed>>
      BY <1>12 DEF CancelBrowser, ovars
    <2>3. serving \in [caller : Callers, old : SUBSET Ips]
      BY <1>0, <2>2 DEF TypesOK
    <2>4. /\ serving' \in [caller : Callers, old : SUBSET Ips]
          /\ serving'.caller = serving.caller /\ serving'.old = serving.old \ {ip}
      BY <2>1, <2>3
    <2>5. serving' # NoCall
      BY <2>4, NoCallIsNone DEF Callers
    <2>6. Following
      BY <1>1, <2>2
    <2>7. PICK t \in Thread : ToListen(t) /\ \A u \in Thread \ {t} : Plain(todo[u])
      BY <1>0, <2>2, <2>6, WhoFollows
    <2>8. /\ DOMAIN browsers' = DOMAIN browsers \ {ip}
          /\ \A x \in DOMAIN browsers' : browsers'[x] = browsers[x]
      BY <2>1 DEF Without
    <2>9. ToListen(t)'
      BY <2>1, <2>2, <2>4, <2>5, <2>7, <2>8 DEF ToListen, DiscoverIps
    <2>10. \A x \in DOMAIN browsers' : browsers'[x] # "dead"
      BY <2>6, <2>8 DEF Following
    <2> QED
      BY <2>2, <2>7, <2>9, <2>10 DEF Following
  <1>13. CASE ListenReturns
    <2>1. /\ serving # NoCall /\ serving.old = {} /\ serving' = NoCall
          /\ UNCHANGED <<system, calls, browsers, mixed>>
      BY <1>13 DEF ListenReturns
    <2>2. serving.caller # Nobody
      <3> SUFFICES ASSUME serving.caller = Nobody PROVE FALSE
        OBVIOUS
      <3>1. todo' = todo
        BY <1>13 DEF ListenReturns
      <3>2. PICK t \in Thread : ToListen(t)
        BY <1>0, <1>1, <2>1, <3>1, WhoFollows
      <3> QED
        BY <2>1, <3>2, DiscoveryTypes DEF ToListen
    <2>3. PICK t : t = serving.caller
      OBVIOUS
    <2>4. /\ t \in Thread /\ todo[t] # <<>> /\ todo[t][1].op = "discover"
          /\ todo' = [todo EXCEPT ![t] = Tail(todo[t])]
      BY <1>0, <1>13, <2>2, <2>3, Answered
    <2>5. Following
      BY <1>2, <2>1, <2>4
    <2>6. ToListen(t) /\ \A u \in Thread \ {t} : Plain(todo[u])
      BY <1>0, <2>4, <2>5, WhoFollows
    <2>7. /\ todo'[t] = Tail(todo[t])
          /\ \A u \in Thread \ {t} : todo'[u] = todo[u]
      BY <1>0, <2>4
    <2>8. PICK r : r = Tail(todo[t])
      OBVIOUS
    <2>9. /\ Len(r) = Len(todo[t]) - 1 /\ Len(todo[t]) \in Nat
          /\ \A i \in 1..Len(todo[t]) - 1 : r[i] = todo[t][i + 1]
      BY <1>0, <2>4, <2>8, TailFacts
    <2>10. Len(todo[t]) >= 2
      BY <2>6 DEF ToListen
    <2>11. Len(r) >= 1 /\ r[1] = todo[t][2]
      <3>1. 1 \in 1..Len(todo[t]) - 1 /\ 1 + 1 = 2 /\ Len(r) >= 1
        BY <2>9, <2>10
      <3> QED
        BY <2>9, <3>1
    <2>12. calls = <<>> /\ DOMAIN browsers = DiscoverIps
      BY <2>1, <2>6 DEF ToListen
    <2>13. ToPublish(t)'
      BY <2>1, <2>6, <2>7, <2>8, <2>11, <2>12 DEF ToListen, ToPublish, DiscoverIps
    <2> QED
      BY <2>1, <2>4, <2>5, <2>6, <2>7, <2>13 DEF Following
  <1>14. ASSUME NEW ip \in DOMAIN browsers, BrowserStep(ip) PROVE Following'
    <2>1. /\ mixed' = mixed /\ DOMAIN browsers' = DOMAIN browsers
          /\ \A x \in DOMAIN browsers : browsers'[x] = "dead" => browsers[x] = "dead"
      BY <1>14 DEF BrowserStep, DropService, AddService
    <2> QED
      BY <1>1, <1>14, <2>1, QuietSteps, BrowserStepFollows
  <1>15. ASSUME NEW n \in Name, NEW d \in Announcements \cup {None},
                RemoteAnnounces(n, d)
         PROVE  Following'
    <2>1. mixed' = mixed /\ browsers' = browsers
      BY <1>15 DEF RemoteAnnounces
    <2> QED
      BY <1>1, <1>15, <2>1, QuietSteps, BrowserStepFollows
  <1>16. ASSUME mixed' = TRUE PROVE Following'
    BY <1>16 DEF Undisturbed
  <1>17. CASE TimeOut \/ Crash \/ Exit
    BY <1>16, <1>17 DEF TimeOut, CallTimesOut, BrowserTimesOut, Raise, Crash, Exit,
                        Restarted
  <1> QED
    BY <1>4, <1>5, <1>6, <1>7, <1>8, <1>9, <1>10, <1>11, <1>12, <1>13, <1>14,
       <1>15, <1>17
       DEF Next, ThreadStep, DiscoverStep

-----------------------------------------------------------------------------
(* The invariant and what follows from it *)

\* At the start the daemons have not been instructed yet.
LEMMA DiscInit ==
    ASSUME Init
    PROVE  DiscInv
  <1>1. TypesOK
    <2>1. Startup \in Seq(Ops) /\ <<>> \in Seq(Ops)
      BY StartupCalls
    <2>2. todo \in [Thread -> Seq(Ops)]
      BY <2>1 DEF Init
    <2>3. DOMAIN browsers = {}
      BY DEF Init, EmptyFn
    <2>4. browsers \in [DOMAIN browsers -> {"idle", "calling", "dead"}]
      BY <2>3 DEF Init, EmptyFn
    <2>5. /\ inbox \in Seq(Requests)
          /\ calls \in Seq([caller : Callers, ips : SUBSET Ips])
      BY DEF Init
    <2> QED
      BY <2>2, <2>3, <2>4, <2>5 DEF Init, TypesOK, States
  <1>2. \A i \in 1..Len(<<>>) : FALSE
    OBVIOUS
  <1>3. \A t \in Thread : InFront(todo[t])
    <2>1. InFront(<<>>)
      BY <1>2 DEF InFront
    <2> QED
      BY <2>1, StartupCalls DEF Init
  <1>4. CallersOK /\ InboxOK
    BY <1>2 DEF Init, CallersOK, InboxOK
  <1>5. Instructed
    BY DEF Init, Instructed
  <1> QED
    BY <1>1, <1>3, <1>4, <1>5 DEF DiscInv

\* Every step keeps the invariant, part by part.
LEMMA DiscNext ==
    ASSUME DiscInv, [Next]_vars
    PROVE  DiscInv'
  <1>1. /\ TypesOK /\ CallersOK /\ InboxOK /\ \A u \in Thread : InFront(todo[u])
    BY DEF DiscInv
  <1>2. CASE Next
    <2>1. TypesOK'
      BY <1>1, <1>2, ThreadTypes, MainLoopTypes, DiscoverTypes, OtherTypes DEF Next
    <2>2. \A u \in Thread : InFront(todo'[u])
      BY <1>1, <1>2, InFrontNext
    <2>3. CallersOK' /\ InboxOK'
      BY <1>1, <1>2, CallersNext, InboxNext
    <2>4. Instructed'
      BY <1>2, InstructedNext
    <2> QED
      BY <2>1, <2>2, <2>3, <2>4 DEF DiscInv
  <1>3. CASE UNCHANGED vars
    BY <1>3 DEF vars, ovars, dvars, DiscInv, TypesOK, CallersOK, InboxOK, Instructed,
                ToListen, ToPublish, Settled, DiscoverIps, OurDescriptors
  <1> QED
    BY <1>2, <1>3

\* The calls of the three daemons stay matched with the threads that wait for
\* them, and an _instruct_zeroconf is followed from its start to its end.
THEOREM DiscoveryInvariance == Spec => []DiscInv
  <1>1. Init => DiscInv
    BY DiscInit
  <1>2. DiscInv /\ [Next]_vars => DiscInv'
    BY DiscNext
  <1> QED
    BY <1>1, <1>2, PTL DEF Spec

\* Once organize is done with _instruct_zeroconf (organize.py), undisturbed
\* by another thread, an exception or a dead browser thread, discover listens
\* at the addresses of the adopted system state, with live threads, and
\* publish announces its descriptors.
THEOREM InstructionCorrectness == Spec => []InstructedAsAdopted
  <1>1. DiscInv => InstructedAsAdopted
    <2> SUFFICES ASSUME DiscInv, Quiet, ~mixed
                 PROVE  /\ DOMAIN browsers = DiscoverIps
                        /\ \A ip \in DOMAIN browsers : browsers[ip] # "dead"
                        /\ current_descriptors = OurDescriptors
                        /\ zeroconfs = ToPublishIn[system]
      BY DEF InstructedAsAdopted
    <2>1. \A t \in Thread : todo[t] = <<>>
      BY DEF Quiet
    <2>2. Len(<<>>) = 0
      OBVIOUS
    <2>3. \A t \in Thread : ~HasInstruct(todo[t]) /\ ~ToListen(t) /\ ~ToPublish(t)
      BY <2>1, <2>2 DEF HasInstruct, ToListen, ToPublish
    <2> QED
      BY <2>3 DEF DiscInv, Instructed, Settled
  <1> QED
    BY <1>1, DiscoveryInvariance, PTL

-----------------------------------------------------------------------------
(* What organize accepts *)

\* An announcement that a listener passes on arrives as it was sent.
LEMMA ArrivesAsSent ==
    ASSUME NEW d \in Announcements
    PROVE  /\ AsReceived[d] # Invalid => AsReceived[d] = d /\ Checked(d)
           /\ Checked(d) /\ d.v4a # <<>> /\ d.v6a # <<>> => AsReceived[d] = d
           /\ Parse(AsString(d)) = IF Checked(d) THEN d ELSE Invalid
  <1>1. IsDescriptor(d)
    BY AnnouncedDescriptors
  <1>2. AsReceived[d] = FromZeroconf(Received(AsZeroconf(d)))
    BY DEF AsReceived
  <1> QED
    BY <1>1, <1>2, RecordRoundTrip, StringRoundTrip

\* A well-formed announcement reaches the state engine of organize unchanged,
\* over the record (publish.py), the listener (discover.py) and the string: it
\* is no loss in the encodings that could keep it from being accepted.
THEOREM WellFormedArrives ==
    ASSUME NEW d \in Arriving
    PROVE  AsReceived[d] = d /\ Parse(AsString(AsReceived[d])) = d
  <1>1. d \in Announcements /\ WellFormed(d)
    BY DEF Arriving
  <1>2. Checked(d) /\ d.v4a # <<>> /\ d.v6a # <<>>
    BY <1>1 DEF WellFormed, Checked
  <1> QED
    BY <1>1, <1>2, ArrivesAsSent

\* A request that organize answers is a descriptor as it was announced.
LEMMA RequestsAsAnnounced ==
    ASSUME NEW call \in Requests, Parse(call.str) # Invalid,
           VerifySignature(Parse(call.str))
    PROVE  LET d == Parse(call.str)
           IN  /\ d \in Announcements
               /\ d.s.id[1] = d.vk.id
               /\ d.s.id[2].vf = Text(d.vf)
               /\ d.pk.len = 32 /\ d.vk.len = 32
               /\ d.port \in Ports
               /\ d.pk # OurPk
  <1>1. PICK d \in Passing : call.str = AsString(AsReceived[d])
    BY DEF Requests
  <1>2. d \in Announcements /\ AsReceived[d] # Invalid /\ AsReceived[d].pk # OurPk
    BY <1>1 DEF Passing
  <1>3. AsReceived[d] = d /\ Checked(d) /\ Parse(call.str) = d
    BY <1>1, <1>2, ArrivesAsSent
  <1>4. d.s.id = <<d.vk.id, SigBuf(d)>>
    BY <1>3 DEF VerifySignature
  <1>5. SigBuf(d).vf = Text(d.vf)
    <2>1. "vf" \in DOMAIN d \ {"s"}
      BY <1>2, AnnouncedDescriptors, Fields
    <2>2. AsString(d)["vf"] = Text(d.vf)
      BY <2>1 DEF AsString, StrOf, Packable
    <2> QED
      BY <2>1, <2>2 DEF SigBuf
  <1>6. d.s.id[1] = d.vk.id /\ d.s.id[2].vf = Text(d.vf)
    BY <1>4, <1>5
  <1>7. d.pk.len = 32 /\ d.vk.len = 32 /\ d.port \in Ports
    BY <1>3 DEF Checked
  <1> QED
    BY <1>2, <1>3, <1>6, <1>7

\* Only process_descriptor_string accepts a descriptor.
LEMMA AcceptedNext ==
    ASSUME TypesOK, AcceptedAsAnnounced, [Next]_vars
    PROVE  AcceptedAsAnnounced'
  <1>1. CASE ProcessDescriptorString
    <2>1. inbox \in Seq(Requests) /\ inbox # <<>>
      BY <1>1 DEF TypesOK, ProcessDescriptorString, AnswerOldest
    <2>2. PICK call : call = Head(inbox)
      OBVIOUS
    <2>3. call \in Requests
      BY <2>1, <2>2
    <2>4. accepted' = IF Parse(call.str) # Invalid /\ VerifySignature(Parse(call.str))
                      THEN accepted \cup {Parse(call.str)} ELSE accepted
      BY <1>1, <2>2 DEF ProcessDescriptorString, AnswerOldest
    <2> QED
      BY <2>3, <2>4, RequestsAsAnnounced DEF AcceptedAsAnnounced
  <1>2. CASE accepted' = accepted
    BY <1>2 DEF AcceptedAsAnnounced
  <1>3. ASSUME NEW t \in Thread, ThreadStep(t) \/ AdoptSystemState(t)
        PROVE  accepted' = accepted
    BY <1>3 DEF ThreadStep, InstructZeroconf, CallDiscover, PublishListen,
                ReadSystem, StartMonitor, EnterMainLoop, AdoptSystemState
  <1>4. ASSUME Rediscover \/ DiscoverStep
        PROVE  accepted' = accepted
    BY <1>4 DEF Rediscover, DiscoverStep, StartListening, CancelBrowser,
                ListenReturns, ovars
  <1>5. ASSUME NEW ip, BrowserStep(ip) \/ BrowserTimesOut(ip)
        PROVE  accepted' = accepted
    BY <1>5 DEF BrowserStep, DropService, AddService, BrowserTimesOut, ovars
  <1>6. ASSUME NEW n, NEW d, RemoteAnnounces(n, d)
        PROVE  accepted' = accepted
    BY <1>6 DEF RemoteAnnounces, ovars
  <1>7. ASSUME NEW t, CallTimesOut(t)
        PROVE  accepted' = accepted
    BY <1>7 DEF CallTimesOut
  <1>8. CASE Crash \/ Exit
    BY <1>2, <1>8 DEF Crash, Exit, Restarted
  <1>9. CASE UNCHANGED vars
    BY <1>2, <1>9 DEF vars, ovars
  <1> QED
    BY <1>1, <1>2, <1>3, <1>4, <1>5, <1>6, <1>7, <1>8, <1>9 DEF Next, TimeOut

\* Whatever organize passes to its state engine was announced just so, by a
\* holder of the key it names, with keys of the right length and a port, and
\* is not the descriptor of this host (process_descriptor_string, discover.py).
THEOREM AcceptanceCorrectness == Spec => []AcceptedAsAnnounced
  <1>1. Init => AcceptedAsAnnounced
    BY DEF Init, AcceptedAsAnnounced
  <1>2. DiscInv /\ AcceptedAsAnnounced /\ [Next]_vars => AcceptedAsAnnounced'
    BY AcceptedNext DEF DiscInv
  <1> QED
    BY <1>1, <1>2, DiscoveryInvariance, PTL DEF Spec
=============================================================================
