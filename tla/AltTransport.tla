---------------------------- MODULE AltTransport ----------------------------
(***************************************************************************)
(* The alternative discovery transport: publish_alt.py splits an encrypted *)
(* descriptor into chunks that it sends as the padding of ARP packets, one *)
(* broadcast after every `time_interval', and discover_alt.py on another   *)
(* host joins the chunks of a source until they decrypt.  Chunks that were *)
(* not completed within `max_age' of the last one are flushed.             *)
(*                                                                         *)
(* Each daemon has threads that loop while `active' is set; start() and    *)
(* stop() are called over D-Bus.  A thread is <<what it runs, number>> and *)
(* `pc' tells where it is.  Time passes in ticks: every thread goes once   *)
(* through its loop in a tick, or sends one packet, and sleeps; in which   *)
(* order they do so in a tick is open.  The ages in the model are those of *)
(* the timestamps in the code.                                             *)
(*                                                                         *)
(* Organize is external: what our_latest_descriptors() answers is a        *)
(* function from its keys to the names of the fields of a descriptor, or   *)
(* to a string.                                                            *)
(***************************************************************************)
EXTENDS Naturals, Sequences, FiniteSets, SequencesExt

CONSTANTS
    Ip,            \* addresses
    Interface,     \* interfaces of the publishing host, named by their mac
    GetIp,         \* the (first) address of each interface: get_ip
    StartLists,    \* the arguments of start(): sequences of addresses
    Answers,       \* what organize may answer: functions to sets of fields
    String,        \* a descriptor that is a string and has no fields
    Chunks,        \* number of packets of a broadcast
    MaxAge,        \* max_age, in ticks
    Interval,      \* time_interval, in ticks
    MaxCasts,      \* bound on the broadcasts
    MaxStarts,     \* bound on the calls of start() and stop()
    MaxFaults      \* bound on lost packets and failing calls

ASSUME AltTypes ==
    /\ GetIp \in [Interface -> Ip]
    /\ StartLists \subseteq Seq(Ip)
    /\ Chunks \in Nat \ {0} /\ MaxAge \in Nat /\ Interval \in Nat
    /\ MaxCasts \in Nat /\ MaxStarts \in Nat /\ MaxFaults \in Nat

VARIABLES
    pub_active, disc_active, \* `active' of the two daemons
    pc,              \* per thread that is alive, where it is and what it holds
    control,         \* the main thread of publish_alt: "idle", or in stop()
    publish_entries, \* publish_alt: the queue of entries
    packets,         \* publish_alt: the queue of broadcasts to be sent
    closed,          \* publish_alt: the sockets that are closed
    buffer,          \* discover_alt: packets its socket has received
    packet_queue,    \* discover_alt: packets it has taken from the socket
    peers,           \* discover_alt: per source its byte stream and its age
    descriptor_queue,\* discover_alt: decrypted descriptors
    answer,          \* what organize answers on the publishing host
    organized,       \* the addresses whose descriptors organize was given
    ran,             \* the threads that have run in this tick
    disturbed,       \* whether a daemon was stopped or started once too often,
                     \* or discover_alt was started late
    used             \* how much of each bound is used up

pvars == <<pub_active, control, publish_entries, packets, closed>>
dvars == <<disc_active, buffer, packet_queue, peers, descriptor_queue,
           organized>>
vars == <<pvars, dvars, pc, answer, ran, disturbed, used>>

Running(kind) == {t \in DOMAIN pc : t[1] = kind}
At(t, where) == t \in DOMAIN pc /\ pc[t].at = where

\* The thread is at the top of its loop and has slept since the last pass.
AtTop(t, kind) == At(t, "top") /\ t[1] = kind /\ t \notin ran

Goto(t, state) == pc' = [pc EXCEPT ![t] = state]
Top == [at |-> "top"]
Begin(new) ==
    pc' = [t \in DOMAIN pc \cup new |-> IF t \in new THEN Top ELSE pc[t]]
Ends(t) ==
    /\ pc' = [u \in DOMAIN pc \ {t} |-> pc[u]]
    /\ ran' = ran \ {t}
Iterated(t) == Goto(t, Top) /\ ran' = ran \cup {t}

Spend(what) ==
    /\ used[what] < (CASE what = "casts" -> MaxCasts
                       [] what = "starts" -> MaxStarts
                       [] OTHER -> MaxFaults)
    /\ used' = [used EXCEPT ![what] = @ + 1]

PublishInit ==
    /\ pub_active = FALSE
    /\ control = "idle"
    /\ publish_entries = <<>> /\ packets = <<>> /\ closed = {}

DiscoverInit ==
    /\ disc_active = FALSE
    /\ buffer = <<>> /\ packet_queue = <<>>
    /\ peers = [mac \in {} |-> [stream |-> <<>>, age |-> 0]]
    /\ descriptor_queue = <<>>
    /\ organized = {}

Init ==
    /\ PublishInit /\ DiscoverInit
    /\ pc = [t \in {} |-> Top]
    /\ answer \in Answers
    /\ ran = {}
    /\ disturbed = FALSE
    /\ used = [casts |-> 0, starts |-> 0, faults |-> 0]

-----------------------------------------------------------------------------
(* Publish_Alt: start, setup and stop *)

\* The interface that has this address, if there is one.
InterfaceNames(ip) == {name \in Interface : GetIp[name] = ip}

\* setup: an entry with a new socket for each address, up to one that belongs
\* to no interface.  An entry that was never sent is due at once.  `n' counts
\* its broadcasts, to tell them apart.
Entries(ips) ==
    LET bad == SelectInSeq(ips, LAMBDA ip : InterfaceNames(ip) = {})
    IN  [i \in 1 .. (IF bad = 0 THEN Len(ips) ELSE bad - 1) |->
            [ip |-> ips[i], mac |-> CHOOSE m \in InterfaceNames(ips[i]) : TRUE,
             sock |-> <<used.starts, i>>, age |-> Interval + 1, n |-> 0]]

\* start: binding a socket to no interface raises, and leaves the entries that
\* were made before it in the queue.
PubStart(ips) ==
    /\ control = "idle"
    /\ Spend("starts")
    /\ publish_entries' = publish_entries \o Entries(ips)
    /\ disturbed' = (disturbed \/ pub_active \/ publish_entries # <<>>)
    /\ LET starts == ~pub_active /\ Len(Entries(ips)) = Len(ips)
           new == {<<"send", used.starts>>, <<"run", used.starts>>}
       IN  /\ pub_active' = (pub_active \/ starts)
           /\ IF starts THEN Begin(new) ELSE UNCHANGED pc
    /\ UNCHANGED <<control, packets, closed, dvars, answer, ran>>

PubStop ==
    /\ control = "idle"
    /\ Spend("starts")
    /\ pub_active' = FALSE
    /\ disturbed' = TRUE
    /\ control' = "clearing"
    /\ UNCHANGED <<publish_entries, packets, closed, dvars, pc, answer, ran>>

\* clear_broadcast_queue tests whether the queue is empty,
ClearTest ==
    /\ control = "clearing"
    /\ control' = IF publish_entries = <<>> THEN "replacing" ELSE "taking"
    /\ UNCHANGED <<pub_active, publish_entries, packets, closed, dvars, pc,
                   answer, ran, disturbed, used>>

\* and if not waits for an entry.
ClearTake ==
    /\ control = "taking"
    /\ publish_entries # <<>>
    /\ closed' = closed \cup {Head(publish_entries).sock}
    /\ publish_entries' = Tail(publish_entries)
    /\ control' = "clearing"
    /\ UNCHANGED <<pub_active, packets, dvars, pc, answer, ran, disturbed, used>>

\* In the end it makes a new queue: an entry that was put back since the test
\* is lost with the old one.
ClearReplace ==
    /\ control = "replacing"
    /\ publish_entries' = <<>>
    /\ control' = "idle"
    /\ UNCHANGED <<pub_active, packets, closed, dvars, pc, answer, ran,
                   disturbed, used>>

-----------------------------------------------------------------------------
(* Publish_Alt: the publishing thread *)

\* load_descriptor: the fields of the descriptor of this address; there may be
\* none, or it may not be a dictionary.
Loads(ip) == ip \in DOMAIN answer /\ answer[ip] # String

\* compress_and_encrypt: the key comes from the mac, and every message is
\* different (a timestamp, a nonce).  The nonce and the ciphertext are random
\* bytes: a chunk may begin with a zero byte (zero is its number), and the last
\* byte of all may be one (zero is Chunks + 1).
CompressAndEncrypt(entry, zero) ==
    [key |-> entry.mac, msg |-> entry.ip, fields |-> answer[entry.ip],
     nonce |-> <<entry.sock, entry.n>>, zero |-> zero]

\* generate_header.  (What get_arp chooses as the destination does not matter:
\* the packet is broadcast.)
Header(entry) == [src_mac |-> entry.mac]

\* get_packets: chunk i of the message after the header.  They are queued with
\* the socket of the entry.
GetPackets(entry, message) ==
    [i \in 1 .. Chunks |->
        [socket |-> entry.sock, header |-> Header(entry),
         chunk |-> [i |-> i, of |-> message]]]

\* run: the descriptors are fetched, which raises if organize does not answer.
RunTop(t) ==
    /\ AtTop(t, "run")
    /\ \/ ~pub_active /\ Ends(t) /\ UNCHANGED used
       \/ pub_active /\ Spend("faults") /\ Ends(t)
       \/ pub_active /\ Goto(t, [at |-> "take"]) /\ UNCHANGED <<ran, used>>
    /\ UNCHANGED <<pvars, dvars, answer, disturbed>>

\* process_publish_entry: the first entry is taken from the queue.
TakeEntry(t) ==
    /\ At(t, "take")
    /\ \/ /\ publish_entries = <<>>
          /\ Iterated(t)
          /\ UNCHANGED publish_entries
       \/ /\ publish_entries # <<>>
          /\ Goto(t, [at |-> "entry", entry |-> Head(publish_entries)])
          /\ publish_entries' = Tail(publish_entries)
          /\ UNCHANGED ran
    /\ UNCHANGED <<pub_active, control, packets, closed, dvars, answer,
                   disturbed, used>>

Due(entry) == entry.age > Interval /\ used.casts < MaxCasts

\* Mutant: an entry that is not due is dropped.
DropEntry(t) ==
    /\ At(t, "entry")
    /\ ~Due(pc[t].entry)
    /\ Iterated(t)
    /\ UNCHANGED <<pvars, dvars, answer, disturbed, used>>

\* An entry that is not due goes back into the queue.
PutBack(t) ==
    /\ At(t, "entry")
    /\ ~Due(pc[t].entry)
    /\ publish_entries' = Append(publish_entries, pc[t].entry)
    /\ Iterated(t)
    /\ UNCHANGED <<pub_active, control, packets, closed, dvars, answer,
                   disturbed, used>>

\* One that is due becomes a broadcast and goes back.  If its descriptor cannot
\* be loaded the thread ends and the entry is lost.
Broadcast(t) ==
    /\ At(t, "entry")
    /\ Due(pc[t].entry)
    /\ LET entry == pc[t].entry
       IN  \/ /\ ~Loads(entry.ip)
              /\ Ends(t)
              /\ UNCHANGED <<publish_entries, packets, used>>
           \/ /\ Loads(entry.ip)
              /\ \E zero \in 0 .. Chunks + 1 :
                    /\ zero # 0 => used.faults < MaxFaults
                    /\ used' = [used EXCEPT !.casts = @ + 1,
                                            !.faults = IF zero = 0 THEN @ ELSE @ + 1]
                    /\ packets' = Append(packets,
                          GetPackets(entry, CompressAndEncrypt(entry, zero)))
              /\ publish_entries' = Append(publish_entries,
                    [entry EXCEPT !.age = 0, !.n = @ + 1])
              /\ Iterated(t)
    /\ UNCHANGED <<pub_active, control, closed, dvars, answer, disturbed>>

(* Publish_Alt: the sending thread *)

SendTop(t) ==
    /\ AtTop(t, "send")
    /\ \/ ~pub_active /\ Ends(t) /\ UNCHANGED packets
       \/ pub_active /\ packets = <<>> /\ Iterated(t) /\ UNCHANGED packets
       \/ /\ pub_active /\ packets # <<>>
          /\ Goto(t, [at |-> "sending", rest |-> Head(packets)])
          /\ packets' = Tail(packets)
          /\ UNCHANGED ran
    /\ UNCHANGED <<pub_active, control, publish_entries, closed, dvars, answer,
                   disturbed, used>>

\* One packet, which the network may lose.  A closed socket raises.
SendPacket(t) ==
    /\ At(t, "sending") /\ t \notin ran
    /\ LET rest == pc[t].rest
       IN  \/ Head(rest).socket \in closed /\ Ends(t) /\ UNCHANGED <<buffer, used>>
           \/ /\ Head(rest).socket \notin closed
              /\ \/ buffer' = Append(buffer, Head(rest)) /\ UNCHANGED used
                 \/ Spend("faults") /\ UNCHANGED buffer
              /\ ran' = ran \cup {t}
              /\ Goto(t, IF Len(rest) = 1 THEN Top
                         ELSE [at |-> "sending", rest |-> Tail(rest)])
    /\ UNCHANGED <<pvars, disc_active, packet_queue, peers, descriptor_queue,
                   organized, answer, disturbed>>

-----------------------------------------------------------------------------
(* Discover_Alt *)

\* start makes three threads, whether or not there are any.
DiscStart ==
    /\ Spend("starts")
    /\ disturbed' = (disturbed \/ disc_active \/ buffer # <<>>)
    /\ disc_active' = TRUE
    /\ LET new == {<<kind, used.starts>> : kind \in {"capture", "process", "flush"}}
       IN  Begin(new)
    /\ UNCHANGED <<pvars, buffer, packet_queue, peers, descriptor_queue,
                   organized, answer, ran>>

DiscStop ==
    /\ disc_active
    /\ Spend("starts")
    /\ disc_active' = FALSE
    /\ disturbed' = TRUE
    /\ UNCHANGED <<pvars, buffer, packet_queue, peers, descriptor_queue,
                   organized, pc, answer, ran>>

\* receive_packet: a packet, or a timeout.  (Packets that arrive while
\* no thread listens stay in the buffer of the socket.)
CaptureTop(t) ==
    /\ AtTop(t, "capture")
    /\ \/ ~disc_active /\ Ends(t) /\ UNCHANGED <<buffer, packet_queue>>
       \/ /\ disc_active /\ buffer # <<>>
          /\ packet_queue' = Append(packet_queue, Head(buffer))
          /\ buffer' = Tail(buffer)
          /\ Goto(t, [at |-> "get"]) /\ UNCHANGED ran
       \/ /\ disc_active /\ buffer = <<>>
          /\ Goto(t, [at |-> "get"]) /\ UNCHANGED <<ran, buffer, packet_queue>>
    /\ UNCHANGED <<pvars, disc_active, peers, descriptor_queue, organized,
                   answer, disturbed, used>>

BeginsWithZero(chunk) == chunk.of.zero = chunk.i

\* process_packet: a payload that begins with a zero byte is ignored.
CaptureGet(t) ==
    /\ At(t, "get")
    /\ \/ packet_queue = <<>> /\ Iterated(t) /\ UNCHANGED packet_queue
       \/ /\ packet_queue # <<>>
          /\ packet_queue' = Tail(packet_queue)
          /\ IF BeginsWithZero(Head(packet_queue).chunk) THEN Iterated(t)
             ELSE /\ Goto(t, [at |-> "update", packet |-> Head(packet_queue)])
                  /\ UNCHANGED ran
    /\ UNCHANGED <<pvars, disc_active, buffer, peers, descriptor_queue,
                   organized, answer, disturbed, used>>

StreamOf(mac) == IF mac \in DOMAIN peers THEN peers[mac].stream ELSE <<>>

\* update_peer with a candidate and without.
UpdatePeer(mac, stream) ==
    peers' = [x \in DOMAIN peers \cup {mac} |->
                 IF x = mac THEN [stream |-> stream, age |-> 0] ELSE peers[x]]

CaptureUpdate(t) ==
    /\ At(t, "update")
    /\ LET mac == pc[t].packet.header.src_mac
       IN  UpdatePeer(mac, Append(StreamOf(mac), pc[t].packet.chunk))
    /\ Iterated(t)
    /\ UNCHANGED <<pvars, disc_active, buffer, packet_queue, descriptor_queue,
                   organized, answer, disturbed, used>>

\* decrypt, once zero bytes are stripped from the stream: all the chunks of one
\* broadcast in their order, and a descriptor that begins with "addrs".
Decrypts(stream, key) ==
    /\ Len(stream) = Chunks
    /\ \A i \in 1 .. Chunks : stream[i] = [i |-> i, of |-> stream[1].of]
    /\ stream[1].of.key = key
    /\ stream[1].of.zero # Chunks + 1
    /\ "addrs" \in stream[1].of.fields

\* decrypt_broadcast of every source: those whose stream decrypts.
Complete == {mac \in DOMAIN peers : Decrypts(peers[mac].stream, mac)}

Erasing(macs) ==
    IF macs = {} THEN [at |-> "deliver"]
    ELSE [at |-> "erase", erase_list |-> macs]

\* decrypt_all_broadcasts, under the lock.
ProcessTop(t) ==
    /\ AtTop(t, "process")
    /\ \/ ~disc_active /\ Ends(t) /\ UNCHANGED descriptor_queue
       \/ /\ disc_active
          /\ descriptor_queue' = descriptor_queue
                \o SetToSeq({peers[mac].stream[1].of.msg : mac \in Complete})
          /\ Goto(t, Erasing(Complete))
          /\ UNCHANGED ran
    /\ UNCHANGED <<pvars, disc_active, buffer, packet_queue, peers, organized,
                   answer, disturbed, used>>

\* Then, without it, the streams are erased one by one.
ProcessErase(t) ==
    /\ At(t, "erase")
    /\ \E mac \in pc[t].erase_list :
          /\ UpdatePeer(mac, <<>>)
          /\ Goto(t, Erasing(pc[t].erase_list \ {mac}))
    /\ UNCHANGED <<pvars, disc_active, buffer, packet_queue, descriptor_queue,
                   organized, answer, ran, disturbed, used>>

\* process_descriptors: one of them is given to organize.  The call may raise.
ProcessDeliver(t) ==
    /\ At(t, "deliver")
    /\ \/ /\ descriptor_queue = <<>>
          /\ Iterated(t)
          /\ UNCHANGED <<descriptor_queue, organized, used>>
       \/ /\ descriptor_queue # <<>>
          /\ descriptor_queue' = Tail(descriptor_queue)
          /\ \/ /\ organized' = organized \cup {Head(descriptor_queue)}
                /\ Iterated(t) /\ UNCHANGED used
             \/ Spend("faults") /\ Ends(t) /\ UNCHANGED organized
    /\ UNCHANGED <<pvars, disc_active, buffer, packet_queue, peers, answer, disturbed>>

\* The streams that are older than max_age are emptied.
Flushed(max_age) ==
    [mac \in DOMAIN peers |->
        IF peers[mac].age > max_age THEN [peers[mac] EXCEPT !.stream = <<>>]
        ELSE peers[mac]]

\* Mutant: a stream is flushed when it is as old as max_age.
FlushEarly(t) ==
    /\ AtTop(t, "flush")
    /\ disc_active
    /\ peers' = Flushed(MaxAge - 1)
    /\ Iterated(t)
    /\ UNCHANGED <<pvars, disc_active, buffer, packet_queue, descriptor_queue,
                   organized, answer, disturbed, used>>

\* Mutant: streams are not flushed.
FlushNever(t) ==
    /\ AtTop(t, "flush")
    /\ disc_active
    /\ UNCHANGED peers
    /\ Iterated(t)
    /\ UNCHANGED <<pvars, disc_active, buffer, packet_queue, descriptor_queue,
                   organized, answer, disturbed, used>>

\* flush_old_peers
FlushTop(t) ==
    /\ AtTop(t, "flush")
    /\ \/ ~disc_active /\ Ends(t) /\ UNCHANGED peers
       \/ /\ disc_active
          /\ peers' = Flushed(MaxAge)
          /\ Iterated(t)
    /\ UNCHANGED <<pvars, disc_active, buffer, packet_queue, descriptor_queue,
                   organized, answer, disturbed, used>>

-----------------------------------------------------------------------------
Older(age, limit) == IF age > limit THEN age ELSE age + 1

\* A tick of the clock.  Every thread that is alive has run since the last.
\* (time.time() in the code.)
Tick ==
    /\ ran = DOMAIN pc
    /\ ran # {}
    /\ ran' = {}
    /\ publish_entries' = [i \in DOMAIN publish_entries |->
          [publish_entries[i] EXCEPT !.age = Older(@, Interval)]]
    /\ peers' = [mac \in DOMAIN peers |->
                   [peers[mac] EXCEPT !.age = Older(@, MaxAge)]]
    /\ pc' = [t \in DOMAIN pc |->
                IF pc[t].at = "entry"
                THEN [pc[t] EXCEPT !.entry.age = Older(@, Interval)] ELSE pc[t]]
    /\ UNCHANGED <<pub_active, control, packets, closed, disc_active, buffer,
                   packet_queue, descriptor_queue, organized, answer, disturbed, used>>

ThreadStep(t) ==
    \/ RunTop(t) \/ TakeEntry(t) \/ PutBack(t) \/ Broadcast(t)
    \/ SendTop(t) \/ SendPacket(t)
    \/ CaptureTop(t) \/ CaptureGet(t) \/ CaptureUpdate(t)
    \/ ProcessTop(t) \/ ProcessErase(t) \/ ProcessDeliver(t)
    \/ FlushTop(t)

Clear == ClearTest \/ ClearTake \/ ClearReplace

Next ==
    \/ \E t \in DOMAIN pc : ThreadStep(t)
    \/ \E ips \in StartLists : PubStart(ips)
    \/ PubStop \/ Clear
    \/ DiscStart \/ DiscStop
    \/ Tick

Threads == {"run", "send", "capture", "process", "flush"} \X (0 .. MaxStarts)

\* Every thread is scheduled and time passes.
Fairness ==
    /\ \A t \in Threads : WF_vars(ThreadStep(t))
    /\ WF_vars(Clear)
    /\ WF_vars(Tick)

Spec == Init /\ [][Next]_vars /\ Fairness
-----------------------------------------------------------------------------
(* Properties *)

\* Unless the daemons are stopped and started again: what discover_alt has of a
\* source are chunks of a single broadcast, in their order, although packets
\* are lost, three threads share the table, and the streams are erased after
\* the lock was released.
OneStream ==
    ~disturbed =>
        \A mac \in DOMAIN peers :
            LET stream == peers[mac].stream
            IN  \A i, j \in DOMAIN stream : i < j =>
                    stream[i].of = stream[j].of /\ stream[i].i < stream[j].i

AllRunning ==
    /\ ~disturbed /\ pub_active /\ disc_active
    /\ \A kind \in {"run", "send", "capture", "process", "flush"} :
          Running(kind) # {}

\* A lost packet, or one that begins with a zero byte, costs one broadcast: while
\* both daemons run, the descriptor of every address that is published
\* reaches organize with one of the next broadcasts.
RetryDelivers ==
    \A ip \in Ip :
        AllRunning /\ used.casts = 0 /\ (\E i \in DOMAIN publish_entries :
                            publish_entries[i].ip = ip) ~>
            ip \in organized \/ ~AllRunning

\* stop() of publish_alt returns, although it waits for a queue that the
\* publishing thread empties at the same time: that thread puts back what
\* it has taken, if organize knows the descriptor.
StopReturns ==
    (\A ip \in Range(GetIp) : Loads(ip)) /\ control # "idle" ~> control = "idle"
=============================================================================
