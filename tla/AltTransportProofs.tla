------------------------- MODULE AltTransportProofs -------------------------
(***************************************************************************)
(* Proof that discover_alt never joins the chunks of two broadcasts, for   *)
(* any number of interfaces, chunks, broadcasts and lost packets, provided *)
(* the daemon is told to publish each address once and the broadcasts of   *)
(* all interfaces, one after the other, fit into the interval (Timing).    *)
(*                                                                         *)
(* The argument is about time.  When an entry is due, all that was sent of *)
(* its previous broadcast must have left the queues of both daemons, and   *)
(* what was received of it must have been erased or flushed.  So the       *)
(* invariant bounds the age of an entry at each station of its chunks: the *)
(* queue of broadcasts, the thread that sends them, the socket, the thread *)
(* that captures them and the stream.                                      *)
(***************************************************************************)
EXTENDS AltTransport, SequenceLemmas

\* Time for the broadcasts of all interfaces, and for the last one to be
\* captured.
Limit == Cardinality(Interface) * Chunks + 1

\* start() is given no address twice; after the time that it takes to send and
\* to capture a broadcast it is flushed before the next one is due.
Timing ==
    /\ IsFiniteSet(Interface)
    /\ \A ips \in StartLists : \A i, j \in DOMAIN ips : ips[i] = ips[j] => i = j
    /\ Limit + MaxAge + 1 <= Interval

-----------------------------------------------------------------------------
(* Types *)

Socket == Nat \X Nat
Entry == [ip : Ip, mac : Interface, sock : Socket, age : 0 .. Interval + 1, n : Nat]
Fields == UNION {{a[ip] : ip \in DOMAIN a} : a \in Answers}
Message == [key : Interface, msg : Ip, fields : Fields, nonce : Socket \X Nat,
            zero : 0 .. Chunks + 1]
Chunk == [i : 1 .. Chunks, of : Message]
Packet == {p \in [socket : Socket, header : [src_mac : Interface], chunk : Chunk] :
              p.header.src_mac = p.chunk.of.key}

\* Consecutive chunks of one message.
Consecutive(ps) ==
    \A i \in 1 .. Len(ps) :
        /\ ps[i].chunk.of = ps[1].chunk.of
        /\ ps[i].chunk.i = ps[1].chunk.i + i - 1

Parts == {ps \in Seq(Packet) : ps # <<>> /\ Consecutive(ps)}
Casts == {ps \in Parts : Len(ps) = Chunks /\ ps[1].chunk.i = 1}
Key(ps) == ps[1].chunk.of.key

RunStates == {Top, [at |-> "take"]} \cup [at : {"entry"}, entry : Entry]
SendStates == {Top} \cup [at : {"sending"}, rest : Parts]
CaptureStates == {Top, [at |-> "get"]} \cup [at : {"update"}, packet : Packet]
ProcessStates == {Top, [at |-> "deliver"]}
                 \cup [at : {"erase"}, erase_list : SUBSET Interface]

\* What a thread may be doing.
StateOK(t, state) ==
    /\ t[1] = "run" => state \in RunStates
    /\ t[1] = "send" => state \in SendStates
    /\ t[1] = "capture" => state \in CaptureStates
    /\ t[1] = "process" => state \in ProcessStates
    /\ t[1] = "flush" => state = Top

Kinds == {"run", "send", "capture", "process", "flush"}

\* The daemons were started at most once: each has at most one thread of a kind.
\* Those that take part in the transport do not end, and a thread that has run
\* in this tick is at the top of its loop, or between two packets.
ThreadsOK ==
    /\ \A t \in DOMAIN pc :
          /\ t \in Kinds \X Nat /\ t[2] < used.starts
          /\ StateOK(t, pc[t])
          /\ t[1] \in {"run", "send"} => pub_active
          /\ t[1] \in {"capture", "process", "flush"} => disc_active
          /\ \A u \in DOMAIN pc : u[1] = t[1] => u = t
    /\ pub_active => Running("send") # {}
    /\ disc_active => Running("capture") # {} /\ Running("flush") # {}
    /\ ran \subseteq DOMAIN pc
    /\ \A t \in ran : t[1] # "send" => pc[t] = Top

TypesOK ==
    /\ pub_active \in BOOLEAN /\ disc_active \in BOOLEAN
    /\ control = "idle" /\ closed = {}
    /\ used \in [{"casts", "starts", "faults"} -> Nat]
    /\ answer \in Answers
    /\ publish_entries \in Seq(Entry)
    /\ packets \in Seq(Casts)
    /\ buffer \in Seq(Packet) /\ packet_queue \in Seq(Packet)
    /\ DOMAIN peers \subseteq Interface
    /\ peers \in [DOMAIN peers -> [stream : Seq(Chunk), age : 0 .. MaxAge + 1]]

-----------------------------------------------------------------------------
(* Where the chunks are, and in which order *)

\* The entries of the publishing daemon.
Held == {pc[t].entry : t \in {u \in Running("run") : pc[u].at = "entry"}}
EntrySet == Elems(publish_entries) \cup Held

\* The chunks that a thread is sending, those in the socket, and those that the
\* capturing thread has.
Sending == UNION {{pc[t].rest[i].chunk : i \in 1 .. Len(pc[t].rest)} :
                     t \in {u \in Running("send") : pc[u].at = "sending"}}
Buffered == IF disc_active THEN {buffer[i].chunk : i \in 1 .. Len(buffer)} ELSE {}
InHand == {packet_queue[i].chunk : i \in 1 .. Len(packet_queue)}
          \cup {pc[t].packet.chunk :
                    t \in {u \in Running("capture") : pc[u].at = "update"}}
Streamed == UNION {{peers[mac].stream[i] : i \in 1 .. Len(peers[mac].stream)} :
                      mac \in DOMAIN peers}

Follows(x, y) == x.of.key = y.of.key => x.of = y.of /\ x.i < y.i
Before(X, Y) == \A x \in X, y \in Y : Follows(x, y)

\* One entry, and one broadcast that waits, per interface.
EntriesOK ==
    /\ \A i, j \in 1 .. Len(publish_entries) :
          publish_entries[i].mac = publish_entries[j].mac => i = j
    /\ \A e \in Held, i \in 1 .. Len(publish_entries) :
          e.mac # publish_entries[i].mac

\* Of a broadcast that waits nothing is anywhere else.
WaitingOK ==
    /\ \A p, q \in 1 .. Len(packets) : Key(packets[p]) = Key(packets[q]) => p = q
    /\ \A q \in 1 .. Len(packets) :
          \A x \in Sending \cup Buffered \cup InHand \cup Streamed :
              x.of.key # Key(packets[q])

OrderOK ==
    /\ Before(Streamed, InHand \cup Buffered \cup Sending)
    /\ Before(InHand, Buffered \cup Sending)
    /\ Before(Buffered, Sending)
    /\ disc_active => \A i, j \in 1 .. Len(buffer) :
          i < j => Follows(buffer[i].chunk, buffer[j].chunk)
    /\ \A mac \in DOMAIN peers :
          LET stream == peers[mac].stream
          IN  /\ \A i \in 1 .. Len(stream) : stream[i].of.key = mac
              /\ \A i, j \in 1 .. Len(stream) : i < j => Follows(stream[i], stream[j])

\* What the capturing thread has it handles before it sleeps.
HandOK ==
    /\ Len(packet_queue) <= 1
    /\ packet_queue # <<>> => \E t \in Running("capture") : pc[t].at = "get"

\* Nothing is under way before the daemons are started.
StartOK ==
    /\ ~pub_active => /\ packets = <<>> /\ buffer = <<>>
                      /\ InHand = {} /\ Streamed = {}
    /\ ~disc_active => InHand = {} /\ Streamed = {}

-----------------------------------------------------------------------------
(* Time *)

\* What a thread has done in this tick, and has left to do.
Did(t) == IF t \in ran THEN 1 ELSE 0
Taken(t) == IF t \in ran \/ pc[t].at # "top" THEN 1 ELSE 0
Work(t) == IF pc[t].at = "sending" THEN Len(pc[t].rest) ELSE 0

\* A broadcast waits for those before it.
WaitingTime ==
    \A t \in Running("send"), e \in EntrySet, q \in 1 .. Len(packets) :
        Key(packets[q]) = e.mac => e.age + Did(t) + Work(t) + q * Chunks <= Limit
SendingTime ==
    \A t \in Running("send"), e \in EntrySet :
        pc[t].at = "sending" /\ Key(pc[t].rest) = e.mac =>
            e.age + Did(t) + Work(t) <= Limit

\* One packet is captured per tick, and there is at most one to be captured
\* from the tick before.
BufferLength ==
    \A t \in Running("capture"), u \in Running("send") :
        Len(buffer) + Taken(t) <= 1 + Did(u)
BufferTime ==
    \A t \in Running("capture"), e \in EntrySet, i \in 1 .. Len(buffer) :
        buffer[i].chunk.of.key = e.mac => e.age + i + Taken(t) <= Limit + 1
HandTime ==
    \A e \in EntrySet, x \in InHand : x.of.key = e.mac => e.age <= Limit

\* The age of a stream is that of its last chunk, and it is flushed in time.
StreamTime ==
    \A e \in EntrySet, mac \in DOMAIN peers :
        mac = e.mac /\ peers[mac].stream # <<>> => e.age <= peers[mac].age + Limit
FlushTime ==
    \A t \in Running("flush"), mac \in DOMAIN peers :
        peers[mac].stream # <<>> /\ t \in ran => peers[mac].age <= MaxAge

TimeOK ==
    WaitingTime /\ SendingTime /\ BufferLength /\ BufferTime /\ HandTime
    /\ StreamTime /\ FlushTime

Calm == /\ ThreadsOK /\ TypesOK /\ EntriesOK /\ WaitingOK /\ OrderOK /\ HandOK
        /\ StartOK /\ TimeOK

AInv == disturbed \in BOOLEAN /\ (~disturbed => Calm)

-----------------------------------------------------------------------------
(* Steps of one thread *)

\* The threads of a kind are what they were.
Same(kind) ==
    /\ Running(kind)' = Running(kind)
    /\ \A t \in Running(kind) : pc'[t] = pc[t] /\ (t \in ran' <=> t \in ran)

\* A thread goes on, or ends.
LEMMA GotoThreads ==
    ASSUME ThreadsOK, NEW t \in DOMAIN pc, NEW state, Goto(t, state),
           StateOK(t, state), ran' \in {ran, ran \cup {t}},
           t \in ran' /\ t[1] # "send" => state = Top,
           used'.starts = used.starts, UNCHANGED <<pub_active, disc_active>>
    PROVE  /\ ThreadsOK'
           /\ DOMAIN pc' = DOMAIN pc /\ pc'[t] = state
           /\ \A kind : Running(kind)' = Running(kind)
           /\ \A kind : kind # t[1] => Same(kind)
  <1>1. DOMAIN pc' = DOMAIN pc /\ pc'[t] = state
    BY DEF Goto
  <1>2. \A u \in DOMAIN pc : u # t => pc'[u] = pc[u]
    BY DEF Goto
  <1>3. \A kind : Running(kind)' = Running(kind)
    BY <1>1 DEF Running
  <1>4. ASSUME NEW kind, kind # t[1] PROVE Same(kind)
    <2>1. \A u \in Running(kind) : u \in DOMAIN pc /\ u # t
      BY <1>4 DEF Running
    <2>2. \A u \in Running(kind) : u \in ran' <=> u \in ran
      BY <2>1
    <2> QED
      BY <1>2, <1>3, <2>1, <2>2 DEF Same
  <1>5. \A u \in DOMAIN pc : StateOK(u, pc'[u])
    BY <1>1, <1>2 DEF ThreadsOK
  <1>6. ran' \subseteq DOMAIN pc'
    BY <1>1 DEF ThreadsOK
  <1>7. \A u \in ran' : u[1] # "send" => pc'[u] = Top
    <2> SUFFICES ASSUME NEW u \in ran', u[1] # "send" PROVE pc'[u] = Top
      OBVIOUS
    <2>1. CASE u = t
      BY <1>1, <2>1
    <2>2. CASE u # t
      <3>1. u \in ran /\ u \in DOMAIN pc
        BY <2>2 DEF ThreadsOK
      <3> QED
        BY <1>2, <2>2, <3>1 DEF ThreadsOK
    <2> QED
      BY <2>1, <2>2
  <1> QED
    BY <1>1, <1>3, <1>4, <1>5, <1>6, <1>7 DEF ThreadsOK

\* The publishing or the processing thread ends.
LEMMA EndsThreads ==
    ASSUME ThreadsOK, NEW t \in DOMAIN pc, Ends(t), t[1] \in {"run", "process"},
           used'.starts = used.starts, UNCHANGED <<pub_active, disc_active>>
    PROVE  /\ ThreadsOK'
           /\ Running(t[1])' = {}
           /\ \A kind : kind # t[1] => Same(kind)
  <1>1. DOMAIN pc' = DOMAIN pc \ {t} /\ ran' = ran \ {t}
    BY DEF Ends
  <1>2. \A u \in DOMAIN pc' : pc'[u] = pc[u]
    BY DEF Ends
  <1>3. ASSUME NEW kind, kind # t[1] PROVE Same(kind)
    <2>1. \A u \in Running(kind) : u \in DOMAIN pc /\ u # t
      BY <1>3 DEF Running
    <2>2. Running(kind)' = Running(kind)
      BY <1>1, <1>3 DEF Running
    <2>3. \A u \in Running(kind) : pc'[u] = pc[u]
      BY <1>1, <1>2, <2>1
    <2> QED
      BY <1>1, <2>1, <2>2, <2>3 DEF Same
  <1>4. Running(t[1])' = {}
    BY <1>1 DEF Running, ThreadsOK
  <1>5. \A kind \in {"send", "capture", "flush"} : Running(kind)' = Running(kind)
    BY <1>3 DEF Same
  <1>6. ran' \subseteq DOMAIN pc' /\ \A u \in ran' : u[1] # "send" => pc'[u] = Top
    BY <1>1, <1>2 DEF ThreadsOK
  <1> QED
    BY <1>1, <1>2, <1>3, <1>4, <1>5, <1>6 DEF ThreadsOK

\* What is seen of the threads of a kind.
LEMMA SameRun ==
    ASSUME Same("run")
    PROVE  Held' = Held
  BY DEF Same, Held

\* The sending thread has as much to send as before.
LEMMA SameSend ==
    ASSUME Same("send")
    PROVE  /\ Sending' = Sending
           /\ \A t \in Running("send") : Did(t)' = Did(t) /\ Work(t)' = Work(t)
  <1>1. Sending' = Sending
    BY DEF Same, Sending
  <1>2. \A t \in Running("send") : Did(t)' = Did(t) /\ Work(t)' = Work(t)
    BY DEF Same, Did, Work
  <1> QED
    BY <1>1, <1>2

\* The capturing thread has what it had.
LEMMA SameCapture ==
    ASSUME Same("capture")
    PROVE  /\ packet_queue' = packet_queue => InHand' = InHand
           /\ HandOK /\ packet_queue' = packet_queue => HandOK'
           /\ \A t \in Running("capture") : Taken(t)' = Taken(t)
  <1>1. ASSUME packet_queue' = packet_queue PROVE InHand' = InHand
    BY <1>1 DEF Same, InHand
  <1>2. ASSUME packet_queue' = packet_queue, HandOK PROVE HandOK'
    BY <1>2 DEF Same, HandOK
  <1>3. \A t \in Running("capture") : Taken(t)' = Taken(t)
    BY DEF Same, Taken
  <1> QED
    BY <1>1, <1>2, <1>3

-----------------------------------------------------------------------------
(* Steps that move no chunk *)

\* Streams are emptied, if anything.
Emptied ==
    \A mac \in DOMAIN peers' :
        \/ mac \in DOMAIN peers /\ peers'[mac] = peers[mac]
        \/ peers'[mac].stream = <<>>

\* No chunk joins a stream.
LEMMA EmptiedStreams ==
    ASSUME Emptied
    PROVE  Streamed' \subseteq Streamed
  <1> SUFFICES ASSUME NEW mac \in DOMAIN peers',
                      NEW i \in 1 .. Len(peers'[mac].stream)
               PROVE  peers'[mac].stream[i] \in Streamed
    BY DEF Streamed
  <1>1. CASE mac \in DOMAIN peers /\ peers'[mac] = peers[mac]
    BY <1>1 DEF Streamed
  <1>2. CASE peers'[mac].stream = <<>>
    <2>1. Len(<<>>) = 0
      OBVIOUS
    <2> QED
      BY <1>2, <2>1
  <1> QED
    BY <1>1, <1>2 DEF Emptied

\* The broadcasts that wait are apart from the rest, if nothing is added to it.
LEMMA WaitingKept ==
    ASSUME WaitingOK, packets' = packets,
           \A x \in (Sending \cup Buffered \cup InHand \cup Streamed)' :
               x \in Sending \cup Buffered \cup InHand \cup Streamed
    PROVE  WaitingOK'
  BY DEF WaitingOK, Key

\* The chunks stay in order while none moves.
LEMMA OrderKept ==
    ASSUME OrderOK, Emptied, InHand' \subseteq InHand, Buffered' \subseteq Buffered,
           Sending' \subseteq Sending, UNCHANGED <<buffer, disc_active>>
    PROVE  OrderOK'
  <1>1. Streamed' \subseteq Streamed
    BY EmptiedStreams
  <1>2. /\ Before(Streamed', InHand' \cup Buffered' \cup Sending')
        /\ Before(InHand', Buffered' \cup Sending')
        /\ Before(Buffered', Sending')
    BY <1>1 DEF OrderOK, Before
  <1>3. ASSUME NEW mac \in DOMAIN peers'
        PROVE  /\ \A i \in 1 .. Len(peers'[mac].stream) :
                     peers'[mac].stream[i].of.key = mac
               /\ \A i, j \in 1 .. Len(peers'[mac].stream) :
                     i < j => Follows(peers'[mac].stream[i], peers'[mac].stream[j])
    <2>1. CASE mac \in DOMAIN peers /\ peers'[mac] = peers[mac]
      BY <2>1 DEF OrderOK
    <2>2. CASE peers'[mac].stream = <<>>
      <3>1. Len(<<>>) = 0
        OBVIOUS
      <3> QED
        BY <2>2, <3>1
    <2> QED
      BY <2>1, <2>2 DEF Emptied
  <1> QED
    BY <1>2, <1>3 DEF OrderOK, Before, Follows

\* A broadcast is sent in time, if no entry is added or gets older.
LEMMA SendTimesKept ==
    ASSUME WaitingTime, SendingTime, Same("send"), EntrySet' \subseteq EntrySet,
           packets' = packets
    PROVE  WaitingTime' /\ SendingTime'
  <1>1. /\ Running("send")' = Running("send")
        /\ \A t \in Running("send") :
              pc'[t] = pc[t] /\ Did(t)' = Did(t) /\ Work(t)' = Work(t)
    BY SameSend DEF Same
  <1>2. WaitingTime'
    BY <1>1 DEF WaitingTime, Key
  <1>3. SendingTime'
    BY <1>1 DEF SendingTime, Key
  <1> QED
    BY <1>2, <1>3

\* So is a packet in the socket captured,
LEMMA BufferTimesKept ==
    ASSUME BufferLength, BufferTime, Same("send"), Same("capture"),
           EntrySet' \subseteq EntrySet, buffer' = buffer
    PROVE  BufferLength' /\ BufferTime'
  <1>1. /\ Running("send")' = Running("send")
        /\ \A t \in Running("send") : Did(t)' = Did(t)
        /\ Running("capture")' = Running("capture")
        /\ \A t \in Running("capture") : Taken(t)' = Taken(t)
    BY SameSend, SameCapture DEF Same
  <1> QED
    BY <1>1 DEF BufferLength, BufferTime

\* the age of a stream tells that of its entry,
LEMMA StreamTimeKept ==
    ASSUME StreamTime, Emptied, EntrySet' \subseteq EntrySet
    PROVE  StreamTime'
  BY DEF StreamTime, Emptied

\* and the streams in use are young.
LEMMA FlushTimeKept ==
    ASSUME FlushTime, Emptied, Same("flush")
    PROVE  FlushTime'
  BY DEF FlushTime, Emptied, Same

\* Steps of the publishing, the processing and the flushing threads, unless they
\* make a broadcast.
LEMMA QuietStep ==
    ASSUME Calm, ThreadsOK', TypesOK', EntriesOK', FlushTime', Emptied,
           EntrySet' \subseteq EntrySet, Same("send"), Same("capture"),
           UNCHANGED <<pub_active, disc_active, packets, buffer, packet_queue>>
    PROVE  Calm'
  <1>1. Streamed' \subseteq Streamed
    BY EmptiedStreams
  <1>2. InHand' = InHand /\ HandOK'
    BY SameCapture DEF Calm
  <1>3. Sending' = Sending
    BY SameSend
  <1>4. Buffered' = Buffered
    BY DEF Buffered
  <1>5. WaitingOK'
    <2>1. \A x \in (Sending \cup Buffered \cup InHand \cup Streamed)' :
              x \in Sending \cup Buffered \cup InHand \cup Streamed
      BY <1>1, <1>2, <1>3, <1>4
    <2> QED
      BY <2>1, WaitingKept DEF Calm
  <1>6. OrderOK'
    BY <1>2, <1>3, <1>4, OrderKept DEF Calm
  <1>7. StartOK'
    BY <1>1, <1>2 DEF Calm, StartOK
  <1>8. WaitingTime' /\ SendingTime'
    BY SendTimesKept DEF Calm, TimeOK
  <1>9. BufferLength' /\ BufferTime'
    BY BufferTimesKept DEF Calm, TimeOK
  <1>10. HandTime'
    BY <1>2 DEF Calm, TimeOK, HandTime
  <1>11. StreamTime'
    BY StreamTimeKept DEF Calm, TimeOK
  <1> QED
    BY <1>2, <1>5, <1>6, <1>7, <1>8, <1>9, <1>10, <1>11 DEF Calm, TimeOK

\* A failing call or a lost packet.
LEMMA SpendFault ==
    ASSUME TypesOK, Spend("faults") \/ UNCHANGED used
    PROVE  /\ used' \in [{"casts", "starts", "faults"} -> Nat]
           /\ used'.starts = used.starts
  BY DEF TypesOK, Spend

\* Which thread is where.
LEMMA KindOf ==
    ASSUME ThreadsOK, NEW t \in DOMAIN pc
    PROVE  /\ pc[t].at \in {"take", "entry"} => t[1] = "run"
           /\ pc[t].at = "sending" => t[1] = "send"
           /\ pc[t].at \in {"get", "update"} => t[1] = "capture"
           /\ pc[t].at \in {"erase", "deliver"} => t[1] = "process"
           /\ pc[t].at = "entry" => pc[t].entry \in Entry
           /\ pc[t].at = "sending" => pc[t].rest \in Parts
           /\ pc[t].at = "update" => pc[t].packet \in Packet
           /\ pc[t].at = "erase" => pc[t].erase_list \subseteq Interface
  <1>1. StateOK(t, pc[t]) /\ t[1] \in Kinds
    BY DEF ThreadsOK
  <1>2. t[1] = "run" => pc[t] \in RunStates
    BY <1>1 DEF StateOK
  <1>3. t[1] = "send" => pc[t] \in SendStates
    BY <1>1 DEF StateOK
  <1>4. t[1] = "capture" => pc[t] \in CaptureStates
    BY <1>1 DEF StateOK
  <1>5. t[1] = "process" => pc[t] \in ProcessStates
    BY <1>1 DEF StateOK
  <1>6. t[1] = "flush" => pc[t].at = "top"
    BY <1>1 DEF StateOK, Top
  <1>7. t[1] = "run" => /\ pc[t].at \in {"top", "take", "entry"}
                        /\ pc[t].at = "entry" => pc[t].entry \in Entry
    BY <1>2 DEF RunStates, Top
  <1>8. t[1] = "send" => /\ pc[t].at \in {"top", "sending"}
                         /\ pc[t].at = "sending" => pc[t].rest \in Parts
    BY <1>3 DEF SendStates, Top
  <1>9. t[1] = "capture" => /\ pc[t].at \in {"top", "get", "update"}
                            /\ pc[t].at = "update" => pc[t].packet \in Packet
    BY <1>4 DEF CaptureStates, Top
  <1>10. t[1] = "process" =>
            /\ pc[t].at \in {"top", "erase", "deliver"}
            /\ pc[t].at = "erase" => pc[t].erase_list \subseteq Interface
    BY <1>5 DEF ProcessStates, Top
  <1> QED
    BY <1>1, <1>6, <1>7, <1>8, <1>9, <1>10 DEF Kinds

\* The entry that the one publishing thread has taken from the queue, if any.
LEMMA HeldBy ==
    ASSUME ThreadsOK, NEW t \in DOMAIN pc, t[1] = "run"
    PROVE  Held = IF pc[t].at = "entry" THEN {pc[t].entry} ELSE {}
  <1>1. Running("run") = {t}
    BY DEF Running, ThreadsOK
  <1> QED
    BY <1>1 DEF Held

-----------------------------------------------------------------------------
(* The publishing thread *)

\* The publishing thread fetches the descriptors, or ends.
LEMMA RunTopStep ==
    ASSUME Calm, NEW t \in DOMAIN pc, RunTop(t)
    PROVE  Calm'
  <1>1. t[1] = "run" /\ pub_active /\ pc[t].at = "top"
    BY DEF RunTop, AtTop, At, Calm, ThreadsOK
  <1>2. /\ UNCHANGED <<pub_active, disc_active, packets, buffer, packet_queue,
                       publish_entries, control, closed, answer, peers>>
        /\ Spend("faults") \/ UNCHANGED used
    BY <1>1 DEF RunTop, pvars, dvars
  <1>3. used' \in [{"casts", "starts", "faults"} -> Nat] /\ used'.starts = used.starts
    BY <1>2, SpendFault DEF Calm
  <1>4. /\ ThreadsOK' /\ Same("send") /\ Same("capture") /\ Same("flush")
        /\ Held' = {}
    <2>1. CASE Ends(t)
      <3>1. /\ ThreadsOK' /\ Running("run")' = {}
            /\ \A kind : kind # "run" => Same(kind)
        BY <1>1, <1>2, <1>3, <2>1, EndsThreads DEF Calm
      <3> QED
        BY <3>1 DEF Held
    <2>2. CASE Goto(t, [at |-> "take"]) /\ ran' = ran
      <3>1. StateOK(t, [at |-> "take"]) /\ t \notin ran
        BY <1>1 DEF StateOK, RunStates, RunTop, AtTop
      <3>2. /\ ThreadsOK' /\ DOMAIN pc' = DOMAIN pc
            /\ pc'[t] = [at |-> "take"]
            /\ \A kind : kind # "run" => Same(kind)
        BY <1>1, <1>2, <1>3, <2>2, <3>1, GotoThreads DEF Calm
      <3>3. Running("run")' = {t}
        BY <1>1, <3>2 DEF Running, ThreadsOK
      <3> QED
        BY <3>2, <3>3 DEF Held
    <2> QED
      BY <1>1, <2>1, <2>2 DEF RunTop
  <1>5. TypesOK'
    BY <1>2, <1>3 DEF Calm, TypesOK
  <1>6. EntrySet' \subseteq EntrySet /\ EntriesOK'
    BY <1>2, <1>4 DEF Calm, EntrySet, EntriesOK
  <1>7. Emptied
    BY <1>2 DEF Emptied
  <1>8. FlushTime'
    BY <1>4, <1>7, FlushTimeKept DEF Calm, TimeOK
  <1> QED
    BY <1>2, <1>4, <1>5, <1>6, <1>7, <1>8, QuietStep

\* The first of the entries leaves the queue.
LEMMA TakeEntryStep ==
    ASSUME Calm, NEW t \in DOMAIN pc, TakeEntry(t)
    PROVE  Calm'
  <1>1. t[1] = "run" /\ pc[t].at = "take"
    BY KindOf DEF TakeEntry, At, Calm
  <1>2. UNCHANGED <<pub_active, disc_active, packets, buffer, packet_queue,
                    control, closed, answer, peers, used>>
    BY DEF TakeEntry, dvars
  <1>3. publish_entries \in Seq(Entry)
    BY DEF Calm, TypesOK
  <1>4. Held = {}
    BY <1>1, HeldBy DEF Calm
  <1>5. /\ ThreadsOK' /\ Same("send") /\ Same("capture") /\ Same("flush")
        /\ publish_entries' \in Seq(Entry)
        /\ EntrySet' \subseteq EntrySet /\ EntriesOK'
    <2>1. CASE publish_entries = <<>> /\ Iterated(t) /\ publish_entries' = publish_entries
      <3>1. StateOK(t, Top)
        BY <1>1 DEF StateOK, RunStates
      <3>2. /\ ThreadsOK' /\ DOMAIN pc' = DOMAIN pc /\ pc'[t] = Top
            /\ \A kind : kind # "run" => Same(kind)
        BY <1>1, <1>2, <2>1, <3>1, GotoThreads DEF Calm, Iterated
      <3>3. Held' = {}
        <4>1. Running("run")' = {t} /\ pc'[t].at = "top"
          BY <1>1, <3>2 DEF Running, ThreadsOK, Top
        <4> QED
          BY <4>1 DEF Held
      <3> QED
        BY <1>3, <2>1, <3>2, <3>3 DEF EntrySet, EntriesOK, Calm
    <2>2. CASE /\ publish_entries # <<>>
               /\ Goto(t, [at |-> "entry", entry |-> Head(publish_entries)])
               /\ publish_entries' = Tail(publish_entries)
               /\ ran' = ran
      <3> DEFINE e == Head(publish_entries)
                 st == [at |-> "entry", entry |-> e]
      <3>1. /\ e \in Entry /\ e = publish_entries[1]
            /\ Tail(publish_entries) \in Seq(Entry)
            /\ Len(Tail(publish_entries)) = Len(publish_entries) - 1
            /\ Len(publish_entries) \in Nat \ {0}
            /\ \A i \in 1 .. Len(publish_entries) - 1 :
                  Tail(publish_entries)[i] = publish_entries[i + 1]
        BY <1>3, <2>2
      <3>2. StateOK(t, st)
        BY <1>1, <3>1 DEF StateOK, RunStates
      <3>3. t \notin ran
        BY <1>1 DEF Calm, ThreadsOK, Top
      <3>4. /\ ThreadsOK' /\ DOMAIN pc' = DOMAIN pc /\ pc'[t] = st
            /\ \A kind : kind # "run" => Same(kind)
        BY <1>1, <1>2, <2>2, <3>2, <3>3, GotoThreads DEF Calm
      <3>5. Held' = {e}
        <4>1. Running("run")' = {t} /\ pc'[t].at = "entry" /\ pc'[t].entry = e
          BY <1>1, <3>4 DEF Running, ThreadsOK
        <4> QED
          BY <4>1 DEF Held
      <3> HIDE DEF e
      <3>6. \A i \in 1 .. Len(publish_entries') :
               /\ i + 1 \in 1 .. Len(publish_entries) /\ i + 1 # 1
               /\ publish_entries'[i] = publish_entries[i + 1]
        BY <2>2, <3>1
      <3>7. EntrySet' \subseteq EntrySet
        BY <3>1, <3>5, <3>6 DEF EntrySet, Elems
      <3>8. EntriesOK'
        <4>1. \A i, j \in 1 .. Len(publish_entries') :
                 publish_entries'[i].mac = publish_entries'[j].mac => i = j
          <5> SUFFICES ASSUME NEW i \in 1 .. Len(publish_entries'),
                              NEW j \in 1 .. Len(publish_entries'),
                              publish_entries'[i].mac = publish_entries'[j].mac
                       PROVE  i = j
            OBVIOUS
          <5>1. i + 1 = j + 1
            BY <3>6 DEF Calm, EntriesOK
          <5> QED
            BY <5>1
        <4>2. \A i \in 1 .. Len(publish_entries') : e.mac # publish_entries'[i].mac
          <5>1. 1 \in 1 .. Len(publish_entries)
            BY <3>1
          <5> QED
            BY <3>1, <3>6, <5>1 DEF Calm, EntriesOK
        <4> QED
          BY <3>5, <4>1, <4>2 DEF EntriesOK
      <3> QED
        BY <2>2, <3>1, <3>4, <3>7, <3>8
    <2> QED
      BY <2>1, <2>2 DEF TakeEntry
  <1>6. TypesOK'
    BY <1>2, <1>5 DEF Calm, TypesOK
  <1>7. Emptied
    BY <1>2 DEF Emptied
  <1>8. FlushTime'
    BY <1>5, <1>7, FlushTimeKept DEF Calm, TimeOK
  <1> QED
    BY <1>2, <1>5, <1>6, <1>7, <1>8, QuietStep

\* An entry goes back into the queue.
LEMMA EntryGoesBack ==
    ASSUME publish_entries \in Seq(Entry), EntriesOK, NEW e, Held = {e}, Held' = {},
           NEW back \in Entry, back.mac = e.mac,
           publish_entries' = Append(publish_entries, back)
    PROVE  /\ publish_entries' \in Seq(Entry) /\ EntriesOK'
           /\ EntrySet' = Elems(publish_entries) \cup {back}
           /\ \A i \in 1 .. Len(publish_entries) : publish_entries[i].mac # back.mac
  <1>1. /\ publish_entries' \in Seq(Entry) /\ Len(publish_entries) \in Nat
        /\ Len(publish_entries') = Len(publish_entries) + 1
        /\ publish_entries'[Len(publish_entries) + 1] = back
        /\ \A i \in 1 .. Len(publish_entries) : publish_entries'[i] = publish_entries[i]
    OBVIOUS
  <1>2. \A i \in 1 .. Len(publish_entries) : publish_entries[i].mac # back.mac
    BY DEF EntriesOK
  <1>3. \A i \in 1 .. Len(publish_entries') :
           i \in 1 .. Len(publish_entries) \/ i = Len(publish_entries) + 1
    BY <1>1
  <1>4. EntriesOK'
    BY <1>1, <1>2, <1>3 DEF EntriesOK
  <1>5. Elems(publish_entries') = Elems(publish_entries) \cup {back}
    BY <1>1, <1>3 DEF Elems
  <1> QED
    BY <1>1, <1>2, <1>4, <1>5 DEF EntrySet

\* The thread that holds an entry goes to the top of its loop.
LEMMA HolderIterates ==
    ASSUME Calm, NEW t \in DOMAIN pc, At(t, "entry"), Iterated(t),
           used'.starts = used.starts, UNCHANGED <<pub_active, disc_active>>
    PROVE  /\ ThreadsOK' /\ Same("send") /\ Same("capture") /\ Same("flush")
           /\ pub_active /\ pc[t].entry \in Entry
           /\ Held = {pc[t].entry} /\ Held' = {}
  <1>1. /\ t[1] = "run" /\ pc[t].at = "entry" /\ pc[t].entry \in Entry
        /\ pub_active
    BY KindOf DEF At, Calm, ThreadsOK
  <1>2. StateOK(t, Top)
    BY <1>1 DEF StateOK, RunStates
  <1>3. /\ ThreadsOK' /\ DOMAIN pc' = DOMAIN pc /\ pc'[t] = Top
        /\ \A kind : kind # "run" => Same(kind)
    BY <1>1, <1>2, GotoThreads DEF Calm, Iterated
  <1>4. Held = {pc[t].entry}
    BY <1>1, HeldBy DEF Calm
  <1>5. Running("run")' = {t} /\ pc'[t].at = "top"
    BY <1>1, <1>3 DEF Running, ThreadsOK, Top
  <1> QED
    BY <1>1, <1>3, <1>4, <1>5 DEF Held

\* An entry that is not due goes back into the queue.
LEMMA PutBackStep ==
    ASSUME Calm, NEW t \in DOMAIN pc, PutBack(t)
    PROVE  Calm'
  <1>1. UNCHANGED <<pub_active, disc_active, packets, buffer, packet_queue,
                    control, closed, answer, peers, used>>
    BY DEF PutBack, dvars
  <1>2. /\ ThreadsOK' /\ Same("send") /\ Same("capture") /\ Same("flush")
        /\ pc[t].entry \in Entry
        /\ Held = {pc[t].entry} /\ Held' = {}
    BY <1>1, HolderIterates DEF PutBack
  <1>3. PICK e : e = pc[t].entry
    OBVIOUS
  <1>4. publish_entries' = Append(publish_entries, e)
    BY <1>3 DEF PutBack
  <1>5. /\ publish_entries' \in Seq(Entry) /\ EntriesOK'
        /\ EntrySet' = Elems(publish_entries) \cup {e}
    BY <1>2, <1>3, <1>4, EntryGoesBack DEF Calm, TypesOK
  <1>6. EntrySet' \subseteq EntrySet
    BY <1>2, <1>3, <1>5 DEF EntrySet
  <1>7. TypesOK'
    BY <1>1, <1>5 DEF Calm, TypesOK
  <1>8. Emptied
    BY <1>1 DEF Emptied
  <1>9. FlushTime'
    BY <1>2, <1>8, FlushTimeKept DEF Calm, TimeOK
  <1> QED
    BY <1>1, <1>2, <1>5, <1>6, <1>7, <1>8, <1>9, QuietStep

-----------------------------------------------------------------------------
(* A broadcast *)

\* Facts on products of numbers.
LEMMA Products ==
    ASSUME NEW a \in Nat, NEW b \in Nat, NEW c \in Nat
    PROVE  /\ a * c \in Nat
           /\ a <= b => a * c <= b * c
           /\ (a + 1) * c = a * c + c
  <1>1. a * c \in Nat /\ (a + 1) * c = a * c + c
    OBVIOUS
  <1>2. ASSUME a <= b PROVE a * c <= b * c
    <2>1. PICK d \in Nat : b = a + d
      <3>1. b - a \in Nat /\ b = a + (b - a)
        BY <1>2
      <3> QED
        BY <3>1
    <2>2. b * c = a * c + d * c
      BY <2>1
    <2>3. a * c \in Nat /\ d * c \in Nat
      OBVIOUS
    <2> QED
      BY <2>2, <2>3
  <1> QED
    BY <1>1, <1>2

\* The bounds are numbers.
LEMMA LimitType ==
    ASSUME Timing
    PROVE  /\ Cardinality(Interface) \in Nat /\ Chunks \in Nat \ {0}
           /\ Limit \in Nat /\ Limit = Cardinality(Interface) * Chunks + 1
           /\ MaxAge \in Nat /\ Interval \in Nat
           /\ Limit + MaxAge + 1 <= Interval
  <1>1. Cardinality(Interface) \in Nat
    BY FS_CardinalityType DEF Timing
  <1>2. Chunks \in Nat \ {0} /\ MaxAge \in Nat /\ Interval \in Nat
    BY AltTypes
  <1>3. Limit \in Nat
    BY <1>1, <1>2, Products DEF Limit
  <1> QED
    BY <1>1, <1>2, <1>3 DEF Timing, Limit

\* As many broadcasts as there are interfaces wait at most.
LEMMA DistinctKeys ==
    ASSUME Timing, NEW n \in Nat, NEW f \in [1 .. n -> Interface],
           \A i, j \in 1 .. n : f[i] = f[j] => i = j
    PROVE  n * Chunks <= Cardinality(Interface) * Chunks
  <1>1. f \in Injection(1 .. n, Interface)
    BY DEF Injection, IsInjective
  <1>2. Cardinality(1 .. n) <= Cardinality(Interface)
    BY <1>1, FS_Injection DEF Timing
  <1>3. Cardinality(1 .. n) = n
    BY FS_Interval
  <1> QED
    BY <1>2, <1>3, LimitType, Products

\* No part is longer than a message.
LEMMA PartLength ==
    ASSUME NEW ps \in Parts
    PROVE  /\ Len(ps) \in 1 .. Chunks
           /\ \A i \in 1 .. Len(ps) : /\ ps[i] \in Packet
                                      /\ ps[i].chunk \in Chunk
                                      /\ ps[i].chunk.of.key = Key(ps)
           /\ Key(ps) \in Interface
  <1>1. ps \in Seq(Packet) /\ Len(ps) \in Nat \ {0}
    BY DEF Parts
  <1>2. \A i \in 1 .. Len(ps) : ps[i] \in Packet /\ ps[i].chunk \in Chunk
    BY <1>1 DEF Packet
  <1>3. \A i \in 1 .. Len(ps) : ps[i].chunk.i \in 1 .. Chunks
    BY <1>2 DEF Chunk
  <1>4. ps[Len(ps)].chunk.i = ps[1].chunk.i + Len(ps) - 1
    BY <1>1 DEF Parts, Consecutive
  <1>5. 1 \in 1 .. Len(ps) /\ Len(ps) \in 1 .. Len(ps)
    BY <1>1
  <1>6. Len(ps) <= Chunks
    BY <1>1, <1>3, <1>4, <1>5, AltTypes
  <1>7. \A i \in 1 .. Len(ps) : ps[i].chunk.of.key = Key(ps)
    BY DEF Parts, Consecutive, Key
  <1>8. Key(ps) \in Interface
    BY <1>2, <1>5 DEF Key, Chunk, Message
  <1> QED
    BY <1>1, <1>2, <1>6, <1>7, <1>8

\* The one thread of a kind.
LEMMA TheThread ==
    ASSUME ThreadsOK
    PROVE  /\ pub_active => \E t \in DOMAIN pc : Running("send") = {t} /\ t[1] = "send"
           /\ disc_active => \E t \in DOMAIN pc :
                                Running("capture") = {t} /\ t[1] = "capture"
           /\ disc_active => \E t \in DOMAIN pc : Running("flush") = {t} /\ t[1] = "flush"
           /\ \A t \in DOMAIN pc : Running(t[1]) = {t}
  BY DEF ThreadsOK, Running

\* What is being sent is what the one sending thread has left to send.
LEMMA SendingBy ==
    ASSUME ThreadsOK, NEW t \in Running("send")
    PROVE  /\ pc[t].at = "sending" =>
                 Sending = {pc[t].rest[i].chunk : i \in 1 .. Len(pc[t].rest)}
           /\ pc[t].at # "sending" => Sending = {}
  <1>1. Running("send") = {t}
    BY DEF Running, ThreadsOK
  <1> QED
    BY <1>1 DEF Sending

\* When an entry is due, nothing of its last broadcast is left.
LEMMA DueIsQuiet ==
    ASSUME Timing, Calm, pub_active, NEW e \in EntrySet, e \in Entry, e.age > Interval
    PROVE  /\ \A q \in 1 .. Len(packets) : Key(packets[q]) # e.mac
           /\ \A x \in Sending \cup Buffered \cup InHand \cup Streamed :
                 x.of.key # e.mac
  <1>1. /\ Limit \in Nat /\ MaxAge \in Nat /\ Interval \in Nat /\ Chunks \in Nat
        /\ Limit + MaxAge + 1 <= Interval
    BY LimitType
  <1>2. e.age \in Nat
    BY <1>1 DEF Entry
  <1>3. PICK t \in DOMAIN pc : Running("send") = {t} /\ t[1] = "send"
    BY TheThread DEF Calm
  <1>4. ASSUME pc[t].at = "sending" PROVE pc[t].rest \in Parts
    BY <1>4, KindOf DEF Calm
  <1>5. Did(t) \in Nat /\ Work(t) \in Nat
    BY <1>4 DEF Did, Work, Parts
  <1>6. ASSUME NEW q \in 1 .. Len(packets) PROVE Key(packets[q]) # e.mac
    <2> SUFFICES ASSUME Key(packets[q]) = e.mac PROVE FALSE
      OBVIOUS
    <2>1. e.age + Did(t) + Work(t) + q * Chunks <= Limit
      BY <1>3 DEF Calm, TimeOK, WaitingTime
    <2>2. q \in Nat
      OBVIOUS
    <2>3. PICK k \in Nat : k = q * Chunks
      BY <1>1, <2>2, Products
    <2>4. PICK l \in Nat : l = Limit
      BY <1>1
    <2>5. e.age + Did(t) + Work(t) + k <= l
      BY <2>1, <2>3, <2>4
    <2> QED
      BY <1>1, <1>2, <1>5, <2>4, <2>5
  <1>7. ASSUME NEW x \in Sending PROVE x.of.key # e.mac
    <2> SUFFICES ASSUME x.of.key = e.mac PROVE FALSE
      OBVIOUS
    <2>1. pc[t].at = "sending" /\ x \in {pc[t].rest[i].chunk : i \in 1 .. Len(pc[t].rest)}
      BY <1>3, SendingBy DEF Calm
    <2>2. Key(pc[t].rest) = e.mac
      BY <1>4, <2>1, PartLength
    <2>3. e.age + Did(t) + Work(t) <= Limit
      BY <1>3, <2>1, <2>2 DEF Calm, TimeOK, SendingTime
    <2> QED
      BY <1>1, <1>2, <1>5, <2>3
  <1>8. ASSUME NEW x \in Buffered PROVE x.of.key # e.mac
    <2> SUFFICES ASSUME x.of.key = e.mac PROVE FALSE
      OBVIOUS
    <2>1. PICK i \in 1 .. Len(buffer) : disc_active /\ x = buffer[i].chunk
      BY DEF Buffered
    <2>2. PICK c \in DOMAIN pc : Running("capture") = {c} /\ c[1] = "capture"
      BY <2>1, TheThread DEF Calm
    <2>3. e.age + i + Taken(c) <= Limit + 1
      BY <2>1, <2>2 DEF Calm, TimeOK, BufferTime
    <2>4. Taken(c) \in Nat /\ i \in Nat \ {0}
      BY DEF Taken
    <2> QED
      BY <1>1, <1>2, <2>3, <2>4
  <1>9. ASSUME NEW x \in InHand PROVE x.of.key # e.mac
    <2> SUFFICES ASSUME x.of.key = e.mac PROVE FALSE
      OBVIOUS
    <2>1. e.age <= Limit
      BY DEF Calm, TimeOK, HandTime
    <2> QED
      BY <1>1, <1>2, <2>1
  <1>10. ASSUME NEW x \in Streamed PROVE x.of.key # e.mac
    <2> SUFFICES ASSUME x.of.key = e.mac PROVE FALSE
      OBVIOUS
    <2>1. PICK mac \in DOMAIN peers : \E i \in 1 .. Len(peers[mac].stream) :
                                         x = peers[mac].stream[i]
      BY DEF Streamed
    <2>2. mac = e.mac
      BY <2>1 DEF Calm, OrderOK
    <2>3. peers[mac].stream # <<>>
      <3>1. Len(<<>>) = 0
        OBVIOUS
      <3> QED
        BY <2>1, <3>1
    <2>4. e.age <= peers[mac].age + Limit
      BY <2>2, <2>3 DEF Calm, TimeOK, StreamTime
    <2>5. peers[mac].age \in 0 .. MaxAge + 1
      BY DEF Calm, TypesOK
    <2> QED
      BY <1>1, <1>2, <2>4, <2>5
  <1> QED
    BY <1>6, <1>7, <1>8, <1>9, <1>10

\* The broadcasts before one that is added are those of other interfaces.
LEMMA LastInQueue ==
    ASSUME Timing, Calm, NEW t \in Running("send"), NEW mac \in Interface,
           \A q \in 1 .. Len(packets) : Key(packets[q]) # mac,
           \A x \in Sending : x.of.key # mac
    PROVE  Did(t) + Work(t) + (Len(packets) + 1) * Chunks <= Limit
  <1>1. /\ Chunks \in Nat \ {0} /\ Cardinality(Interface) \in Nat
        /\ Limit = Cardinality(Interface) * Chunks + 1
    BY LimitType
  <1>2. packets \in Seq(Casts) /\ Len(packets) \in Nat
    BY DEF Calm, TypesOK
  <1>3. \A q \in 1 .. Len(packets) : packets[q] \in Parts /\ Key(packets[q]) \in Interface
    BY <1>2, PartLength DEF Casts
  <1>4. PICK L : L = Len(packets)
    OBVIOUS
  <1>5. PICK C : C = Cardinality(Interface) * Chunks
    OBVIOUS
  <1>6. C \in Nat /\ Limit = C + 1
    BY <1>1, <1>5, Products
  <1>7. Did(t) \in {0, 1}
    BY DEF Did
  <1>8. CASE pc[t].at = "sending"
    <2>1. pc[t].rest \in Parts /\ t \in DOMAIN pc
      BY <1>8, KindOf DEF Calm, Running
    <2>2. /\ Len(pc[t].rest) \in 1 .. Chunks
          /\ Key(pc[t].rest) \in Interface
      BY <2>1, PartLength
    <2>3. pc[t].rest[1].chunk \in Sending
      <3>1. 1 \in 1 .. Len(pc[t].rest)
        BY <2>2
      <3> QED
        BY <1>8, <3>1, SendingBy DEF Calm
    <2>4. /\ Key(pc[t].rest) # mac
          /\ \A q \in 1 .. L : Key(packets[q]) # Key(pc[t].rest)
      BY <1>4, <2>3 DEF Calm, WaitingOK, Key
    <2> DEFINE f == [i \in 1 .. L + 2 |-> IF i <= L THEN Key(packets[i])
                                         ELSE IF i = L + 1 THEN mac
                                         ELSE Key(pc[t].rest)]
    <2>5. f \in [1 .. L + 2 -> Interface]
      BY <1>2, <1>3, <1>4, <2>2
    <2>6. ASSUME NEW i \in 1 .. L + 2, NEW j \in 1 .. L + 2, f[i] = f[j] PROVE i = j
      <3>1. ASSUME i <= L, j <= L PROVE i = j
        <4>1. i \in 1 .. L /\ j \in 1 .. L
          BY <1>2, <1>4, <3>1
        <4>2. Key(packets[i]) = Key(packets[j])
          BY <2>6, <3>1
        <4> QED
          BY <1>4, <4>1, <4>2 DEF Calm, WaitingOK
      <3>2. \A k \in 1 .. L + 2 : k <= L => f[k] # mac /\ f[k] # Key(pc[t].rest)
        BY <1>2, <1>4, <2>4
      <3>3. \A k \in 1 .. L + 2 : k <= L \/ k = L + 1 \/ k = L + 2
        BY <1>2, <1>4
      <3>4. f[L + 1] = mac /\ f[L + 2] = Key(pc[t].rest)
        BY <1>2, <1>4
      <3> HIDE DEF f
      <3> QED
        BY <2>4, <2>6, <3>1, <3>2, <3>3, <3>4
    <2> HIDE DEF f
    <2>7. (L + 2) * Chunks <= C
      <3>1. L + 2 \in Nat
        BY <1>2, <1>4
      <3> QED
        BY <1>5, <2>5, <2>6, <3>1, DistinctKeys
    <2>8. /\ (L + 2) * Chunks = (L + 1) * Chunks + Chunks
          /\ (L + 1) * Chunks \in Nat
      <3>1. L + 1 \in Nat /\ (L + 1) + 1 = L + 2
        BY <1>2, <1>4
      <3> QED
        BY <1>1, <3>1, Products
    <2>9. Work(t) = Len(pc[t].rest)
      BY <1>8 DEF Work
    <2>10. (Len(packets) + 1) * Chunks = (L + 1) * Chunks
      BY <1>4
    <2>11. PICK x, y : x = (L + 1) * Chunks /\ y = (L + 2) * Chunks
      OBVIOUS
    <2>12. x \in Nat /\ y = x + Chunks /\ y <= C
      BY <2>7, <2>8, <2>11
    <2>13. Work(t) \in Nat /\ Work(t) <= Chunks
      BY <1>1, <2>2, <2>9
    <2>14. Did(t) + Work(t) + x <= C + 1
      BY <1>1, <1>6, <1>7, <2>12, <2>13
    <2> QED
      BY <1>6, <2>10, <2>11, <2>14
  <1>9. CASE pc[t].at # "sending"
    <2> DEFINE f == [i \in 1 .. L + 1 |-> IF i <= L THEN Key(packets[i]) ELSE mac]
    <2>1. f \in [1 .. L + 1 -> Interface]
      BY <1>2, <1>3, <1>4
    <2>2. ASSUME NEW i \in 1 .. L + 1, NEW j \in 1 .. L + 1, f[i] = f[j] PROVE i = j
      <3>1. ASSUME i <= L, j <= L PROVE i = j
        <4>1. i \in 1 .. L /\ j \in 1 .. L
          BY <1>2, <1>4, <3>1
        <4>2. Key(packets[i]) = Key(packets[j])
          BY <2>2, <3>1
        <4> QED
          BY <1>4, <4>1, <4>2 DEF Calm, WaitingOK
      <3>2. \A k \in 1 .. L + 1 : k <= L => f[k] # mac
        BY <1>2, <1>4
      <3>3. \A k \in 1 .. L + 1 : k <= L \/ k = L + 1
        BY <1>2, <1>4
      <3>4. f[L + 1] = mac
        BY <1>2, <1>4
      <3> HIDE DEF f
      <3> QED
        BY <2>2, <3>1, <3>2, <3>3, <3>4
    <2> HIDE DEF f
    <2>3. (L + 1) * Chunks <= C /\ (L + 1) * Chunks \in Nat
      <3>1. L + 1 \in Nat
        BY <1>2, <1>4
      <3> QED
        BY <1>1, <1>5, <2>1, <2>2, <3>1, DistinctKeys, Products
    <2>4. Work(t) = 0
      BY <1>9 DEF Work
    <2>5. (Len(packets) + 1) * Chunks <= C /\ (Len(packets) + 1) * Chunks \in Nat
      BY <1>4, <2>3
    <2> QED
      BY <1>6, <1>7, <2>4, <2>5
  <1> QED
    BY <1>8, <1>9

\* get_packets makes one broadcast, from its first chunk to the last.
LEMMA CastType ==
    ASSUME Calm, NEW e \in Entry, Loads(e.ip), NEW zero \in 0 .. Chunks + 1
    PROVE  LET cast == GetPackets(e, CompressAndEncrypt(e, zero))
           IN  cast \in Casts /\ Key(cast) = e.mac
  <1> DEFINE message == CompressAndEncrypt(e, zero)
             cast == GetPackets(e, message)
  <1>1. answer[e.ip] \in Fields
    BY DEF Loads, Calm, TypesOK, Fields
  <1>2. message \in Message /\ message.key = e.mac
    BY <1>1 DEF CompressAndEncrypt, Message, Entry, Socket
  <1> HIDE DEF message
  <1>3. Chunks \in Nat \ {0}
    BY AltTypes
  <1>4. ASSUME NEW i \in 1 .. Chunks
        PROVE  [socket |-> e.sock, header |-> Header(e),
                chunk |-> [i |-> i, of |-> message]] \in Packet
    BY <1>2 DEF Packet, Chunk, Header, Entry
  <1>5. cast = [i \in 1 .. Chunks |-> [socket |-> e.sock, header |-> Header(e),
                                       chunk |-> [i |-> i, of |-> message]]]
    BY DEF GetPackets
  <1>6. cast \in [1 .. Chunks -> Packet]
    BY <1>4, <1>5
  <1>7. /\ cast \in Seq(Packet) /\ Len(cast) = Chunks /\ cast # <<>>
        /\ \A i \in 1 .. Chunks : cast[i].chunk = [i |-> i, of |-> message]
        /\ 1 \in 1 .. Chunks
    BY <1>3, <1>5, <1>6
  <1> HIDE DEF cast
  <1>8. /\ \A i \in 1 .. Len(cast) : cast[i].chunk.of = message /\ cast[i].chunk.i = i
        /\ cast[1].chunk.of = message /\ cast[1].chunk.i = 1
    <2>1. ASSUME NEW i \in 1 .. Chunks
          PROVE  cast[i].chunk.of = message /\ cast[i].chunk.i = i
      <3>1. PICK c : c = cast[i].chunk
        OBVIOUS
      <3>2. c = [i |-> i, of |-> message]
        BY <1>7, <3>1
      <3>3. c.of = message /\ c.i = i
        BY <3>2
      <3> QED
        BY <3>1, <3>3
    <2> QED
      BY <1>7, <2>1
  <1>9. Consecutive(cast)
    <2> SUFFICES ASSUME NEW i \in 1 .. Len(cast)
                 PROVE  /\ cast[i].chunk.of = cast[1].chunk.of
                        /\ cast[i].chunk.i = cast[1].chunk.i + i - 1
      BY DEF Consecutive
    <2>1. i \in Int /\ 1 + i - 1 = i
      OBVIOUS
    <2> QED
      BY <1>8, <2>1
  <1>10. cast \in Casts /\ Key(cast) = e.mac
    <2>1. cast \in Parts
      BY <1>7, <1>9 DEF Parts
    <2> QED
      BY <1>2, <1>7, <1>8, <2>1 DEF Casts, Key
  <1> QED
    BY <1>10 DEF cast, message

\* An entry that is due becomes a broadcast: nothing of its last one is left.
LEMMA BroadcastStep ==
    ASSUME Timing, Calm, NEW t \in DOMAIN pc, Broadcast(t)
    PROVE  Calm'
  <1>1. UNCHANGED <<pub_active, disc_active, buffer, packet_queue, control, closed,
                    answer, peers>>
    BY DEF Broadcast, dvars
  <1>2. /\ t[1] = "run" /\ pc[t].at = "entry" /\ pc[t].entry \in Entry
        /\ pub_active
    BY KindOf DEF Broadcast, At, Calm, ThreadsOK
  <1>3. PICK e : e = pc[t].entry
    OBVIOUS
  <1>4. e \in Entry /\ Held = {e} /\ e \in EntrySet /\ e.age > Interval
    BY <1>2, <1>3, HeldBy DEF EntrySet, Calm, Broadcast, Due
  <1>5. Emptied
    BY <1>1 DEF Emptied
  <1>6. CASE Ends(t) /\ UNCHANGED <<publish_entries, packets, used>>
    <2>1. /\ ThreadsOK' /\ Running("run")' = {}
          /\ \A kind : kind # "run" => Same(kind)
      BY <1>1, <1>2, <1>6, EndsThreads DEF Calm
    <2>2. Held' = {}
      BY <2>1 DEF Held
    <2>3. EntrySet' \subseteq EntrySet /\ EntriesOK'
      BY <1>6, <2>2 DEF EntrySet, EntriesOK, Calm
    <2>4. TypesOK'
      BY <1>1, <1>6 DEF TypesOK, Calm
    <2>5. FlushTime'
      BY <1>5, <2>1, FlushTimeKept DEF Calm, TimeOK
    <2> QED
      BY <1>1, <1>5, <1>6, <2>1, <2>3, <2>4, <2>5, QuietStep
  <1>7. ASSUME Loads(e.ip), NEW zero \in 0 .. Chunks + 1,
               used' = [used EXCEPT !.casts = @ + 1,
                                    !.faults = IF zero = 0 THEN @ ELSE @ + 1],
               packets' = Append(packets, GetPackets(e, CompressAndEncrypt(e, zero))),
               publish_entries' = Append(publish_entries, [e EXCEPT !.age = 0, !.n = @ + 1]),
               Iterated(t)
        PROVE  Calm'
    <2>1. /\ used' \in [{"casts", "starts", "faults"} -> Nat]
          /\ used'.starts = used.starts
      <3>1. PICK f : f = IF zero = 0 THEN used.faults ELSE used.faults + 1
        OBVIOUS
      <3>2. /\ used \in [{"casts", "starts", "faults"} -> Nat]
            /\ used.faults \in Nat /\ used.casts + 1 \in Nat
        BY DEF Calm, TypesOK
      <3>3. f \in Nat
        BY <3>1, <3>2
      <3>4. used' = [used EXCEPT !.casts = @ + 1, !.faults = f]
        BY <1>7, <3>1, <3>2
      <3> QED
        BY <3>2, <3>3, <3>4
    <2>2. /\ ThreadsOK' /\ Same("send") /\ Same("capture") /\ Same("flush")
          /\ Held' = {}
      BY <1>1, <1>2, <1>7, <2>1, HolderIterates DEF At
    <2>3. PICK back : back = [e EXCEPT !.age = 0, !.n = @ + 1]
      OBVIOUS
    <2>4. back \in Entry /\ back.mac = e.mac /\ back.age = 0
      <3>1. 0 \in 0 .. Interval + 1 /\ e.n + 1 \in Nat
        BY <1>4, AltTypes DEF Entry
      <3>2. back = [ip |-> e.ip, mac |-> e.mac, sock |-> e.sock, age |-> 0, n |-> e.n + 1]
        BY <1>4, <2>3 DEF Entry
      <3>3. e.ip \in Ip /\ e.mac \in Interface /\ e.sock \in Socket
        BY <1>4 DEF Entry
      <3> QED
        BY <3>1, <3>2, <3>3 DEF Entry
    <2>5. /\ publish_entries' \in Seq(Entry) /\ EntriesOK'
          /\ EntrySet' = Elems(publish_entries) \cup {back}
          /\ \A i \in 1 .. Len(publish_entries) : publish_entries[i].mac # e.mac
      BY <1>4, <1>7, <2>2, <2>3, <2>4, EntryGoesBack DEF Calm, TypesOK
    <2>6. PICK cast : cast = GetPackets(e, CompressAndEncrypt(e, zero))
      OBVIOUS
    <2>7. cast \in Casts /\ Key(cast) = e.mac
      BY <1>4, <1>7, <2>6, CastType
    <2>8. /\ packets' \in Seq(Casts) /\ Len(packets) \in Nat
          /\ Len(packets') = Len(packets) + 1
          /\ packets'[Len(packets) + 1] = cast
          /\ \A q \in 1 .. Len(packets) : packets'[q] = packets[q]
      BY <1>7, <2>6, <2>7 DEF Calm, TypesOK
    <2>9. \A q \in 1 .. Len(packets') : q \in 1 .. Len(packets) \/ q = Len(packets) + 1
      BY <2>8
    <2>10. /\ \A q \in 1 .. Len(packets) : Key(packets[q]) # e.mac
           /\ \A x \in Sending \cup Buffered \cup InHand \cup Streamed :
                 x.of.key # e.mac
      BY <1>2, <1>4, DueIsQuiet
    <2>11. TypesOK'
      BY <1>1, <2>1, <2>5, <2>8 DEF Calm, TypesOK
    <2>12. Sending' = Sending /\ InHand' = InHand /\ HandOK'
      BY <1>1, <2>2, SameSend, SameCapture DEF Calm
    <2>13. Buffered' = Buffered /\ Streamed' = Streamed
      BY <1>1 DEF Buffered, Streamed
    <2>14. WaitingOK'
      BY <2>7, <2>8, <2>9, <2>10, <2>12, <2>13 DEF Calm, WaitingOK
    <2>15. OrderOK'
      BY <1>1, <1>5, <2>12, <2>13, OrderKept DEF Calm
    <2>16. StartOK'
      BY <1>1, <1>2, <2>12, <2>13 DEF Calm, StartOK
    <2>17. /\ Running("send")' = Running("send")
           /\ \A u \in Running("send") :
                 pc'[u] = pc[u] /\ Did(u)' = Did(u) /\ Work(u)' = Work(u)
      BY <2>2, SameSend DEF Same
    <2>18. /\ Running("capture")' = Running("capture")
           /\ \A u \in Running("capture") : Taken(u)' = Taken(u)
      BY <2>2, SameCapture DEF Same
    <2>19. \A a \in EntrySet' : (a \in EntrySet /\ a.mac # e.mac) \/ a = back
      BY <2>5 DEF EntrySet, Elems
    <2>20. WaitingTime'
      <3> SUFFICES ASSUME NEW u \in Running("send"), NEW a \in EntrySet',
                          NEW q \in 1 .. Len(packets'), Key(packets'[q]) = a.mac
                   PROVE  a.age + Did(u) + Work(u) + q * Chunks <= Limit
        BY <2>17 DEF WaitingTime, Key
      <3>1. CASE q \in 1 .. Len(packets)
        <4>1. a \in EntrySet
          BY <2>4, <2>8, <2>10, <2>19, <3>1
        <4> QED
          BY <2>8, <3>1, <4>1 DEF Calm, TimeOK, WaitingTime
      <3>2. CASE q = Len(packets) + 1
        <4>1. a = back
          BY <2>7, <2>8, <2>19, <3>2
        <4>2. e.mac \in Interface
          BY <1>4 DEF Entry
        <4>3. Did(u) + Work(u) + q * Chunks <= Limit
          BY <2>10, <3>2, <4>2, LastInQueue
        <4>4. a.age = 0 /\ Did(u) \in Nat
          BY <2>4, <4>1 DEF Did
        <4>5. a.age + Did(u) = Did(u)
          BY <4>4
        <4> QED
          BY <4>3, <4>5
      <3> QED
        BY <2>9, <3>1, <3>2
    <2>21. SendingTime'
      <3> SUFFICES ASSUME NEW u \in Running("send"), NEW a \in EntrySet',
                          pc[u].at = "sending", Key(pc[u].rest) = a.mac
                   PROVE  a.age + Did(u) + Work(u) <= Limit
        BY <2>17 DEF SendingTime, Key
      <3>1. a.mac # e.mac
        <4>1. u \in DOMAIN pc /\ pc[u].rest \in Parts
          BY KindOf DEF Running, Calm
        <4>2. pc[u].rest[1].chunk \in Sending
          <5>1. 1 \in 1 .. Len(pc[u].rest)
            BY <4>1, PartLength
          <5> QED
            BY <5>1, SendingBy DEF Calm
        <4> QED
          BY <2>10, <4>2 DEF Key
      <3> QED
        BY <2>4, <2>19, <3>1 DEF Calm, TimeOK, SendingTime
    <2>22. BufferLength'
      BY <1>1, <2>17, <2>18 DEF Calm, TimeOK, BufferLength
    <2>23. BufferTime'
      <3> SUFFICES ASSUME NEW u \in Running("capture"), NEW a \in EntrySet',
                          NEW i \in 1 .. Len(buffer), buffer[i].chunk.of.key = a.mac
                   PROVE  a.age + i + Taken(u) <= Limit + 1
        BY <1>1, <2>18 DEF BufferTime
      <3>1. disc_active
        BY DEF Calm, ThreadsOK, Running
      <3>2. buffer[i].chunk \in Buffered
        BY <3>1 DEF Buffered
      <3>3. a.mac # e.mac
        BY <2>10, <3>2
      <3> QED
        BY <2>4, <2>19, <3>3 DEF Calm, TimeOK, BufferTime
    <2>24. HandTime'
      BY <2>4, <2>10, <2>12, <2>19 DEF Calm, TimeOK, HandTime
    <2>25. StreamTime'
      <3> SUFFICES ASSUME NEW a \in EntrySet', a.mac \in DOMAIN peers,
                          peers[a.mac].stream # <<>>
                   PROVE  a.age <= peers[a.mac].age + Limit
        BY <1>1 DEF StreamTime
      <3>1. peers[a.mac].stream \in Seq(Chunk)
        BY DEF Calm, TypesOK
      <3>2. 1 \in 1 .. Len(peers[a.mac].stream)
        BY <3>1
      <3>3. /\ peers[a.mac].stream[1] \in Streamed
            /\ peers[a.mac].stream[1].of.key = a.mac
        BY <3>2 DEF Streamed, Calm, OrderOK
      <3>4. a.mac # e.mac
        BY <2>10, <3>3
      <3> QED
        BY <2>4, <2>19, <3>4 DEF Calm, TimeOK, StreamTime
    <2>26. FlushTime'
      BY <1>5, <2>2, FlushTimeKept DEF Calm, TimeOK
    <2> QED
      BY <2>2, <2>5, <2>11, <2>12, <2>14, <2>15, <2>16, <2>20, <2>21, <2>22, <2>23,
         <2>24, <2>25, <2>26 DEF Calm, TimeOK
  <1> QED
    BY <1>3, <1>6, <1>7 DEF Broadcast

-----------------------------------------------------------------------------
(* The sending thread *)

\* The entries of the publishing thread stay, if only other threads move.
LEMMA SameEntries ==
    ASSUME Same("run"), publish_entries' = publish_entries
    PROVE  EntrySet' = EntrySet /\ (EntriesOK => EntriesOK')
  <1>1. Held' = Held
    BY SameRun
  <1> QED
    BY <1>1 DEF EntrySet, EntriesOK

\* What the sending thread does leaves the other daemon's times alone.
LEMMA OtherTimes ==
    ASSUME Calm, Same("run"), Same("capture"), Same("flush"),
           UNCHANGED <<publish_entries, packet_queue, peers>>
    PROVE  /\ EntrySet' = EntrySet /\ EntriesOK' /\ HandOK'
           /\ InHand' = InHand /\ Streamed' = Streamed
           /\ HandTime' /\ StreamTime' /\ FlushTime'
           /\ Running("capture")' = Running("capture")
           /\ \A c \in Running("capture") : Taken(c)' = Taken(c)
  <1>1. EntrySet' = EntrySet /\ EntriesOK'
    BY SameEntries DEF Calm
  <1>2. /\ InHand' = InHand /\ HandOK'
        /\ Running("capture")' = Running("capture")
        /\ \A c \in Running("capture") : Taken(c)' = Taken(c)
    BY SameCapture DEF Calm, Same
  <1>3. Streamed' = Streamed /\ Emptied
    BY DEF Streamed, Emptied
  <1>4. HandTime'
    BY <1>1, <1>2 DEF Calm, TimeOK, HandTime
  <1>5. StreamTime'
    BY <1>1, <1>3, StreamTimeKept DEF Calm, TimeOK
  <1>6. FlushTime'
    BY <1>3, FlushTimeKept DEF Calm, TimeOK
  <1> QED
    BY <1>1, <1>2, <1>3, <1>4, <1>5, <1>6

\* What an entry is, wherever it is held.
LEMMA EntryTypes ==
    ASSUME Calm, NEW e \in EntrySet
    PROVE  e \in Entry /\ e.mac \in Interface /\ e.age \in 0 .. Interval + 1 /\ e.age \in Nat
  <1>1. CASE e \in Elems(publish_entries)
    <2>1. publish_entries \in Seq(Entry)
      BY DEF Calm, TypesOK
    <2>2. e \in Entry
      BY <1>1, <2>1 DEF Elems
    <2> QED
      BY <2>2, AltTypes DEF Entry
  <1>2. CASE e \in Held
    <2>1. PICK t \in Running("run") : pc[t].at = "entry" /\ e = pc[t].entry
      BY <1>2 DEF Held
    <2>2. e \in Entry
      BY <2>1, KindOf DEF Running, Calm
    <2> QED
      BY <2>2, AltTypes DEF Entry
  <1> QED
    BY <1>1, <1>2 DEF EntrySet

\* The sending thread takes a broadcast from the queue, if there is one.
LEMMA SendTopStep ==
    ASSUME Calm, NEW t \in DOMAIN pc, SendTop(t)
    PROVE  Calm'
  <1>1. /\ t[1] = "send" /\ pc[t].at = "top" /\ t \notin ran
        /\ t \in Running("send") /\ pub_active
    BY DEF SendTop, AtTop, At, Running, Calm, ThreadsOK
  <1>2. UNCHANGED <<pub_active, disc_active, buffer, packet_queue, control, closed,
                    answer, peers, publish_entries, used>>
    BY DEF SendTop, dvars
  <1>3. Sending = {} /\ Work(t) = 0 /\ Did(t) = 0 /\ Running("send") = {t}
    BY <1>1, SendingBy DEF Calm, Work, Did, ThreadsOK, Running
  <1>4. Buffered' = Buffered
    BY <1>2 DEF Buffered
  <1>5. CASE packets = <<>> /\ Iterated(t) /\ packets' = packets
    <2>1. StateOK(t, Top)
      BY <1>1 DEF StateOK, SendStates
    <2>2. /\ ThreadsOK' /\ pc'[t] = Top
          /\ Running("send")' = Running("send")
          /\ \A kind : kind # "send" => Same(kind)
      BY <1>1, <1>2, <1>5, <2>1, GotoThreads DEF Calm, Iterated
    <2>3. Len(packets') = 0 /\ pc'[t].at = "top" /\ Running("send")' = {t}
      BY <1>3, <1>5, <2>2 DEF Top
    <2>4. Sending' = {}
      BY <2>3 DEF Sending
    <2>5. Did(t)' = 1
      BY <1>5 DEF Did, Iterated
    <2>6. /\ EntrySet' = EntrySet /\ EntriesOK' /\ HandOK'
          /\ InHand' = InHand /\ Streamed' = Streamed
          /\ HandTime' /\ StreamTime' /\ FlushTime'
          /\ Running("capture")' = Running("capture")
          /\ \A c \in Running("capture") : Taken(c)' = Taken(c)
      BY <1>2, <2>2, OtherTimes
    <2>7. WaitingOK' /\ WaitingTime'
      BY <2>3 DEF WaitingOK, WaitingTime
    <2>8. SendingTime'
      BY <2>3 DEF SendingTime
    <2>9. OrderOK'
      <3>1. Emptied
        BY <1>2 DEF Emptied
      <3> QED
        BY <1>2, <1>3, <1>4, <2>4, <2>6, <3>1, OrderKept DEF Calm
    <2>10. BufferLength'
      <3> SUFFICES ASSUME NEW c \in Running("capture")
                   PROVE  Len(buffer) + Taken(c) <= 1 + 1
        BY <1>2, <2>3, <2>5, <2>6 DEF BufferLength
      <3>1. Len(buffer) + Taken(c) <= 1 + 0
        BY <1>3 DEF Calm, TimeOK, BufferLength
      <3>2. Len(buffer) + Taken(c) \in Int
        BY DEF Calm, TypesOK, Taken
      <3> QED
        BY <3>1, <3>2
    <2>11. BufferTime'
      BY <1>2, <2>6 DEF Calm, TimeOK, BufferTime
    <2>12. TypesOK' /\ StartOK'
      BY <1>1, <1>2, <1>5, <2>6 DEF Calm, TypesOK, StartOK
    <2> QED
      BY <2>2, <2>6, <2>7, <2>8, <2>9, <2>10, <2>11, <2>12 DEF Calm, TimeOK
  <1>6. CASE /\ packets # <<>> /\ Goto(t, [at |-> "sending", rest |-> Head(packets)])
             /\ packets' = Tail(packets) /\ ran' = ran
    <2> DEFINE rest == Head(packets)
               st == [at |-> "sending", rest |-> rest]
    <2>1. /\ packets \in Seq(Casts) /\ rest = packets[1] /\ rest \in Casts
          /\ packets' \in Seq(Casts) /\ Len(packets) \in Nat \ {0}
          /\ Len(packets') = Len(packets) - 1
          /\ \A q \in 1 .. Len(packets') : packets'[q] = packets[q + 1]
      BY <1>6 DEF Calm, TypesOK
    <2>2. rest \in Parts /\ Len(rest) = Chunks
      BY <2>1 DEF Casts
    <2> HIDE DEF rest
    <2>3. StateOK(t, st)
      BY <1>1, <2>2 DEF StateOK, SendStates
    <2>4. Goto(t, st)
      BY <1>6 DEF rest
    <2>5. /\ ThreadsOK' /\ pc'[t] = st
          /\ Running("send")' = {t}
          /\ \A kind : kind # "send" => Same(kind)
      BY <1>1, <1>2, <1>3, <1>6, <2>3, <2>4, GotoThreads DEF Calm
    <2>6. pc'[t].at = "sending" /\ pc'[t].rest = rest
      BY <2>5
    <2>7. /\ EntrySet' = EntrySet /\ EntriesOK' /\ HandOK'
          /\ InHand' = InHand /\ Streamed' = Streamed
          /\ HandTime' /\ StreamTime' /\ FlushTime'
          /\ Running("capture")' = Running("capture")
          /\ \A c \in Running("capture") : Taken(c)' = Taken(c)
      BY <1>2, <2>5, OtherTimes
    <2>8. Sending' = {rest[i].chunk : i \in 1 .. Len(rest)}
      BY <2>5, <2>6 DEF Sending
    <2>9. \A x \in Sending' : x.of.key = Key(packets[1])
      BY <2>1, <2>2, <2>8, PartLength
    <2>10. /\ \A q \in 1 .. Len(packets') : q + 1 \in 1 .. Len(packets) /\ q + 1 # 1
           /\ 1 \in 1 .. Len(packets)
      BY <2>1
    <2>11. WaitingOK'
      <3>1. ASSUME NEW p \in 1 .. Len(packets'), NEW q \in 1 .. Len(packets'),
                   Key(packets'[p]) = Key(packets'[q])
            PROVE  p = q
        <4>1. p + 1 = q + 1
          BY <2>1, <2>10, <3>1 DEF Calm, WaitingOK
        <4> QED
          BY <4>1
      <3>2. ASSUME NEW q \in 1 .. Len(packets'),
                   NEW x \in Sending' \cup Buffered' \cup InHand' \cup Streamed'
            PROVE  x.of.key # Key(packets'[q])
        <4>1. CASE x \in Sending'
          BY <2>1, <2>9, <2>10, <4>1 DEF Calm, WaitingOK
        <4>2. CASE x \in Buffered \cup InHand \cup Streamed
          BY <2>1, <2>10, <4>2 DEF Calm, WaitingOK
        <4> QED
          BY <1>4, <2>7, <3>2, <4>1, <4>2
      <3> QED
        BY <3>1, <3>2 DEF WaitingOK, Key
    <2>12. OrderOK'
      <3>1. \A x \in Buffered \cup InHand \cup Streamed : x.of.key # Key(packets[1])
        BY <2>10 DEF Calm, WaitingOK
      <3>2. /\ Before(Streamed, Sending') /\ Before(InHand, Sending')
            /\ Before(Buffered, Sending')
        BY <2>9, <3>1 DEF Before, Follows
      <3> QED
        BY <1>2, <1>4, <2>7, <3>2 DEF Calm, OrderOK, Before, Follows
    <2>13. Did(t)' = 0 /\ Work(t)' = Chunks /\ Chunks \in Nat
      BY <1>1, <1>6, <2>2, <2>6, AltTypes DEF Did, Work
    <2>14. WaitingTime'
      <3> SUFFICES ASSUME NEW e \in EntrySet, NEW q \in 1 .. Len(packets'),
                          Key(packets'[q]) = e.mac
                   PROVE  e.age + 0 + Chunks + q * Chunks <= Limit
        BY <2>5, <2>7, <2>13 DEF WaitingTime, Key
      <3>1. e.age + 0 + 0 + (q + 1) * Chunks <= Limit
        BY <1>3, <2>1, <2>10 DEF Calm, TimeOK, WaitingTime
      <3>2. (q + 1) * Chunks = q * Chunks + Chunks /\ q * Chunks \in Nat
        <4>1. q \in Nat
          OBVIOUS
        <4> QED
          BY <2>13, <4>1, Products
      <3>3. e.age \in Nat
        BY EntryTypes
      <3> QED
        BY <2>13, <3>1, <3>2, <3>3
    <2>15. SendingTime'
      <3> SUFFICES ASSUME NEW e \in EntrySet, Key(rest) = e.mac
                   PROVE  e.age + 0 + Chunks <= Limit
        BY <2>5, <2>6, <2>7, <2>13 DEF SendingTime, Key
      <3>1. e.age + 0 + 0 + 1 * Chunks <= Limit
        BY <1>3, <2>1, <2>10 DEF Calm, TimeOK, WaitingTime
      <3>2. e.age \in Nat
        BY EntryTypes
      <3> QED
        BY <2>13, <3>1, <3>2
    <2>16. BufferLength' /\ BufferTime'
      BY <1>2, <1>3, <2>5, <2>7, <2>13 DEF Calm, TimeOK, BufferLength, BufferTime
    <2>17. TypesOK' /\ StartOK'
      BY <1>1, <1>2, <2>1, <2>7 DEF Calm, TypesOK, StartOK
    <2> QED
      BY <2>5, <2>7, <2>11, <2>12, <2>14, <2>15, <2>16, <2>17 DEF Calm, TimeOK
  <1> QED
    BY <1>1, <1>2, <1>5, <1>6 DEF SendTop

\* What is left of a message after its first part.
LEMMA TailOfParts ==
    ASSUME NEW ps \in Parts, Len(ps) # 1
    PROVE  /\ Tail(ps) \in Parts /\ Len(Tail(ps)) = Len(ps) - 1
           /\ Key(Tail(ps)) = Key(ps)
           /\ \A i \in 1 .. Len(Tail(ps)) :
                 i + 1 \in 1 .. Len(ps) /\ Tail(ps)[i] = ps[i + 1]
  <1>1. ps \in Seq(Packet) /\ ps # <<>> /\ Len(ps) \in Nat \ {0, 1}
    BY DEF Parts
  <1>2. PICK rest : rest = Tail(ps)
    OBVIOUS
  <1>3. /\ rest \in Seq(Packet) /\ Len(rest) = Len(ps) - 1
        /\ \A i \in 1 .. Len(rest) : i + 1 \in 1 .. Len(ps) /\ rest[i] = ps[i + 1]
    BY <1>1, <1>2
  <1>4. 1 \in 1 .. Len(rest) /\ rest # <<>>
    BY <1>1, <1>3
  <1>5. \A i \in 1 .. Len(ps) : /\ ps[i].chunk.of = ps[1].chunk.of
                               /\ ps[i].chunk.i = ps[1].chunk.i + i - 1
    BY DEF Parts, Consecutive
  <1>6. rest[1] = ps[2] /\ 2 \in 1 .. Len(ps)
    BY <1>1, <1>3, <1>4
  <1>7. ps[1].chunk.i \in Nat
    <2>1. ps[1] \in Packet
      BY <1>1
    <2> QED
      BY <2>1 DEF Packet, Chunk
  <1>8. Consecutive(rest)
    <2> SUFFICES ASSUME NEW i \in 1 .. Len(rest)
                 PROVE  /\ rest[i].chunk.of = rest[1].chunk.of
                        /\ rest[i].chunk.i = rest[1].chunk.i + i - 1
      BY DEF Consecutive
    <2>1. rest[i] = ps[i + 1] /\ i + 1 \in 1 .. Len(ps)
      BY <1>3
    <2>2. /\ rest[i].chunk.of = ps[1].chunk.of
          /\ rest[i].chunk.i = ps[1].chunk.i + (i + 1) - 1
      BY <1>5, <2>1
    <2>3. /\ rest[1].chunk.of = ps[1].chunk.of
          /\ rest[1].chunk.i = ps[1].chunk.i + 2 - 1
      BY <1>5, <1>6
    <2>4. PICK a \in Nat : a = ps[1].chunk.i
      BY <1>7
    <2>5. i \in Nat
      OBVIOUS
    <2>6. rest[1].chunk.i = a + 1 /\ rest[i].chunk.i = a + i
      BY <2>2, <2>3, <2>4, <2>5
    <2>7. a + i = (a + 1) + i - 1
      BY <2>4, <2>5
    <2> QED
      BY <2>2, <2>3, <2>6, <2>7, Zenon
  <1>9. Key(rest) = Key(ps)
    BY <1>5, <1>6 DEF Key
  <1>10. rest \in Parts
    BY <1>3, <1>4, <1>8 DEF Parts
  <1> QED
    BY <1>2, <1>3, <1>9, <1>10

\* One packet goes into the socket, or is lost.
LEMMA SendPacketStep ==
    ASSUME Timing, Calm, NEW t \in DOMAIN pc, SendPacket(t)
    PROVE  Calm'
  <1>1. /\ t[1] = "send" /\ pc[t].at = "sending" /\ t \notin ran
        /\ t \in Running("send") /\ pub_active /\ pc[t].rest \in Parts
    BY KindOf DEF SendPacket, At, Running, Calm, ThreadsOK
  <1>2. PICK rest : rest = pc[t].rest
    OBVIOUS
  <1>3. PICK p : p = Head(rest)
    OBVIOUS
  <1>4. PICK st : st = IF Len(rest) = 1 THEN Top ELSE [at |-> "sending", rest |-> Tail(rest)]
    OBVIOUS
  <1>5. UNCHANGED <<pub_active, disc_active, packet_queue, control, closed,
                    answer, peers, publish_entries, packets>>
    BY DEF SendPacket, pvars
  <1>6. /\ (buffer' = Append(buffer, p) /\ UNCHANGED used)
             \/ (Spend("faults") /\ UNCHANGED buffer)
        /\ ran' = ran \cup {t} /\ Goto(t, st)
    BY <1>2, <1>3, <1>4 DEF SendPacket, Calm, TypesOK
  <1>7. /\ rest \in Parts /\ Len(rest) \in 1 .. Chunks /\ Chunks \in Nat
        /\ p = rest[1] /\ 1 \in 1 .. Len(rest) /\ p \in Packet
        /\ p.chunk.of.key = Key(rest)
    <2>1. rest \in Parts
      BY <1>1, <1>2
    <2>2. Len(rest) \in 1 .. Chunks /\ 1 \in 1 .. Len(rest)
      BY <2>1, PartLength
    <2>3. p = rest[1]
      BY <1>3, <2>1 DEF Parts
    <2> QED
      BY <2>1, <2>2, <2>3, PartLength, AltTypes
  <1>8. Len(rest) # 1 => /\ Tail(rest) \in Parts /\ Len(Tail(rest)) = Len(rest) - 1
                         /\ Key(Tail(rest)) = Key(rest)
                         /\ \A i \in 1 .. Len(Tail(rest)) :
                               i + 1 \in 1 .. Len(rest) /\ Tail(rest)[i] = rest[i + 1]
    BY <1>7, TailOfParts
  <1>9. StateOK(t, st)
    BY <1>1, <1>4, <1>8 DEF StateOK, SendStates
  <1>10. used' \in [{"casts", "starts", "faults"} -> Nat] /\ used'.starts = used.starts
    BY <1>6, SpendFault DEF Calm
  <1>11. /\ ThreadsOK' /\ pc'[t] = st
         /\ Running("send")' = Running("send")
         /\ \A kind : kind # "send" => Same(kind)
    BY <1>1, <1>5, <1>6, <1>9, <1>10, GotoThreads DEF Calm
  <1>12. Running("send") = {t} /\ Running("send")' = {t}
    BY <1>1, <1>11 DEF Running, Calm, ThreadsOK
  <1>13. /\ EntrySet' = EntrySet /\ EntriesOK' /\ HandOK'
         /\ InHand' = InHand /\ Streamed' = Streamed
         /\ HandTime' /\ StreamTime' /\ FlushTime'
         /\ Running("capture")' = Running("capture")
         /\ \A c \in Running("capture") : Taken(c)' = Taken(c)
    BY <1>5, <1>11, OtherTimes
  <1>14. /\ Len(rest) = 1 => pc'[t].at = "top"
         /\ Len(rest) # 1 => pc'[t].at = "sending" /\ pc'[t].rest = Tail(rest)
    <2>1. ASSUME Len(rest) = 1 PROVE pc'[t].at = "top"
      BY <1>4, <1>11, <2>1 DEF Top
    <2>2. ASSUME Len(rest) # 1 PROVE pc'[t].at = "sending" /\ pc'[t].rest = Tail(rest)
      <3>1. st = [at |-> "sending", rest |-> Tail(rest)]
        BY <1>4, <2>2
      <3> QED
        BY <1>11, <3>1
    <2> QED
      BY <2>1, <2>2
  <1>15. Sending = {rest[i].chunk : i \in 1 .. Len(rest)}
    BY <1>1, <1>2, SendingBy DEF Calm
  <1>16. ASSUME NEW y \in Sending'
         PROVE  y \in Sending /\ Follows(p.chunk, y)
    <2>1. pc'[t].at = "sending" /\ \E i \in 1 .. Len(pc'[t].rest) : y = pc'[t].rest[i].chunk
      BY <1>12 DEF Sending
    <2>2. Len(rest) # 1
      BY <1>14, <2>1
    <2>3. PICK i \in 1 .. Len(Tail(rest)) : y = Tail(rest)[i].chunk
      BY <1>14, <2>1, <2>2
    <2>4. i + 1 \in 1 .. Len(rest) /\ y = rest[i + 1].chunk /\ i \in Nat \ {0}
      BY <1>8, <2>2, <2>3
    <2>5. /\ rest[i + 1].chunk.of = rest[1].chunk.of
          /\ rest[i + 1].chunk.i = rest[1].chunk.i + (i + 1) - 1
      BY <1>7, <2>4 DEF Parts, Consecutive
    <2>6. p.chunk.i \in Nat
      BY <1>7 DEF Packet, Chunk
    <2> QED
      BY <1>7, <1>15, <2>4, <2>5, <2>6 DEF Follows
  <1>17. p.chunk \in Sending
    BY <1>7, <1>15
  <1>18. /\ buffer \in Seq(Packet) /\ Len(buffer) \in Nat /\ buffer' \in Seq(Packet)
         /\ Len(buffer') \in {Len(buffer), Len(buffer) + 1}
         /\ \A i \in 1 .. Len(buffer) : buffer'[i] = buffer[i]
         /\ \A i \in 1 .. Len(buffer') :
               \/ i \in 1 .. Len(buffer)
               \/ (i = Len(buffer) + 1 /\ buffer'[i] = p)
    <2>1. buffer \in Seq(Packet) /\ Len(buffer) \in Nat
      BY DEF Calm, TypesOK
    <2>2. CASE buffer' = buffer
      BY <2>1, <2>2
    <2>3. CASE buffer' = Append(buffer, p)
      BY <1>7, <2>1, <2>3
    <2> QED
      BY <1>6, <2>2, <2>3
  <1>19. Buffered' \subseteq Buffered \cup {p.chunk}
    BY <1>5, <1>18 DEF Buffered
  <1>20. Did(t) = 0 /\ Did(t)' = 1 /\ Work(t) = Len(rest) /\ Work(t)' = Len(rest) - 1
    <2>1. Did(t) = 0 /\ Did(t)' = 1
      BY <1>1, <1>6 DEF Did
    <2>2. Work(t) = Len(rest)
      BY <1>1, <1>2 DEF Work
    <2>3. Work(t)' = Len(rest) - 1
      BY <1>7, <1>8, <1>14 DEF Work
    <2> QED
      BY <2>1, <2>2, <2>3
  <1>21. TypesOK'
    BY <1>5, <1>10, <1>18 DEF Calm, TypesOK
  <1>22. WaitingOK'
    <2>1. \A x \in (Sending \cup Buffered \cup InHand \cup Streamed)' :
              x \in Sending \cup Buffered \cup InHand \cup Streamed
      BY <1>13, <1>16, <1>17, <1>19
    <2> QED
      BY <1>5, <2>1, WaitingKept DEF Calm
  <1>23. OrderOK'
    <2>1. Before(Streamed', InHand' \cup Buffered' \cup Sending')
      BY <1>13, <1>16, <1>17, <1>19 DEF Calm, OrderOK, Before
    <2>2. Before(InHand', Buffered' \cup Sending')
      BY <1>13, <1>16, <1>17, <1>19 DEF Calm, OrderOK, Before
    <2>3. Before(Buffered', Sending')
      BY <1>16, <1>19 DEF Calm, OrderOK, Before
    <2>4. ASSUME disc_active, NEW i \in 1 .. Len(buffer'), NEW j \in 1 .. Len(buffer'), i < j
          PROVE  Follows(buffer'[i].chunk, buffer'[j].chunk)
      <3>1. i \in 1 .. Len(buffer)
        BY <1>18, <2>4
      <3>2. CASE j \in 1 .. Len(buffer)
        BY <1>18, <2>4, <3>1, <3>2 DEF Calm, OrderOK
      <3>3. CASE buffer'[j] = p
        <4>1. buffer'[i].chunk \in Buffered
          BY <1>18, <2>4, <3>1 DEF Buffered
        <4> QED
          BY <1>17, <3>3, <4>1 DEF Calm, OrderOK, Before
      <3> QED
        BY <1>18, <3>2, <3>3
    <2> QED
      BY <1>5, <2>1, <2>2, <2>3, <2>4 DEF Calm, OrderOK, Before, Follows
  <1>24. WaitingTime'
    <2> SUFFICES ASSUME NEW e \in EntrySet, NEW q \in 1 .. Len(packets),
                        Key(packets[q]) = e.mac
                 PROVE  e.age + 1 + (Len(rest) - 1) + q * Chunks <= Limit
      BY <1>5, <1>12, <1>13, <1>20 DEF WaitingTime, Key
    <2>1. e.age + 0 + Len(rest) + q * Chunks <= Limit
      BY <1>12, <1>20 DEF Calm, TimeOK, WaitingTime
    <2>2. e.age \in Nat /\ Len(rest) \in Nat
      BY <1>7, EntryTypes
    <2>3. e.age + 1 + (Len(rest) - 1) = e.age + 0 + Len(rest)
      BY <2>2
    <2> QED
      BY <2>1, <2>3
  <1>25. SendingTime'
    <2> SUFFICES ASSUME NEW e \in EntrySet, pc'[t].at = "sending",
                        Key(pc'[t].rest) = e.mac
                 PROVE  e.age + 1 + (Len(rest) - 1) <= Limit
      BY <1>12, <1>13, <1>20 DEF SendingTime, Key
    <2>1. Key(rest) = e.mac
      BY <1>8, <1>14
    <2>2. e.age + 0 + Len(rest) <= Limit
      BY <1>1, <1>2, <1>12, <1>20, <2>1 DEF Calm, TimeOK, SendingTime
    <2>3. e.age \in Nat /\ Len(rest) \in Nat
      BY <1>7, EntryTypes
    <2>4. e.age + 1 + (Len(rest) - 1) = e.age + 0 + Len(rest)
      BY <2>3
    <2> QED
      BY <2>2, <2>4
  <1>26. ASSUME NEW c \in Running("capture") PROVE Len(buffer) + Taken(c) <= 1 /\ Taken(c) \in Nat
    <2>1. Len(buffer) + Taken(c) <= 1 + 0
      BY <1>12, <1>20 DEF Calm, TimeOK, BufferLength
    <2>2. Taken(c) \in Nat
      BY DEF Taken
    <2> QED
      BY <2>1, <2>2
  <1>27. BufferLength'
    <2> SUFFICES ASSUME NEW c \in Running("capture")
                 PROVE  Len(buffer') + Taken(c) <= 1 + 1
      BY <1>12, <1>13, <1>20 DEF BufferLength
    <2> QED
      BY <1>18, <1>26
  <1>28. BufferTime'
    <2> SUFFICES ASSUME NEW c \in Running("capture"), NEW e \in EntrySet,
                        NEW i \in 1 .. Len(buffer'), buffer'[i].chunk.of.key = e.mac
                 PROVE  e.age + i + Taken(c) <= Limit + 1
      BY <1>13 DEF BufferTime
    <2>1. CASE i \in 1 .. Len(buffer)
      BY <1>18, <2>1 DEF Calm, TimeOK, BufferTime
    <2>2. CASE i = Len(buffer) + 1 /\ buffer'[i] = p
      <3>1. Key(rest) = e.mac
        BY <1>7, <2>2
      <3>2. e.age + 0 + Len(rest) <= Limit
        BY <1>1, <1>2, <1>12, <1>20, <3>1 DEF Calm, TimeOK, SendingTime
      <3>3. e.age \in Nat /\ Len(rest) \in Nat \ {0}
        BY <1>7, EntryTypes
      <3>4. i + Taken(c) <= 2 /\ i \in Nat /\ Taken(c) \in Nat
        BY <1>18, <1>26, <2>2
      <3>5. Limit \in Nat
        BY LimitType
      <3> QED
        BY <3>2, <3>3, <3>4, <3>5
    <2> QED
      BY <1>18, <2>1, <2>2
  <1>29. StartOK'
    BY <1>1, <1>5, <1>13 DEF Calm, StartOK
  <1> QED
    BY <1>11, <1>13, <1>21, <1>22, <1>23, <1>24, <1>25, <1>27, <1>28, <1>29 DEF Calm, TimeOK

-----------------------------------------------------------------------------
(* The capturing thread *)

\* Its steps leave the publishing daemon alone.
LEMMA OtherDaemon ==
    ASSUME Calm, Same("run"), Same("send"), UNCHANGED <<publish_entries, packets>>
    PROVE  /\ EntrySet' = EntrySet /\ EntriesOK' /\ Sending' = Sending
           /\ WaitingTime' /\ SendingTime'
           /\ Running("send")' = Running("send")
           /\ \A u \in Running("send") : Did(u)' = Did(u)
  <1>1. EntrySet' = EntrySet /\ EntriesOK'
    BY SameEntries DEF Calm
  <1>2. WaitingTime' /\ SendingTime'
    BY <1>1, SendTimesKept DEF Calm, TimeOK
  <1> QED
    BY <1>1, <1>2, SameSend DEF Same

\* Where its one thread is, and what it has.
LEMMA Capturer ==
    ASSUME Calm, NEW t \in DOMAIN pc, t[1] = "capture"
    PROVE  /\ Running("capture") = {t} /\ disc_active
           /\ pc[t].at # "get" => packet_queue = <<>>
           /\ pc[t].at = "update" => pc[t].packet \in Packet
                                     /\ InHand = {pc[t].packet.chunk}
           /\ pc[t].at # "update" =>
                 InHand = {packet_queue[i].chunk : i \in 1 .. Len(packet_queue)}
           /\ pc[t].at # "top" => t \notin ran
  <1>1. Running("capture") = {t} /\ disc_active
    BY DEF Calm, ThreadsOK, Running
  <1>2. pc[t].at # "get" => packet_queue = <<>>
    BY <1>1 DEF Calm, HandOK
  <1>3. pc[t].at = "update" => pc[t].packet \in Packet
    BY KindOf DEF Calm
  <1>4. ASSUME pc[t].at = "update" PROVE InHand = {pc[t].packet.chunk}
    <2>1. Len(packet_queue) = 0
      BY <1>2, <1>4
    <2> QED
      BY <1>1, <1>4, <2>1 DEF InHand
  <1>5. pc[t].at # "update" =>
           InHand = {packet_queue[i].chunk : i \in 1 .. Len(packet_queue)}
    BY <1>1 DEF InHand
  <1>6. pc[t].at # "top" => t \notin ran
    BY DEF Calm, ThreadsOK, Top
  <1> QED
    BY <1>1, <1>2, <1>3, <1>4, <1>5, <1>6

\* A packet is taken from the socket, if there is one.
LEMMA CaptureTopStep ==
    ASSUME Timing, Calm, NEW t \in DOMAIN pc, CaptureTop(t)
    PROVE  Calm'
  <1>1. t[1] = "capture" /\ pc[t].at = "top" /\ t \notin ran
    BY DEF CaptureTop, AtTop, At
  <1>2. /\ Running("capture") = {t} /\ disc_active /\ packet_queue = <<>>
        /\ Len(packet_queue) = 0 /\ InHand = {}
    BY <1>1, Capturer
  <1>3. UNCHANGED <<pub_active, disc_active, control, closed, answer, used,
                    peers, publish_entries, packets>>
    BY DEF CaptureTop, pvars
  <1>4. /\ Goto(t, [at |-> "get"]) /\ ran' = ran
        /\ \/ /\ buffer # <<>> /\ buffer' = Tail(buffer)
              /\ packet_queue' = Append(packet_queue, Head(buffer))
           \/ buffer = <<>> /\ buffer' = buffer /\ packet_queue' = packet_queue
    BY <1>2 DEF CaptureTop
  <1>5. StateOK(t, [at |-> "get"])
    BY <1>1 DEF StateOK, CaptureStates
  <1>6. /\ ThreadsOK' /\ pc'[t] = [at |-> "get"]
        /\ Running("capture")' = Running("capture")
        /\ \A kind : kind # "capture" => Same(kind)
    BY <1>1, <1>3, <1>4, <1>5, GotoThreads DEF Calm
  <1>7. Running("capture")' = {t} /\ pc'[t].at = "get"
    BY <1>2, <1>6
  <1>8. /\ EntrySet' = EntrySet /\ EntriesOK' /\ Sending' = Sending
        /\ WaitingTime' /\ SendingTime'
        /\ Running("send")' = Running("send")
        /\ \A u \in Running("send") : Did(u)' = Did(u)
    BY <1>3, <1>6, OtherDaemon
  <1>9. Streamed' = Streamed /\ Emptied
    BY <1>3 DEF Streamed, Emptied
  <1>10. StreamTime' /\ FlushTime'
    BY <1>6, <1>8, <1>9, StreamTimeKept, FlushTimeKept DEF Calm, TimeOK
  <1>11. InHand' = {packet_queue'[i].chunk : i \in 1 .. Len(packet_queue')}
    BY <1>7 DEF InHand
  <1>12. Taken(t) = 0 /\ Taken(t)' = 1
    BY <1>1, <1>4, <1>7 DEF Taken
  <1>13. buffer \in Seq(Packet)
    BY DEF Calm, TypesOK
  <1>14. CASE buffer = <<>> /\ buffer' = buffer /\ packet_queue' = packet_queue
    <2>1. InHand' = {} /\ Len(buffer') = 0
      BY <1>2, <1>11, <1>14
    <2>2. Buffered' = Buffered
      BY <1>3, <1>14 DEF Buffered
    <2>3. WaitingOK'
      BY <1>2, <1>3, <1>8, <1>9, <2>1, <2>2, WaitingKept DEF Calm
    <2>4. OrderOK'
      BY <1>2, <1>3, <1>8, <1>9, <1>14, <2>1, <2>2, OrderKept DEF Calm
    <2>5. HandOK' /\ StartOK' /\ TypesOK'
      BY <1>2, <1>3, <1>9, <1>14, <2>1 DEF Calm, HandOK, StartOK, TypesOK
    <2>6. BufferLength'
      BY <1>7, <1>12, <2>1 DEF BufferLength, Did
    <2>7. BufferTime' /\ HandTime'
      BY <2>1 DEF BufferTime, HandTime
    <2> QED
      BY <1>6, <1>8, <1>10, <2>3, <2>4, <2>5, <2>6, <2>7 DEF Calm, TimeOK
  <1>15. CASE /\ buffer # <<>> /\ buffer' = Tail(buffer)
              /\ packet_queue' = Append(packet_queue, Head(buffer))
    <2>1. PICK p : p = Head(buffer)
      OBVIOUS
    <2>2. /\ p = buffer[1] /\ p \in Packet /\ 1 \in 1 .. Len(buffer)
          /\ Len(buffer) \in Nat \ {0} /\ Len(buffer') = Len(buffer) - 1
          /\ buffer' \in Seq(Packet)
          /\ \A i \in 1 .. Len(buffer') :
                i + 1 \in 1 .. Len(buffer) /\ buffer'[i] = buffer[i + 1]
      BY <1>13, <1>15, <2>1
    <2>3. packet_queue' = <<p>> /\ Len(packet_queue') = 1 /\ packet_queue'[1] = p
      BY <1>2, <1>15, <2>1
    <2>4. InHand' = {p.chunk}
      BY <1>11, <2>3
    <2>5. /\ Buffered = {buffer[i].chunk : i \in 1 .. Len(buffer)}
          /\ Buffered' = {buffer'[i].chunk : i \in 1 .. Len(buffer')}
      BY <1>2, <1>3 DEF Buffered
    <2>6. Buffered' \subseteq Buffered /\ p.chunk \in Buffered
      BY <2>2, <2>5
    <2>7. \A y \in Buffered' : Follows(p.chunk, y)
      <3> SUFFICES ASSUME NEW i \in 1 .. Len(buffer')
                   PROVE  Follows(p.chunk, buffer'[i].chunk)
        BY <2>5
      <3>1. 1 < i + 1
        BY <2>2
      <3> QED
        BY <1>2, <2>2, <3>1 DEF Calm, OrderOK
    <2>8. WaitingOK'
      BY <1>3, <1>8, <1>9, <2>4, <2>6, WaitingKept DEF Calm
    <2>9. OrderOK'
      <3>1. Before(Streamed', InHand' \cup Buffered' \cup Sending')
        BY <1>8, <1>9, <2>4, <2>6 DEF Calm, OrderOK, Before
      <3>2. Before(InHand', Buffered' \cup Sending') /\ Before(Buffered', Sending')
        BY <1>8, <2>4, <2>6, <2>7 DEF Calm, OrderOK, Before
      <3>3. ASSUME NEW i \in 1 .. Len(buffer'), NEW j \in 1 .. Len(buffer'), i < j
            PROVE  Follows(buffer'[i].chunk, buffer'[j].chunk)
        <4>1. i + 1 < j + 1
          BY <3>3
        <4> QED
          BY <1>2, <2>2, <4>1 DEF Calm, OrderOK
      <3> QED
        BY <1>3, <3>1, <3>2, <3>3 DEF Calm, OrderOK, Before, Follows
    <2>10. HandOK'
      BY <1>7, <2>3 DEF HandOK
    <2>11. StartOK' /\ TypesOK'
      BY <1>2, <1>3, <1>15, <2>2, <2>3 DEF Calm, StartOK, TypesOK
    <2>12. BufferLength'
      <3> SUFFICES ASSUME NEW u \in Running("send")
                   PROVE  (Len(buffer) - 1) + 1 <= 1 + Did(u)
        BY <1>7, <1>8, <1>12, <2>2 DEF BufferLength
      <3>1. Len(buffer) + 0 <= 1 + Did(u)
        BY <1>2, <1>12 DEF Calm, TimeOK, BufferLength
      <3> QED
        BY <2>2, <3>1
    <2>13. BufferTime'
      <3> SUFFICES ASSUME NEW e \in EntrySet, NEW i \in 1 .. Len(buffer'),
                          buffer'[i].chunk.of.key = e.mac
                   PROVE  e.age + i + 1 <= Limit + 1
        BY <1>7, <1>8, <1>12 DEF BufferTime
      <3>1. e.age + (i + 1) + 0 <= Limit + 1
        BY <1>2, <1>12, <2>2 DEF Calm, TimeOK, BufferTime
      <3>2. e.age \in Nat /\ i \in Nat
        BY EntryTypes
      <3>3. e.age + i + 1 = e.age + (i + 1) + 0
        BY <3>2
      <3> QED
        BY <3>1, <3>3
    <2>14. HandTime'
      <3> SUFFICES ASSUME NEW e \in EntrySet, p.chunk.of.key = e.mac
                   PROVE  e.age <= Limit
        BY <1>8, <2>4 DEF HandTime
      <3>1. e.age + 1 + 0 <= Limit + 1
        BY <1>2, <1>12, <2>2 DEF Calm, TimeOK, BufferTime
      <3>2. e.age \in Nat /\ Limit \in Nat
        BY EntryTypes, LimitType
      <3> QED
        BY <3>1, <3>2
    <2> QED
      BY <1>6, <1>8, <1>10, <2>8, <2>9, <2>10, <2>11, <2>12, <2>13, <2>14 DEF Calm, TimeOK
  <1> QED
    BY <1>4, <1>14, <1>15

\* A thread that has taken what it can passes it on, or drops it.
LEMMA CaptureKeeps ==
    ASSUME Calm, NEW t \in DOMAIN pc, Running("capture") = {t}, disc_active,
           pc[t].at # "top", ThreadsOK', Running("capture")' = {t},
           \A kind : kind # "capture" => Same(kind),
           InHand' \subseteq InHand, Taken(t)' = 1, packet_queue' = <<>>,
           UNCHANGED <<pub_active, disc_active, control, closed, answer, used, buffer,
                       peers, publish_entries, packets>>
    PROVE  Calm'
  <1>1. /\ EntrySet' = EntrySet /\ EntriesOK' /\ Sending' = Sending
        /\ WaitingTime' /\ SendingTime'
        /\ Running("send")' = Running("send")
        /\ \A u \in Running("send") : Did(u)' = Did(u)
    BY OtherDaemon
  <1>2. Streamed' = Streamed /\ Emptied /\ Buffered' = Buffered
    BY DEF Streamed, Emptied, Buffered
  <1>3. StreamTime' /\ FlushTime'
    BY <1>1, <1>2, StreamTimeKept, FlushTimeKept DEF Calm, TimeOK
  <1>4. Taken(t) = 1
    BY DEF Taken
  <1>5. BufferLength' /\ BufferTime'
    BY <1>1, <1>4 DEF Calm, TimeOK, BufferLength, BufferTime
  <1>6. HandTime'
    BY <1>1 DEF Calm, TimeOK, HandTime
  <1>7. WaitingOK'
    BY <1>1, <1>2, WaitingKept DEF Calm
  <1>8. OrderOK'
    BY <1>1, <1>2, OrderKept DEF Calm
  <1>9. Len(packet_queue') = 0
    OBVIOUS
  <1>10. HandOK' /\ StartOK' /\ TypesOK'
    BY <1>2, <1>9 DEF Calm, HandOK, StartOK, TypesOK
  <1> QED
    BY <1>1, <1>3, <1>5, <1>6, <1>7, <1>8, <1>10 DEF Calm, TimeOK

\* What is taken is either dropped or kept for the stream.
LEMMA CaptureGetStep ==
    ASSUME Calm, NEW t \in DOMAIN pc, CaptureGet(t)
    PROVE  Calm'
  <1>1. t[1] = "capture" /\ pc[t].at = "get"
    BY KindOf DEF CaptureGet, At, Calm
  <1>2. /\ Running("capture") = {t} /\ disc_active /\ t \notin ran
        /\ InHand = {packet_queue[i].chunk : i \in 1 .. Len(packet_queue)}
    BY <1>1, Capturer
  <1>3. UNCHANGED <<pub_active, disc_active, control, closed, answer, used, buffer,
                    peers, publish_entries, packets>>
    BY DEF CaptureGet, pvars
  <1>4. /\ packet_queue \in Seq(Packet) /\ Len(packet_queue) <= 1
    BY DEF Calm, TypesOK, HandOK
  <1>5. PICK p : p = Head(packet_queue)
    OBVIOUS
  <1>6. ASSUME packet_queue # <<>>
        PROVE  /\ p \in Packet /\ Tail(packet_queue) = <<>>
               /\ p.chunk \in InHand
    <2> DEFINE n == Len(packet_queue)
    <2>a. n \in Nat /\ n # 0 /\ n <= 1
      BY <1>4, <1>6
    <2> HIDE DEF n
    <2>b. n = 1
      BY <2>a
    <2>1. Len(packet_queue) = 1 /\ p = packet_queue[1] /\ p \in Packet
      BY <1>4, <1>5, <1>6, <2>b DEF n
    <2>2. 1 \in 1 .. Len(packet_queue)
      BY <2>1
    <2>3. Tail(packet_queue) = <<>>
      <3>1. Tail(packet_queue) \in Seq(Packet) /\ Len(Tail(packet_queue)) = 0
        BY <1>4, <1>6, <2>1, HeadTailProperties
      <3> QED
        BY <3>1, EmptySeq
    <2> QED
      BY <1>2, <2>1, <2>2, <2>3
  <1>7. /\ packet_queue' = <<>>
        /\ \/ Iterated(t)
           \/ /\ packet_queue # <<>>
              /\ Goto(t, [at |-> "update", packet |-> p]) /\ ran' = ran
    BY <1>5, <1>6 DEF CaptureGet
  <1>8. /\ ThreadsOK' /\ Running("capture")' = {t}
        /\ \A kind : kind # "capture" => Same(kind)
        /\ InHand' \subseteq InHand /\ Taken(t)' = 1
    <2>1. CASE Iterated(t)
      <3>1. StateOK(t, Top)
        BY <1>1 DEF StateOK, CaptureStates
      <3>2. /\ ThreadsOK' /\ pc'[t] = Top /\ Running("capture")' = {t}
            /\ \A kind : kind # "capture" => Same(kind)
        BY <1>1, <1>2, <1>3, <2>1, <3>1, GotoThreads DEF Calm, Iterated
      <3>3. Len(packet_queue') = 0 /\ pc'[t].at = "top"
        BY <1>7, <3>2 DEF Top
      <3>4. InHand' = {}
        BY <3>2, <3>3 DEF InHand
      <3>5. Taken(t)' = 1
        BY <2>1 DEF Taken, Iterated
      <3> QED
        BY <3>2, <3>4, <3>5
    <2>2. CASE packet_queue # <<>> /\ Goto(t, [at |-> "update", packet |-> p]) /\ ran' = ran
      <3>1. StateOK(t, [at |-> "update", packet |-> p])
        BY <1>1, <1>6, <2>2 DEF StateOK, CaptureStates
      <3>2. /\ ThreadsOK' /\ pc'[t] = [at |-> "update", packet |-> p]
            /\ Running("capture")' = {t}
            /\ \A kind : kind # "capture" => Same(kind)
        BY <1>1, <1>2, <1>3, <2>2, <3>1, GotoThreads DEF Calm
      <3>3. Len(packet_queue') = 0 /\ pc'[t].at = "update" /\ pc'[t].packet = p
        BY <1>7, <3>2
      <3>4. InHand' = {p.chunk}
        BY <3>2, <3>3 DEF InHand
      <3>5. Taken(t)' = 1
        BY <3>3 DEF Taken
      <3> QED
        BY <1>6, <2>2, <3>2, <3>4, <3>5
    <2> QED
      BY <1>7, <2>1, <2>2
  <1>9. Calm'
    BY <1>1, <1>2, <1>3, <1>7, <1>8, CaptureKeeps
  <1> QED
    BY <1>9

\* update_peer changes one entry of the table.
LEMMA UpdateOf ==
    ASSUME NEW mac, NEW stream, UpdatePeer(mac, stream)
    PROVE  /\ DOMAIN peers' = DOMAIN peers \cup {mac}
           /\ peers'[mac] = [stream |-> stream, age |-> 0]
           /\ \A m \in DOMAIN peers : m # mac => peers'[m] = peers[m]
           /\ peers' = [m \in DOMAIN peers' |-> peers'[m]]
  BY DEF UpdatePeer

\* The chunk joins the stream of its source.
LEMMA CaptureUpdateStep ==
    ASSUME Timing, Calm, NEW t \in DOMAIN pc, CaptureUpdate(t)
    PROVE  Calm'
  <1>1. t[1] = "capture" /\ pc[t].at = "update"
    BY KindOf DEF CaptureUpdate, At, Calm
  <1>2. PICK x : x = pc[t].packet.chunk
    OBVIOUS
  <1>3. PICK mac : mac = x.of.key
    OBVIOUS
  <1>4. /\ Running("capture") = {t} /\ disc_active /\ t \notin ran
        /\ packet_queue = <<>> /\ InHand = {x} /\ x \in Chunk /\ mac \in Interface
        /\ pc[t].packet.header.src_mac = mac
    <2>1. /\ Running("capture") = {t} /\ disc_active /\ t \notin ran
          /\ packet_queue = <<>> /\ InHand = {x} /\ pc[t].packet \in Packet
      BY <1>1, <1>2, Capturer
    <2> QED
      BY <1>2, <1>3, <2>1 DEF Packet, Chunk, Message
  <1>5. UNCHANGED <<pub_active, disc_active, control, closed, answer, used, buffer,
                    packet_queue, publish_entries, packets>>
    BY DEF CaptureUpdate, pvars
  <1>6. PICK old : old = StreamOf(mac)
    OBVIOUS
  <1>7. PICK new : new = Append(old, x)
    OBVIOUS
  <1>8. UpdatePeer(mac, new) /\ Iterated(t)
    BY <1>2, <1>4, <1>6, <1>7 DEF CaptureUpdate
  <1>9. /\ DOMAIN peers' = DOMAIN peers \cup {mac}
        /\ peers'[mac] = [stream |-> new, age |-> 0]
        /\ \A m \in DOMAIN peers : m # mac => peers'[m] = peers[m]
        /\ peers' = [m \in DOMAIN peers' |-> peers'[m]]
    BY <1>8, UpdateOf
  <1>10. peers'[mac].stream = new /\ peers'[mac].age = 0
    BY <1>9
  <1>11. old \in Seq(Chunk)
    BY <1>6 DEF StreamOf, Calm, TypesOK
  <1>12. /\ new \in Seq(Chunk) /\ Len(old) \in Nat
         /\ \A i \in 1 .. Len(old) : new[i] = old[i]
         /\ \A i \in 1 .. Len(new) :
               i \in 1 .. Len(old) \/ (i = Len(old) + 1 /\ new[i] = x)
    BY <1>4, <1>7, <1>11
  <1>13. \A i \in 1 .. Len(old) : mac \in DOMAIN peers /\ old = peers[mac].stream
    <2>1. Len(<<>>) = 0
      OBVIOUS
    <2> QED
      BY <1>6, <2>1 DEF StreamOf
  <1>14. \A i \in 1 .. Len(old) : old[i] \in Streamed
    BY <1>13 DEF Streamed
  <1>15. Streamed' \subseteq Streamed \cup {x}
    <2> SUFFICES ASSUME NEW m \in DOMAIN peers', NEW i \in 1 .. Len(peers'[m].stream)
                 PROVE  peers'[m].stream[i] \in Streamed \cup {x}
      BY DEF Streamed
    <2>1. CASE m = mac
      BY <1>10, <1>12, <1>14, <2>1
    <2>2. CASE m # mac
      BY <1>9, <2>2 DEF Streamed
    <2> QED
      BY <2>1, <2>2
  <1>16. StateOK(t, Top)
    BY <1>1 DEF StateOK, CaptureStates
  <1>17. /\ ThreadsOK' /\ pc'[t] = Top /\ Running("capture")' = {t}
         /\ \A kind : kind # "capture" => Same(kind)
    BY <1>1, <1>4, <1>5, <1>8, <1>16, GotoThreads DEF Calm, Iterated
  <1>18. Len(packet_queue') = 0 /\ pc'[t].at = "top"
    BY <1>4, <1>5, <1>17 DEF Top
  <1>19. InHand' = {}
    BY <1>17, <1>18 DEF InHand
  <1>20. Taken(t) = 1 /\ Taken(t)' = 1
    BY <1>1, <1>8 DEF Taken, Iterated
  <1>21. /\ EntrySet' = EntrySet /\ EntriesOK' /\ Sending' = Sending
         /\ WaitingTime' /\ SendingTime'
         /\ Running("send")' = Running("send")
         /\ \A u \in Running("send") : Did(u)' = Did(u)
    BY <1>5, <1>17, OtherDaemon
  <1>22. Buffered' = Buffered
    BY <1>5 DEF Buffered
  <1>23. BufferLength' /\ BufferTime' /\ HandTime'
    BY <1>4, <1>5, <1>17, <1>19, <1>20, <1>21
       DEF Calm, TimeOK, BufferLength, BufferTime, HandTime
  <1>24. WaitingOK'
    BY <1>4, <1>5, <1>15, <1>19, <1>21, <1>22, WaitingKept DEF Calm
  <1>25. OrderOK'
    <2>1. /\ Before(Streamed', InHand' \cup Buffered' \cup Sending')
          /\ Before(InHand', Buffered' \cup Sending') /\ Before(Buffered', Sending')
      BY <1>4, <1>15, <1>19, <1>21, <1>22 DEF Calm, OrderOK, Before
    <2>2. ASSUME NEW m \in DOMAIN peers'
          PROVE  /\ \A i \in 1 .. Len(peers'[m].stream) : peers'[m].stream[i].of.key = m
                 /\ \A i, j \in 1 .. Len(peers'[m].stream) :
                       i < j => Follows(peers'[m].stream[i], peers'[m].stream[j])
      <3>1. CASE m # mac
        BY <1>9, <3>1 DEF Calm, OrderOK
      <3>2. CASE m = mac
        <4>1. \A i \in 1 .. Len(new) : new[i].of.key = mac
          BY <1>3, <1>12, <1>13 DEF Calm, OrderOK
        <4>2. ASSUME NEW i \in 1 .. Len(new), NEW j \in 1 .. Len(new), i < j
              PROVE  Follows(new[i], new[j])
          <5>1. i \in 1 .. Len(old)
            BY <1>12, <4>2
          <5>2. CASE j \in 1 .. Len(old)
            BY <1>12, <1>13, <4>2, <5>1, <5>2 DEF Calm, OrderOK
          <5>3. CASE new[j] = x
            BY <1>4, <1>12, <1>14, <5>1, <5>3 DEF Calm, OrderOK, Before
          <5> QED
            BY <1>12, <5>2, <5>3
        <4> QED
          BY <1>10, <3>2, <4>1, <4>2
      <3> QED
        BY <3>1, <3>2
    <2> QED
      BY <1>5, <2>1, <2>2 DEF Calm, OrderOK, Before, Follows
  <1>26. HandOK' /\ StartOK'
    BY <1>4, <1>5, <1>18 DEF Calm, HandOK, StartOK
  <1>27. TypesOK'
    <2>1. ASSUME NEW m \in DOMAIN peers'
          PROVE  peers'[m] \in [stream : Seq(Chunk), age : 0 .. MaxAge + 1]
      <3>1. CASE m # mac
        BY <1>9, <3>1 DEF Calm, TypesOK
      <3>2. 0 \in 0 .. MaxAge + 1
        BY AltTypes
      <3> QED
        BY <1>9, <1>12, <3>1, <3>2
    <2>2. peers' \in [DOMAIN peers' -> [stream : Seq(Chunk), age : 0 .. MaxAge + 1]]
      BY <1>9, <2>1
    <2> QED
      BY <1>4, <1>5, <1>9, <2>2 DEF Calm, TypesOK
  <1>28. StreamTime'
    <2> SUFFICES ASSUME NEW e \in EntrySet, e.mac \in DOMAIN peers',
                        peers'[e.mac].stream # <<>>
                 PROVE  e.age <= peers'[e.mac].age + Limit
      BY <1>21 DEF StreamTime
    <2>1. CASE e.mac # mac
      BY <1>9, <2>1 DEF Calm, TimeOK, StreamTime
    <2>2. CASE e.mac = mac
      <3>1. e.age <= Limit
        BY <1>3, <1>4, <2>2 DEF Calm, TimeOK, HandTime
      <3> QED
        BY <1>10, <2>2, <3>1, LimitType
    <2> QED
      BY <2>1, <2>2
  <1>29. FlushTime'
    <2> SUFFICES ASSUME NEW f \in Running("flush"), f \in ran, NEW m \in DOMAIN peers',
                        peers'[m].stream # <<>>
                 PROVE  peers'[m].age <= MaxAge
      BY <1>17 DEF FlushTime, Same
    <2>1. CASE m # mac
      BY <1>9, <2>1 DEF Calm, TimeOK, FlushTime
    <2>2. CASE m = mac
      BY <1>10, <2>2, AltTypes
    <2> QED
      BY <2>1, <2>2
  <1> QED
    BY <1>17, <1>21, <1>23, <1>24, <1>25, <1>26, <1>27, <1>28, <1>29 DEF Calm, TimeOK

-----------------------------------------------------------------------------
(* The processing and the flushing threads *)

\* They do not hold an entry, and move no chunk.
LEMMA EraserStep ==
    ASSUME Calm, ThreadsOK', Same("run"), Same("send"), Same("capture"), Emptied, FlushTime',
           used' \in [{"casts", "starts", "faults"} -> Nat],
           DOMAIN peers' \subseteq Interface,
           peers' \in [DOMAIN peers' -> [stream : Seq(Chunk), age : 0 .. MaxAge + 1]],
           UNCHANGED <<pub_active, disc_active, control, closed, answer, buffer,
                       packet_queue, publish_entries, packets>>
    PROVE  Calm'
  <1>1. EntrySet' \subseteq EntrySet /\ EntriesOK'
    BY SameEntries DEF Calm
  <1>2. TypesOK'
    BY DEF Calm, TypesOK
  <1> QED
    BY <1>1, <1>2, QuietStep

\* The streams that are complete are collected.
LEMMA ProcessTopStep ==
    ASSUME Calm, NEW t \in DOMAIN pc, ProcessTop(t)
    PROVE  Calm'
  <1>1. t[1] = "process" /\ disc_active /\ t \notin ran
    BY DEF ProcessTop, AtTop, At, Calm, ThreadsOK
  <1>2. UNCHANGED <<pub_active, disc_active, control, closed, answer, used, buffer,
                    packet_queue, publish_entries, packets, peers, ran>>
    BY <1>1 DEF ProcessTop, pvars
  <1>3. Complete \subseteq Interface
    BY DEF Complete, Calm, TypesOK
  <1>4. Goto(t, Erasing(Complete)) /\ StateOK(t, Erasing(Complete))
    BY <1>1, <1>3 DEF ProcessTop, StateOK, Erasing, ProcessStates
  <1>5. ThreadsOK' /\ \A kind : kind # "process" => Same(kind)
    BY <1>1, <1>2, <1>4, GotoThreads DEF Calm
  <1>6. Emptied
    BY <1>2 DEF Emptied
  <1>7. FlushTime'
    BY <1>5, <1>6, FlushTimeKept DEF Calm, TimeOK
  <1>8. /\ used' \in [{"casts", "starts", "faults"} -> Nat]
        /\ DOMAIN peers' \subseteq Interface
        /\ peers' \in [DOMAIN peers' -> [stream : Seq(Chunk), age : 0 .. MaxAge + 1]]
    BY <1>2 DEF Calm, TypesOK
  <1> QED
    BY <1>2, <1>5, <1>6, <1>7, <1>8, EraserStep

\* One of them is erased.
LEMMA ProcessEraseStep ==
    ASSUME Calm, NEW t \in DOMAIN pc, ProcessErase(t)
    PROVE  Calm'
  <1>1. /\ t[1] = "process" /\ pc[t].at = "erase" /\ t \notin ran
        /\ pc[t].erase_list \subseteq Interface
    BY KindOf DEF ProcessErase, At, Calm, ThreadsOK, Top
  <1>2. UNCHANGED <<pub_active, disc_active, control, closed, answer, used, buffer,
                    packet_queue, publish_entries, packets, ran>>
    BY DEF ProcessErase, pvars
  <1>3. PICK mac \in pc[t].erase_list :
           UpdatePeer(mac, <<>>) /\ Goto(t, Erasing(pc[t].erase_list \ {mac}))
    BY DEF ProcessErase
  <1>4. StateOK(t, Erasing(pc[t].erase_list \ {mac}))
    BY <1>1 DEF StateOK, Erasing, ProcessStates
  <1>5. ThreadsOK' /\ \A kind : kind # "process" => Same(kind)
    BY <1>1, <1>2, <1>3, <1>4, GotoThreads DEF Calm
  <1>6. /\ DOMAIN peers' = DOMAIN peers \cup {mac}
        /\ peers'[mac] = [stream |-> <<>>, age |-> 0]
        /\ \A m \in DOMAIN peers : m # mac => peers'[m] = peers[m]
        /\ peers' = [m \in DOMAIN peers' |-> peers'[m]]
    BY <1>3, UpdateOf
  <1>7. Emptied
    BY <1>6 DEF Emptied
  <1>8. FlushTime'
    BY <1>5, <1>7, FlushTimeKept DEF Calm, TimeOK
  <1>9. ASSUME NEW m \in DOMAIN peers'
        PROVE  peers'[m] \in [stream : Seq(Chunk), age : 0 .. MaxAge + 1]
    <2>1. CASE m # mac
      BY <1>6, <2>1 DEF Calm, TypesOK
    <2>2. CASE m = mac
      <3>1. 0 \in 0 .. MaxAge + 1 /\ <<>> \in Seq(Chunk)
        BY AltTypes
      <3>2. [stream |-> <<>>, age |-> 0] \in [stream : Seq(Chunk), age : 0 .. MaxAge + 1]
        BY <3>1
      <3> QED
        BY <1>6, <2>2, <3>2
    <2> QED
      BY <2>1, <2>2
  <1>10. /\ DOMAIN peers' \subseteq Interface
         /\ used' \in [{"casts", "starts", "faults"} -> Nat]
    BY <1>1, <1>2, <1>6 DEF Calm, TypesOK
  <1>11. peers' \in [DOMAIN peers' -> [stream : Seq(Chunk), age : 0 .. MaxAge + 1]]
    BY <1>6, <1>9
  <1> QED
    BY <1>2, <1>5, <1>7, <1>8, <1>10, <1>11, EraserStep

\* A descriptor is given to organize, or the thread ends.
LEMMA ProcessDeliverStep ==
    ASSUME Calm, NEW t \in DOMAIN pc, ProcessDeliver(t)
    PROVE  Calm'
  <1>1. t[1] = "process" /\ pc[t].at = "deliver"
    BY KindOf DEF ProcessDeliver, At, Calm
  <1>2. UNCHANGED <<pub_active, disc_active, control, closed, answer, buffer,
                    packet_queue, publish_entries, packets, peers>>
    BY DEF ProcessDeliver, pvars
  <1>3. /\ Iterated(t) \/ Ends(t)
        /\ Spend("faults") \/ UNCHANGED used
    BY DEF ProcessDeliver
  <1>4. used' \in [{"casts", "starts", "faults"} -> Nat] /\ used'.starts = used.starts
    BY <1>3, SpendFault DEF Calm
  <1>5. ThreadsOK' /\ \A kind : kind # "process" => Same(kind)
    <2>1. CASE Iterated(t)
      <3>1. StateOK(t, Top)
        BY <1>1 DEF StateOK, ProcessStates
      <3> QED
        BY <1>1, <1>2, <1>4, <2>1, <3>1, GotoThreads DEF Calm, Iterated
    <2>2. CASE Ends(t)
      BY <1>1, <1>2, <1>4, <2>2, EndsThreads DEF Calm
    <2> QED
      BY <1>3, <2>1, <2>2
  <1>6. Emptied
    BY <1>2 DEF Emptied
  <1>7. FlushTime'
    BY <1>5, <1>6, FlushTimeKept DEF Calm, TimeOK
  <1>8. /\ DOMAIN peers' \subseteq Interface
        /\ peers' \in [DOMAIN peers' -> [stream : Seq(Chunk), age : 0 .. MaxAge + 1]]
    BY <1>2 DEF Calm, TypesOK
  <1> QED
    BY <1>2, <1>4, <1>5, <1>6, <1>7, <1>8, EraserStep

\* The streams that are too old are emptied.
LEMMA FlushTopStep ==
    ASSUME Calm, NEW t \in DOMAIN pc, FlushTop(t)
    PROVE  Calm'
  <1>1. t[1] = "flush" /\ disc_active
    BY DEF FlushTop, AtTop, At, Calm, ThreadsOK
  <1>2. UNCHANGED <<pub_active, disc_active, control, closed, answer, used, buffer,
                    packet_queue, publish_entries, packets>>
    BY DEF FlushTop, pvars
  <1>3. peers' = Flushed(MaxAge) /\ Iterated(t)
    BY <1>1 DEF FlushTop
  <1>4. StateOK(t, Top)
    BY <1>1 DEF StateOK
  <1>5. ThreadsOK' /\ \A kind : kind # "flush" => Same(kind)
    BY <1>1, <1>2, <1>3, <1>4, GotoThreads DEF Calm, Iterated
  <1>6. /\ DOMAIN peers' = DOMAIN peers
        /\ \A m \in DOMAIN peers : peers[m] \in [stream : Seq(Chunk), age : 0 .. MaxAge + 1]
    BY <1>3 DEF Flushed, Calm, TypesOK
  <1>7. ASSUME NEW m \in DOMAIN peers
        PROVE  /\ peers'[m] \in [stream : Seq(Chunk), age : 0 .. MaxAge + 1]
               /\ peers'[m] = peers[m] \/ peers'[m].stream = <<>>
               /\ peers'[m].stream # <<>> => peers'[m].age <= MaxAge
    <2>1. peers'[m] = IF peers[m].age > MaxAge THEN [peers[m] EXCEPT !.stream = <<>>]
                      ELSE peers[m]
      BY <1>3 DEF Flushed
    <2>2. CASE peers[m].age > MaxAge
      <3>1. PICK r \in [stream : Seq(Chunk), age : 0 .. MaxAge + 1] : r = peers[m]
        BY <1>6
      <3>2. peers'[m] = [stream |-> <<>>, age |-> r.age]
        BY <2>1, <2>2, <3>1
      <3>3. <<>> \in Seq(Chunk) /\ r.age \in 0 .. MaxAge + 1
        OBVIOUS
      <3> QED
        BY <3>2, <3>3
    <2>3. CASE ~(peers[m].age > MaxAge)
      <3>1. peers'[m] = peers[m]
        BY <2>1, <2>3
      <3>2. peers[m].age \in Nat /\ MaxAge \in Nat
        BY <1>6, AltTypes
      <3> QED
        BY <1>6, <2>3, <3>1, <3>2
    <2> QED
      BY <2>2, <2>3
  <1>8. Emptied
    BY <1>6, <1>7 DEF Emptied
  <1>9. FlushTime'
    BY <1>6, <1>7 DEF FlushTime
  <1>10. /\ DOMAIN peers' \subseteq Interface
         /\ used' \in [{"casts", "starts", "faults"} -> Nat]
    BY <1>2, <1>6 DEF Calm, TypesOK
  <1>11. peers' \in [DOMAIN peers' -> [stream : Seq(Chunk), age : 0 .. MaxAge + 1]]
    BY <1>3, <1>6, <1>7 DEF Flushed
  <1> QED
    BY <1>2, <1>5, <1>8, <1>9, <1>10, <1>11, EraserStep

-----------------------------------------------------------------------------
(* The daemons are started *)

\* setup() makes an entry for each address that belongs to an interface, up to
\* the first that does not.
LEMMA EntriesType ==
    ASSUME NEW ips \in StartLists, used.starts \in Nat
    PROVE  /\ Entries(ips) \in Seq(Entry)
           /\ \A i \in 1 .. Len(Entries(ips)) :
                 /\ i \in DOMAIN ips
                 /\ GetIp[Entries(ips)[i].mac] = ips[i]
  <1>1. ips \in Seq(Ip) /\ Len(ips) \in Nat /\ DOMAIN ips = 1 .. Len(ips)
    BY AltTypes
  <1>2. PICK I : I = {i \in 1 .. Len(ips) : InterfaceNames(ips[i]) = {}}
    OBVIOUS
  <1>3. PICK bad : bad = IF I # {} THEN Min(I) ELSE 0
    OBVIOUS
  <1>4. bad = SelectInSeq(ips, LAMBDA ip : InterfaceNames(ip) = {})
    BY <1>2, <1>3 DEF SelectInSeq
  <1>5. PICK n : n = IF bad = 0 THEN Len(ips) ELSE bad - 1
    OBVIOUS
  <1>6. n \in Nat /\ \A i \in 1 .. n : i \in 1 .. Len(ips) /\ InterfaceNames(ips[i]) # {}
    <2>1. CASE I = {}
      BY <1>1, <1>2, <1>3, <1>5, <2>1
    <2>2. CASE I # {}
      <3>1. I \subseteq Nat
        BY <1>2
      <3>2. bad \in I /\ \A y \in I : bad <= y
        BY <1>3, <2>2, <3>1, MinIsLeast
      <3>3. bad \in 1 .. Len(ips)
        BY <1>2, <3>2
      <3>4. n = bad - 1
        BY <1>5, <3>3
      <3>5. ASSUME NEW i \in 1 .. n PROVE i \in 1 .. Len(ips) /\ i \notin I
        BY <1>1, <3>2, <3>3, <3>4
      <3> QED
        BY <1>2, <3>3, <3>4, <3>5
    <2> QED
      BY <2>1, <2>2
  <1>7. PICK es : es = Entries(ips)
    OBVIOUS
  <1>8. es = [i \in 1 .. n |->
                [ip |-> ips[i], mac |-> CHOOSE m \in InterfaceNames(ips[i]) : TRUE,
                 sock |-> <<used.starts, i>>, age |-> Interval + 1, n |-> 0]]
    BY <1>4, <1>5, <1>7 DEF Entries
  <1>9. ASSUME NEW i \in 1 .. n
        PROVE  es[i] \in Entry /\ GetIp[es[i].mac] = ips[i]
    <2>1. PICK m : m = CHOOSE x \in InterfaceNames(ips[i]) : TRUE
      OBVIOUS
    <2>2. m \in Interface /\ GetIp[m] = ips[i]
      BY <1>6, <2>1 DEF InterfaceNames
    <2>3. es[i] = [ip |-> ips[i], mac |-> m, sock |-> <<used.starts, i>>,
                   age |-> Interval + 1, n |-> 0]
      BY <1>8, <2>1
    <2>4. ips[i] \in Ip /\ <<used.starts, i>> \in Socket
      BY <1>1, <1>6 DEF Socket
    <2>5. Interval + 1 \in 0 .. Interval + 1
      BY AltTypes
    <2> QED
      BY <2>2, <2>3, <2>4, <2>5 DEF Entry
  <1>10. es \in [1 .. n -> Entry]
    BY <1>8, <1>9
  <1>11. es \in Seq(Entry) /\ Len(es) = n
    BY <1>6, <1>10
  <1> QED
    BY <1>1, <1>6, <1>7, <1>9, <1>11

\* No two of the entries are of one interface.
LEMMA EntriesDiffer ==
    ASSUME Timing, NEW ips \in StartLists, used.starts \in Nat,
           NEW i \in 1 .. Len(Entries(ips)), NEW j \in 1 .. Len(Entries(ips)),
           Entries(ips)[i].mac = Entries(ips)[j].mac
    PROVE  i = j
  <1>1. i \in DOMAIN ips /\ j \in DOMAIN ips /\ ips[i] = ips[j]
    BY EntriesType
  <1> QED
    BY <1>1 DEF Timing

\* New threads of a daemon that had none.
LEMMA BeginThreads ==
    ASSUME ThreadsOK, NEW new, Begin(new), ran' = ran,
           used.starts \in Nat, used'.starts = used.starts + 1,
           \A t \in new : t \in Kinds \X Nat /\ t[2] = used.starts,
           \A t \in new, u \in DOMAIN pc : t[1] # u[1],
           pub_active => pub_active', disc_active => disc_active',
           \A t \in new : t[1] \in {"run", "send"} => pub_active',
           \A t \in new : t[1] \in {"capture", "process", "flush"} => disc_active',
           pub_active' => pub_active \/ <<"send", used.starts>> \in new,
           disc_active' => \/ disc_active
                           \/ {<<"capture", used.starts>>, <<"flush", used.starts>>}
                                  \subseteq new
    PROVE  /\ ThreadsOK'
           /\ \A t \in new : pc'[t] = Top
           /\ DOMAIN pc' = DOMAIN pc \cup new
           /\ \A kind : (\A t \in new : t[1] # kind) => Same(kind)
  <1>1. DOMAIN pc' = DOMAIN pc \cup new /\ \A t \in new : pc'[t] = Top
    BY DEF Begin
  <1>2. \A t \in DOMAIN pc : t \notin new /\ pc'[t] = pc[t]
    BY DEF Begin
  <1>3. ASSUME NEW kind, \A t \in new : t[1] # kind PROVE Same(kind)
    BY <1>1, <1>2, <1>3 DEF Same, Running
  <1>4. \A t \in new : StateOK(t, Top)
    BY DEF StateOK, RunStates, SendStates, CaptureStates, ProcessStates
  <1>5. ASSUME NEW t \in DOMAIN pc'
        PROVE  /\ t \in Kinds \X Nat /\ t[2] < used'.starts
               /\ StateOK(t, pc'[t])
               /\ t[1] \in {"run", "send"} => pub_active'
               /\ t[1] \in {"capture", "process", "flush"} => disc_active'
    <2>1. CASE t \in new
      BY <1>1, <1>4, <2>1
    <2>2. CASE t \in DOMAIN pc
      <3>1. t \in Kinds \X Nat /\ t[2] < used.starts /\ StateOK(t, pc[t])
        BY <2>2 DEF ThreadsOK
      <3>2. t[2] \in Nat
        BY <3>1
      <3>3. t[2] < used.starts + 1
        BY <3>1, <3>2
      <3> QED
        BY <1>2, <2>2, <3>1, <3>3 DEF ThreadsOK
    <2> QED
      BY <1>1, <2>1, <2>2
  <1>6. ASSUME NEW t \in DOMAIN pc', NEW u \in DOMAIN pc', u[1] = t[1] PROVE u = t
    <2>1. CASE t \in new /\ u \in new
      <3>1. t = <<t[1], t[2]>> /\ u = <<u[1], u[2]>>
        BY <2>1
      <3> QED
        BY <1>6, <2>1, <3>1
    <2>2. CASE t \in DOMAIN pc /\ u \in DOMAIN pc
      BY <1>6, <2>2 DEF ThreadsOK
    <2> QED
      BY <1>1, <1>6, <2>1, <2>2
  <1>7. pub_active' => Running("send")' # {}
    BY <1>1 DEF Running, ThreadsOK
  <1>8. disc_active' => Running("capture")' # {} /\ Running("flush")' # {}
    BY <1>1 DEF Running, ThreadsOK
  <1>9. ran' \subseteq DOMAIN pc' /\ \A t \in ran' : t[1] # "send" => pc'[t] = Top
    BY <1>1, <1>2 DEF ThreadsOK
  <1>10. ThreadsOK'
    BY <1>5, <1>6, <1>7, <1>8, <1>9 DEF ThreadsOK
  <1> QED
    BY <1>1, <1>3, <1>10

\* A stream of which nothing is in the table is empty.
LEMMA NoStreams ==
    ASSUME TypesOK, Streamed = {}, NEW mac \in DOMAIN peers
    PROVE  peers[mac].stream = <<>> /\ Len(peers[mac].stream) = 0
  <1>1. peers[mac].stream \in Seq(Chunk)
    BY DEF TypesOK
  <1>2. ASSUME NEW i \in 1 .. Len(peers[mac].stream) PROVE FALSE
    <2>1. peers[mac].stream[i] \in Streamed
      BY DEF Streamed
    <2> QED
      BY <2>1
  <1>3. ASSUME peers[mac].stream # <<>> PROVE FALSE
    <2>1. 1 \in 1 .. Len(peers[mac].stream)
      BY <1>1, <1>3
    <2> QED
      BY <1>2, <2>1
  <1> QED
    BY <1>3

\* publish_alt is started: its entries are due, and nothing is under way.
LEMMA PubStartStep ==
    ASSUME Timing, Calm, ~pub_active, publish_entries = <<>>,
           NEW ips \in StartLists, PubStart(ips)
    PROVE  Calm'
  <1>1. UNCHANGED <<control, packets, closed, disc_active, buffer, packet_queue, peers,
                    answer, ran>>
    BY DEF PubStart, dvars
  <1>2. /\ used \in [{"casts", "starts", "faults"} -> Nat] /\ used.starts \in Nat
        /\ used' = [used EXCEPT !["starts"] = @ + 1]
    BY DEF Calm, TypesOK, PubStart, Spend
  <1>3. /\ used' \in [{"casts", "starts", "faults"} -> Nat]
        /\ used'.starts = used.starts + 1
    BY <1>2
  <1>4. PICK es : es = Entries(ips)
    OBVIOUS
  <1>5. /\ es \in Seq(Entry)
        /\ \A i, j \in 1 .. Len(es) : es[i].mac = es[j].mac => i = j
    <2>1. es \in Seq(Entry)
      BY <1>2, <1>4, EntriesType
    <2>2. ASSUME NEW i \in 1 .. Len(es), NEW j \in 1 .. Len(es), es[i].mac = es[j].mac
          PROVE  i = j
      BY <1>2, <1>4, <2>2, EntriesDiffer
    <2> QED
      BY <2>1, <2>2
  <1>6. publish_entries' = es
    <2>1. publish_entries' = <<>> \o es
      BY <1>4 DEF PubStart
    <2> QED
      BY <1>5, <2>1, ConcatEmptySeq
  <1>7. \A t \in DOMAIN pc : t[1] # "run" /\ t[1] # "send"
    BY DEF Calm, ThreadsOK
  <1>8. Running("run") = {} /\ Running("send") = {}
    BY <1>7 DEF Running
  <1>9. Sending = {}
    BY <1>8 DEF Sending
  <1>10. /\ packets = <<>> /\ buffer = <<>> /\ InHand = {} /\ Streamed = {}
         /\ Len(packets) = 0 /\ Len(buffer) = 0
    BY DEF Calm, StartOK
  <1>11. /\ ThreadsOK' /\ pub_active' \in BOOLEAN
         /\ \A t \in Running("run")' \cup Running("send")' : pc'[t] = Top
         /\ \A kind : kind # "run" /\ kind # "send" => Same(kind)
    <2> DEFINE new == {<<"send", used.starts>>, <<"run", used.starts>>}
    <2>1. CASE pub_active' = TRUE /\ Begin(new)
      <3>1. \A t \in new : t \in Kinds \X Nat /\ t[2] = used.starts
                           /\ t[1] \in {"run", "send"}
        BY <1>2 DEF Kinds
      <3>2. <<"send", used.starts>> \in new
        OBVIOUS
      <3> HIDE DEF new
      <3>3. \A t \in new, u \in DOMAIN pc : t[1] # u[1]
        BY <1>7, <3>1
      <3>4. \A t \in new : t[1] \notin {"capture", "process", "flush"}
        BY <3>1
      <3>5. /\ ThreadsOK' /\ \A t \in new : pc'[t] = Top
            /\ DOMAIN pc' = DOMAIN pc \cup new
            /\ \A kind : (\A t \in new : t[1] # kind) => Same(kind)
        BY <1>1, <1>2, <1>3, <2>1, <3>1, <3>2, <3>3, <3>4, BeginThreads DEF Calm
      <3>6. \A t \in Running("run")' \cup Running("send")' : pc'[t] = Top
        BY <1>7, <3>5 DEF Running
      <3>7. \A kind : kind # "run" /\ kind # "send" => Same(kind)
        BY <3>1, <3>5
      <3> QED
        BY <2>1, <3>5, <3>6, <3>7
    <2>2. CASE pub_active' = FALSE /\ pc' = pc
      <3>1. \A kind : Same(kind)
        BY <1>1, <2>2 DEF Same, Running
      <3>2. Running("run")' = {} /\ Running("send")' = {}
        BY <1>8, <3>1 DEF Same
      <3>3. \A t \in DOMAIN pc : t[2] < used'.starts
        <4> SUFFICES ASSUME NEW t \in DOMAIN pc PROVE t[2] < used'.starts
          OBVIOUS
        <4>1. t[2] < used.starts /\ t[2] \in Nat
          BY DEF Calm, ThreadsOK
        <4> QED
          BY <1>2, <1>3, <4>1
      <3>4. ThreadsOK'
        BY <1>1, <2>2, <3>3 DEF Calm, ThreadsOK, Running
      <3> QED
        BY <2>2, <3>1, <3>2, <3>4
    <2> QED
      BY <2>1, <2>2 DEF PubStart
  <1>12. Held' = {} /\ Sending' = {}
    BY <1>11 DEF Held, Sending, Top
  <1>13. EntriesOK'
    BY <1>5, <1>6, <1>12 DEF EntriesOK
  <1>14. InHand' = InHand /\ HandOK'
    BY <1>1, <1>11, SameCapture DEF Calm
  <1>15. Streamed' = Streamed /\ Buffered' = Buffered /\ Emptied
    BY <1>1 DEF Streamed, Buffered, Emptied
  <1>16. TypesOK'
    BY <1>1, <1>3, <1>5, <1>6, <1>11 DEF Calm, TypesOK
  <1>17. WaitingOK' /\ WaitingTime'
    BY <1>1, <1>10 DEF WaitingOK, WaitingTime
  <1>18. OrderOK'
    BY <1>1, <1>9, <1>12, <1>14, <1>15, OrderKept DEF Calm
  <1>19. StartOK'
    BY <1>1, <1>10, <1>14, <1>15 DEF Calm, StartOK
  <1>20. SendingTime'
    BY <1>11 DEF SendingTime, Top
  <1>21. BufferLength'
    BY <1>1, <1>10 DEF BufferLength, Taken, Did
  <1>22. BufferTime' /\ HandTime'
    BY <1>1, <1>10, <1>14 DEF BufferTime, HandTime
  <1>23. StreamTime'
    BY <1>1, <1>10, NoStreams DEF StreamTime, Calm
  <1>24. FlushTime'
    BY <1>11, <1>15, FlushTimeKept DEF Calm, TimeOK
  <1> QED
    BY <1>11, <1>13, <1>14, <1>16, <1>17, <1>18, <1>19, <1>20, <1>21, <1>22, <1>23,
       <1>24 DEF Calm, TimeOK

\* discover_alt is started, before a packet has arrived.
LEMMA DiscStartStep ==
    ASSUME Calm, ~disc_active, buffer = <<>>, DiscStart
    PROVE  Calm'
  <1>1. /\ UNCHANGED <<pub_active, control, publish_entries, packets, closed, buffer,
                       packet_queue, peers, answer, ran>>
        /\ disc_active' = TRUE
    BY DEF DiscStart, pvars
  <1>2. /\ used \in [{"casts", "starts", "faults"} -> Nat] /\ used.starts \in Nat
        /\ used' = [used EXCEPT !["starts"] = @ + 1]
    BY DEF Calm, TypesOK, DiscStart, Spend
  <1>3. /\ used' \in [{"casts", "starts", "faults"} -> Nat]
        /\ used'.starts = used.starts + 1
    BY <1>2
  <1>4. \A t \in DOMAIN pc : t[1] # "capture" /\ t[1] # "process" /\ t[1] # "flush"
    BY DEF Calm, ThreadsOK
  <1>5. Running("capture") = {}
    BY <1>4 DEF Running
  <1>6. packet_queue = <<>> /\ InHand = {} /\ Streamed = {} /\ Len(buffer) = 0
    BY <1>5 DEF Calm, HandOK, StartOK
  <1> DEFINE new == {<<kind, used.starts>> : kind \in {"capture", "process", "flush"}}
  <1>7. \A t \in new : t \in Kinds \X Nat /\ t[2] = used.starts
                       /\ t[1] \in {"capture", "process", "flush"}
    BY <1>2 DEF Kinds
  <1>8. {<<"capture", used.starts>>, <<"flush", used.starts>>} \subseteq new
    OBVIOUS
  <1>9. Begin(new)
    BY DEF DiscStart
  <1> HIDE DEF new
  <1>10. \A t \in new, u \in DOMAIN pc : t[1] # u[1]
    BY <1>4, <1>7
  <1>11. \A t \in new : t[1] \notin {"run", "send"}
    BY <1>7
  <1>12. /\ ThreadsOK' /\ \A t \in new : pc'[t] = Top
         /\ DOMAIN pc' = DOMAIN pc \cup new
         /\ \A kind : (\A t \in new : t[1] # kind) => Same(kind)
    BY <1>1, <1>2, <1>3, <1>7, <1>8, <1>9, <1>10, <1>11, BeginThreads DEF Calm
  <1>13. Same("run") /\ Same("send")
    BY <1>7, <1>12
  <1>14. \A t \in Running("capture")' : pc'[t] = Top
    BY <1>4, <1>12 DEF Running
  <1>15. InHand' = {}
    BY <1>1, <1>6, <1>14 DEF InHand, Top
  <1>16. Streamed' = {} /\ Buffered' = {}
    <2>1. Streamed' = Streamed
      BY <1>1 DEF Streamed
    <2>2. Len(buffer') = 0
      BY <1>1, <1>6
    <2>3. Buffered' = {}
      BY <2>2 DEF Buffered
    <2> QED
      BY <1>6, <2>1, <2>3
  <1>17. EntrySet' = EntrySet /\ EntriesOK'
    BY <1>1, <1>13, SameEntries DEF Calm
  <1>18. Sending' = Sending
    BY <1>13, SameSend
  <1>19. WaitingTime' /\ SendingTime'
    BY <1>1, <1>13, <1>17, SendTimesKept DEF Calm, TimeOK
  <1>20. WaitingOK'
    BY <1>1, <1>15, <1>16, <1>18, WaitingKept DEF Calm
  <1>21. OrderOK'
    <2>1. \A mac \in DOMAIN peers : Len(peers[mac].stream) = 0
      BY <1>6, NoStreams DEF Calm
    <2> QED
      BY <1>1, <1>6, <1>15, <1>16, <2>1 DEF OrderOK, Before
  <1>22. HandOK' /\ StartOK' /\ TypesOK'
    BY <1>1, <1>3, <1>6, <1>15, <1>16 DEF Calm, HandOK, StartOK, TypesOK
  <1>23. BufferLength' /\ BufferTime'
    BY <1>1, <1>6 DEF BufferLength, BufferTime, Taken, Did
  <1>24. HandTime'
    BY <1>15 DEF HandTime
  <1>25. StreamTime' /\ FlushTime'
    BY <1>1, <1>6, NoStreams DEF StreamTime, FlushTime, Calm
  <1> QED
    BY <1>12, <1>17, <1>19, <1>20, <1>21, <1>22, <1>23, <1>24, <1>25 DEF Calm, TimeOK

-----------------------------------------------------------------------------
(* Time passes *)

\* When every thread has run, those that do not send sleep.
LEMMA AllAsleep ==
    ASSUME Calm, Tick
    PROVE  /\ \A t \in DOMAIN pc : t \in ran /\ (t[1] # "send" => pc[t] = Top)
           /\ DOMAIN pc' = DOMAIN pc /\ \A t \in DOMAIN pc : pc'[t] = pc[t]
           /\ \A kind : Running(kind)' = Running(kind)
           /\ packet_queue = <<>> /\ InHand = {} /\ Held = {}
           /\ ran' = {}
           /\ UNCHANGED <<pub_active, disc_active, control, closed, answer, used,
                          buffer, packet_queue, packets>>
  <1>1. \A t \in DOMAIN pc : t \in ran /\ (t[1] # "send" => pc[t] = Top)
    BY DEF Tick, Calm, ThreadsOK
  <1>2. \A t \in DOMAIN pc : pc[t].at # "entry" /\ pc[t].at # "get" /\ pc[t].at # "update"
    <2> SUFFICES ASSUME NEW t \in DOMAIN pc
                 PROVE  pc[t].at # "entry" /\ pc[t].at # "get" /\ pc[t].at # "update"
      OBVIOUS
    <2>1. CASE t[1] = "send"
      BY <2>1, KindOf DEF Calm
    <2>2. CASE t[1] # "send"
      BY <1>1, <2>2 DEF Top
    <2> QED
      BY <2>1, <2>2
  <1>3. pc' = [t \in DOMAIN pc |-> pc[t]]
    BY <1>2 DEF Tick
  <1>4. \A kind : Running(kind)' = Running(kind)
    BY <1>3 DEF Running
  <1>5. packet_queue = <<>>
    BY <1>2 DEF Calm, HandOK, Running
  <1>6. InHand = {}
    <2>1. Len(packet_queue) = 0
      BY <1>5
    <2> QED
      BY <1>2, <2>1 DEF InHand, Running
  <1>7. Held = {}
    BY <1>2 DEF Held, Running
  <1> QED
    BY <1>1, <1>3, <1>4, <1>5, <1>6, <1>7 DEF Tick

\* The entries are older.
LEMMA OlderEntries ==
    ASSUME publish_entries \in Seq(Entry),
           publish_entries' = [i \in DOMAIN publish_entries |->
               [publish_entries[i] EXCEPT !.age = Older(@, Interval)]]
    PROVE  /\ publish_entries' \in Seq(Entry) /\ Len(publish_entries') = Len(publish_entries)
           /\ \A i \in 1 .. Len(publish_entries) :
                 /\ publish_entries'[i].mac = publish_entries[i].mac
                 /\ publish_entries'[i].age <= publish_entries[i].age + 1
  <1>1. PICK n \in Nat : n = Len(publish_entries) /\ DOMAIN publish_entries = 1 .. n
    OBVIOUS
  <1>2. ASSUME NEW i \in 1 .. n
        PROVE  /\ publish_entries'[i] \in Entry
               /\ publish_entries'[i].mac = publish_entries[i].mac
               /\ publish_entries'[i].age <= publish_entries[i].age + 1
    <2>1. PICK e \in Entry : e = publish_entries[i]
      BY <1>1
    <2>2. e.age \in 0 .. Interval + 1 /\ Interval \in Nat /\ e.age \in Nat
      BY AltTypes DEF Entry
    <2>3. PICK a : a = Older(e.age, Interval)
      OBVIOUS
    <2>4. a \in 0 .. Interval + 1 /\ a <= e.age + 1
      BY <2>2, <2>3 DEF Older
    <2>5. publish_entries'[i] = [e EXCEPT !.age = a]
      BY <1>1, <2>1, <2>3
    <2>6. [e EXCEPT !.age = a] = [ip |-> e.ip, mac |-> e.mac, sock |-> e.sock,
                                  age |-> a, n |-> e.n]
      BY DEF Entry
    <2>7. /\ e.ip \in Ip /\ e.mac \in Interface /\ e.sock \in Socket /\ e.n \in Nat
      BY DEF Entry
    <2>8. PICK b : b = [ip |-> e.ip, mac |-> e.mac, sock |-> e.sock, age |-> a, n |-> e.n]
      OBVIOUS
    <2>9. b \in Entry /\ b.mac = e.mac /\ b.age = a
      BY <2>4, <2>7, <2>8 DEF Entry
    <2> QED
      BY <2>1, <2>4, <2>5, <2>6, <2>8, <2>9
  <1>3. publish_entries' \in [1 .. n -> Entry]
    BY <1>1, <1>2
  <1>4. publish_entries' \in Seq(Entry) /\ Len(publish_entries') = n
    BY <1>3
  <1> QED
    BY <1>1, <1>2, <1>4

\* The streams are older, and none that is in use is too old already.
LEMMA OlderStreams ==
    ASSUME Calm, Tick
    PROVE  /\ DOMAIN peers' = DOMAIN peers
           /\ peers' \in [DOMAIN peers' -> [stream : Seq(Chunk), age : 0 .. MaxAge + 1]]
           /\ \A m \in DOMAIN peers :
                 /\ peers'[m].stream = peers[m].stream
                 /\ peers[m].stream # <<>> => peers'[m].age = peers[m].age + 1
  <1>1. peers' = [m \in DOMAIN peers |-> [peers[m] EXCEPT !.age = Older(@, MaxAge)]]
    BY DEF Tick
  <1>2. ASSUME NEW m \in DOMAIN peers
        PROVE  /\ peers'[m] \in [stream : Seq(Chunk), age : 0 .. MaxAge + 1]
               /\ peers'[m].stream = peers[m].stream
               /\ peers[m].stream # <<>> => peers'[m].age = peers[m].age + 1
    <2>1. PICK r \in [stream : Seq(Chunk), age : 0 .. MaxAge + 1] : r = peers[m]
      BY DEF Calm, TypesOK
    <2>2. PICK a : a = Older(r.age, MaxAge)
      OBVIOUS
    <2>3. MaxAge \in Nat /\ r.age \in 0 .. MaxAge + 1 /\ r.age \in Nat
      BY AltTypes
    <2>4. a \in 0 .. MaxAge + 1 /\ (r.age <= MaxAge => a = r.age + 1)
      BY <2>2, <2>3 DEF Older
    <2>5. peers'[m] = [stream |-> r.stream, age |-> a]
      BY <1>1, <2>1, <2>2
    <2>6. ASSUME peers[m].stream # <<>> PROVE r.age <= MaxAge
      <3>1. disc_active
        BY <2>6, NoStreams DEF Calm, StartOK
      <3>2. PICK f \in DOMAIN pc : Running("flush") = {f} /\ f[1] = "flush"
        BY <3>1, TheThread DEF Calm
      <3> QED
        BY <2>1, <2>6, <3>2, AllAsleep DEF Calm, TimeOK, FlushTime
    <2> QED
      BY <2>1, <2>4, <2>5, <2>6
  <1>3. DOMAIN peers' = DOMAIN peers
    BY <1>1
  <1>4. peers' \in [DOMAIN peers' -> [stream : Seq(Chunk), age : 0 .. MaxAge + 1]]
    BY <1>1, <1>2
  <1> QED
    BY <1>2, <1>3, <1>4

\* A tick.  It was time for every thread to run.
LEMMA TickStep ==
    ASSUME Timing, Calm, Tick
    PROVE  Calm'
  <1>1. /\ \A t \in DOMAIN pc : t \in ran /\ (t[1] # "send" => pc[t] = Top)
        /\ DOMAIN pc' = DOMAIN pc /\ \A t \in DOMAIN pc : pc'[t] = pc[t]
        /\ \A kind : Running(kind)' = Running(kind)
        /\ packet_queue = <<>> /\ InHand = {} /\ Held = {}
        /\ ran' = {}
        /\ UNCHANGED <<pub_active, disc_active, control, closed, answer, used,
                       buffer, packet_queue, packets>>
    BY AllAsleep
  <1>2. \A kind : \A t \in Running(kind) : t \in DOMAIN pc /\ t \in ran /\ pc'[t] = pc[t]
    BY <1>1 DEF Running
  <1>3. Held' = {} /\ Sending' = Sending /\ InHand' = {} /\ Buffered' = Buffered
    <2>1. Held' = Held
      BY <1>1, <1>2 DEF Held
    <2>2. Sending' = Sending
      BY <1>1, <1>2 DEF Sending
    <2>3. InHand' = InHand
      BY <1>1, <1>2 DEF InHand
    <2> QED
      BY <1>1, <2>1, <2>2, <2>3 DEF Buffered
  <1>4. ThreadsOK'
    BY <1>1 DEF Calm, ThreadsOK
  <1>5. /\ publish_entries' \in Seq(Entry) /\ Len(publish_entries') = Len(publish_entries)
        /\ \A i \in 1 .. Len(publish_entries) :
              /\ publish_entries'[i].mac = publish_entries[i].mac
              /\ publish_entries'[i].age <= publish_entries[i].age + 1
    BY OlderEntries DEF Tick, Calm, TypesOK
  <1>6. ASSUME NEW e \in EntrySet'
        PROVE  \E a \in EntrySet : a.mac = e.mac /\ e.age <= a.age + 1 /\ e.age \in Nat
    <2>1. PICK i \in 1 .. Len(publish_entries) : e = publish_entries'[i]
      BY <1>3, <1>5 DEF EntrySet, Elems
    <2>2. publish_entries[i] \in EntrySet
      BY DEF EntrySet, Elems
    <2>3. e \in Entry
      BY <1>5, <2>1
    <2>4. e.age \in Nat
      BY <2>3, AltTypes DEF Entry
    <2> QED
      BY <1>5, <2>1, <2>2, <2>4
  <1>7. EntriesOK'
    BY <1>3, <1>5 DEF Calm, EntriesOK
  <1>8. /\ DOMAIN peers' = DOMAIN peers
        /\ peers' \in [DOMAIN peers' -> [stream : Seq(Chunk), age : 0 .. MaxAge + 1]]
        /\ \A m \in DOMAIN peers :
              /\ peers'[m].stream = peers[m].stream
              /\ peers[m].stream # <<>> => peers'[m].age = peers[m].age + 1
    BY OlderStreams
  <1>9. Streamed' = Streamed
    BY <1>8 DEF Streamed
  <1>10. TypesOK'
    BY <1>1, <1>5, <1>8 DEF Calm, TypesOK
  <1>11. WaitingOK'
    BY <1>1, <1>3, <1>9, WaitingKept DEF Calm
  <1>12. OrderOK'
    <2>1. OrderOK
      BY DEF Calm
    <2>2. \A m \in DOMAIN peers : peers'[m].stream = peers[m].stream
      BY <1>8
    <2>3. /\ Before(Streamed, InHand \cup Buffered \cup Sending)'
          /\ Before(InHand, Buffered \cup Sending)'
          /\ Before(Buffered, Sending)'
      BY <1>3, <1>9, <2>1 DEF OrderOK, Before
    <2>4. disc_active' => \A i, j \in 1 .. Len(buffer') :
             i < j => Follows(buffer'[i].chunk, buffer'[j].chunk)
      BY <1>1, <2>1 DEF OrderOK
    <2>5. \A m \in DOMAIN peers' :
             LET stream == peers'[m].stream
             IN  /\ \A i \in 1 .. Len(stream) : stream[i].of.key = m
                 /\ \A i, j \in 1 .. Len(stream) :
                       i < j => Follows(stream[i], stream[j])
      BY <1>8, <2>1, <2>2 DEF OrderOK
    <2> QED
      BY <2>3, <2>4, <2>5 DEF OrderOK, Follows
  <1>13. HandOK'
    BY <1>1 DEF Calm, HandOK
  <1>14. StartOK'
    BY <1>1, <1>3, <1>9 DEF Calm, StartOK
  <1>15. \A t \in Running("send") : Did(t) = 1 /\ Did(t)' = 0 /\ Work(t)' = Work(t)
                                   /\ Work(t) \in Nat
    <2> SUFFICES ASSUME NEW t \in Running("send")
                 PROVE  Did(t) = 1 /\ Did(t)' = 0 /\ Work(t)' = Work(t) /\ Work(t) \in Nat
      OBVIOUS
    <2>1. Did(t) = 1 /\ Did(t)' = 0 /\ Work(t)' = Work(t)
      BY <1>1, <1>2 DEF Did, Work
    <2>2. pc[t].at = "sending" => Len(pc[t].rest) \in Nat
      BY <1>2, KindOf, PartLength DEF Calm
    <2> QED
      BY <2>1, <2>2 DEF Work
  <1>16. \A c \in Running("capture") : Taken(c) = 1 /\ Taken(c)' = 0
    <2> SUFFICES ASSUME NEW c \in Running("capture") PROVE Taken(c) = 1 /\ Taken(c)' = 0
      OBVIOUS
    <2>1. c \in DOMAIN pc /\ c[1] = "capture"
      BY DEF Running
    <2>2. c \in ran /\ pc'[c].at = "top"
      BY <1>1, <2>1 DEF Top
    <2> QED
      BY <1>1, <2>2 DEF Taken
  <1>17. WaitingTime'
    <2> SUFFICES ASSUME NEW t \in Running("send"), NEW e \in EntrySet',
                        NEW q \in 1 .. Len(packets), Key(packets[q]) = e.mac
                 PROVE  e.age + 0 + Work(t) + q * Chunks <= Limit
      BY <1>1, <1>15 DEF WaitingTime, Key
    <2>1. PICK a \in EntrySet : a.mac = e.mac /\ e.age <= a.age + 1 /\ e.age \in Nat
      BY <1>6
    <2>2. a.age + 1 + Work(t) + q * Chunks <= Limit
      BY <1>15, <2>1 DEF Calm, TimeOK, WaitingTime
    <2>3. PICK w \in Nat : w = q * Chunks
      <3>1. q \in Nat /\ Chunks \in Nat
        BY AltTypes
      <3> QED
        BY <3>1, Products
    <2>4. a.age \in Nat /\ Work(t) \in Nat /\ Limit \in Nat
      BY <1>15, EntryTypes, LimitType
    <2> QED
      BY <2>1, <2>2, <2>3, <2>4
  <1>18. SendingTime'
    <2> SUFFICES ASSUME NEW t \in Running("send"), NEW e \in EntrySet',
                        pc[t].at = "sending", Key(pc[t].rest) = e.mac
                 PROVE  e.age + 0 + Work(t) <= Limit
      BY <1>1, <1>2, <1>15 DEF SendingTime, Key
    <2>1. PICK a \in EntrySet : a.mac = e.mac /\ e.age <= a.age + 1 /\ e.age \in Nat
      BY <1>6
    <2>2. a.age + 1 + Work(t) <= Limit
      BY <1>15, <2>1 DEF Calm, TimeOK, SendingTime
    <2>3. a.age \in Nat /\ Work(t) \in Nat /\ Limit \in Nat
      BY <1>15, EntryTypes, LimitType
    <2> QED
      BY <2>1, <2>2, <2>3
  <1>19. BufferLength'
    <2> SUFFICES ASSUME NEW c \in Running("capture"), NEW u \in Running("send")
                 PROVE  Len(buffer) + 0 <= 1 + 0
      BY <1>1, <1>15, <1>16 DEF BufferLength
    <2>1. Len(buffer) + 1 <= 1 + 1
      BY <1>15, <1>16 DEF Calm, TimeOK, BufferLength
    <2>2. Len(buffer) \in Nat
      BY DEF Calm, TypesOK
    <2> QED
      BY <2>1, <2>2
  <1>20. BufferTime'
    <2> SUFFICES ASSUME NEW c \in Running("capture"), NEW e \in EntrySet',
                        NEW i \in 1 .. Len(buffer), buffer[i].chunk.of.key = e.mac
                 PROVE  e.age + i + 0 <= Limit + 1
      BY <1>1, <1>16 DEF BufferTime
    <2>1. PICK a \in EntrySet : a.mac = e.mac /\ e.age <= a.age + 1 /\ e.age \in Nat
      BY <1>6
    <2>2. a.age + i + 1 <= Limit + 1
      BY <1>16, <2>1 DEF Calm, TimeOK, BufferTime
    <2>3. a.age \in Nat /\ i \in Nat /\ Limit \in Nat
      BY EntryTypes, LimitType
    <2> QED
      BY <2>1, <2>2, <2>3
  <1>21. HandTime'
    BY <1>3 DEF HandTime
  <1>22. StreamTime'
    <2> SUFFICES ASSUME NEW e \in EntrySet', e.mac \in DOMAIN peers,
                        peers[e.mac].stream # <<>>
                 PROVE  e.age <= (peers[e.mac].age + 1) + Limit
      BY <1>8 DEF StreamTime
    <2>1. PICK a \in EntrySet : a.mac = e.mac /\ e.age <= a.age + 1 /\ e.age \in Nat
      BY <1>6
    <2>2. a.age <= peers[e.mac].age + Limit
      BY <2>1 DEF Calm, TimeOK, StreamTime
    <2>3. a.age \in Nat /\ Limit \in Nat
      BY EntryTypes, LimitType
    <2>4. peers[e.mac].age \in Nat
      <3>1. peers[e.mac] \in [stream : Seq(Chunk), age : 0 .. MaxAge + 1]
        BY DEF Calm, TypesOK
      <3> QED
        BY <3>1, AltTypes
    <2> QED
      BY <2>1, <2>2, <2>3, <2>4
  <1>23. FlushTime'
    BY <1>1 DEF FlushTime
  <1> QED
    BY <1>4, <1>7, <1>10, <1>11, <1>12, <1>13, <1>14, <1>17, <1>18, <1>19, <1>20,
       <1>21, <1>22, <1>23 DEF Calm, TimeOK

-----------------------------------------------------------------------------
(* The theorems *)

\* Nothing runs before the daemons are started.
LEMMA AInvInit ==
    ASSUME Init
    PROVE  AInv
  <1>1. /\ DOMAIN pc = {} /\ ran = {} /\ pub_active = FALSE /\ disc_active = FALSE
        /\ control = "idle" /\ closed = {} /\ publish_entries = <<>> /\ packets = <<>>
        /\ buffer = <<>> /\ packet_queue = <<>> /\ DOMAIN peers = {}
        /\ peers \in [DOMAIN peers -> [stream : Seq(Chunk), age : 0 .. MaxAge + 1]]
        /\ answer \in Answers /\ disturbed = FALSE
        /\ used \in [{"casts", "starts", "faults"} -> Nat]
    BY DEF Init, PublishInit, DiscoverInit
  <1>2. Len(publish_entries) = 0 /\ Len(packets) = 0 /\ Len(buffer) = 0
        /\ Len(packet_queue) = 0
    BY <1>1
  <1>3. \A kind : Running(kind) = {}
    BY <1>1 DEF Running
  <1>4. Held = {} /\ Sending = {} /\ InHand = {} /\ Buffered = {} /\ Streamed = {}
    BY <1>1, <1>2, <1>3 DEF Held, Sending, InHand, Buffered, Streamed
  <1>5. ThreadsOK
    BY <1>1 DEF ThreadsOK
  <1>6. TypesOK
    <2>1. \A S : <<>> \in Seq(S)
      BY EmptySeq
    <2>2. DOMAIN peers \subseteq Interface
      BY <1>1
    <2> QED
      BY <1>1, <2>1, <2>2 DEF TypesOK
  <1>7. EntriesOK /\ WaitingOK
    BY <1>2, <1>4 DEF EntriesOK, WaitingOK
  <1>8. OrderOK /\ HandOK /\ StartOK
    BY <1>1, <1>2, <1>4 DEF OrderOK, Before, HandOK, StartOK
  <1>9. TimeOK
    BY <1>1, <1>3, <1>4 DEF TimeOK, WaitingTime, SendingTime, BufferLength, BufferTime,
                            HandTime, StreamTime, FlushTime
  <1> QED
    BY <1>1, <1>5, <1>6, <1>7, <1>8, <1>9 DEF AInv, Calm

\* A step of a thread.
LEMMA ThreadSteps ==
    ASSUME Timing, Calm, NEW t \in DOMAIN pc, ThreadStep(t)
    PROVE  Calm'
  <1>1. CASE RunTop(t)
    BY <1>1, RunTopStep
  <1>2. CASE TakeEntry(t)
    BY <1>2, TakeEntryStep
  <1>3. CASE PutBack(t)
    BY <1>3, PutBackStep
  <1>4. CASE Broadcast(t)
    BY <1>4, BroadcastStep
  <1>5. CASE SendTop(t)
    BY <1>5, SendTopStep
  <1>6. CASE SendPacket(t)
    BY <1>6, SendPacketStep
  <1>7. CASE CaptureTop(t)
    BY <1>7, CaptureTopStep
  <1>8. CASE CaptureGet(t)
    BY <1>8, CaptureGetStep
  <1>9. CASE CaptureUpdate(t)
    BY <1>9, CaptureUpdateStep
  <1>10. CASE ProcessTop(t)
    BY <1>10, ProcessTopStep
  <1>11. CASE ProcessErase(t)
    BY <1>11, ProcessEraseStep
  <1>12. CASE ProcessDeliver(t)
    BY <1>12, ProcessDeliverStep
  <1>13. CASE FlushTop(t)
    BY <1>13, FlushTopStep
  <1> QED
    BY <1>1, <1>2, <1>3, <1>4, <1>5, <1>6, <1>7, <1>8, <1>9, <1>10, <1>11, <1>12,
       <1>13 DEF ThreadStep

\* Every step keeps the invariant.
LEMMA AInvNext ==
    ASSUME Timing, AInv, [Next]_vars
    PROVE  AInv'
  <1>1. ASSUME NEW t \in DOMAIN pc, ThreadStep(t) PROVE AInv'
    <2>1. disturbed' = disturbed
      BY <1>1 DEF ThreadStep, RunTop, TakeEntry, PutBack, Broadcast, SendTop, SendPacket,
                  CaptureTop, CaptureGet, CaptureUpdate, ProcessTop, ProcessErase,
                  ProcessDeliver, FlushTop
    <2> QED
      BY <1>1, <2>1, ThreadSteps DEF AInv
  <1>2. ASSUME NEW ips \in StartLists, PubStart(ips) PROVE AInv'
    <2>1. disturbed' = (disturbed \/ pub_active \/ publish_entries # <<>>)
      BY <1>2 DEF PubStart
    <2>2. CASE ~disturbed /\ ~pub_active /\ publish_entries = <<>>
      BY <1>2, <2>1, <2>2, PubStartStep DEF AInv
    <2>3. CASE disturbed \/ pub_active \/ publish_entries # <<>>
      BY <2>1, <2>3 DEF AInv
    <2> QED
      BY <2>2, <2>3
  <1>3. CASE PubStop \/ DiscStop
    BY <1>3 DEF PubStop, DiscStop, AInv
  <1>4. CASE Clear
    <2>1. disturbed' = disturbed /\ control # "idle"
      BY <1>4 DEF Clear, ClearTest, ClearTake, ClearReplace
    <2> QED
      BY <2>1 DEF AInv, Calm, TypesOK
  <1>5. CASE DiscStart
    <2>1. disturbed' = (disturbed \/ disc_active \/ buffer # <<>>)
      BY <1>5 DEF DiscStart
    <2>2. CASE ~disturbed /\ ~disc_active /\ buffer = <<>>
      BY <1>5, <2>1, <2>2, DiscStartStep DEF AInv
    <2>3. CASE disturbed \/ disc_active \/ buffer # <<>>
      BY <2>1, <2>3 DEF AInv
    <2> QED
      BY <2>2, <2>3
  <1>6. CASE Tick
    <2>1. disturbed' = disturbed
      BY <1>6 DEF Tick
    <2> QED
      BY <1>6, <2>1, TickStep DEF AInv
  <1>7. CASE UNCHANGED vars
    <2>1. UNCHANGED <<pub_active, control, publish_entries, packets, closed, disc_active,
                      buffer, packet_queue, peers, pc, answer, ran, disturbed, used>>
      BY <1>7 DEF vars, pvars, dvars
    <2>2. /\ \A kind : Running(kind)' = Running(kind)
          /\ \A t : Did(t)' = Did(t) /\ Taken(t)' = Taken(t) /\ Work(t)' = Work(t)
      BY <2>1 DEF Running, Did, Taken, Work
    <2>3. /\ EntrySet' = EntrySet /\ Held' = Held /\ Sending' = Sending
          /\ Buffered' = Buffered /\ InHand' = InHand /\ Streamed' = Streamed
      BY <2>1 DEF Running, EntrySet, Held, Sending, Buffered, InHand, Streamed
    <2>4. ThreadsOK => ThreadsOK'
      BY <2>1 DEF ThreadsOK, Running
    <2>5. TypesOK => TypesOK'
      BY <2>1 DEF TypesOK
    <2>6. EntriesOK => EntriesOK'
      BY <2>1, <2>3 DEF EntriesOK
    <2>7. WaitingOK => WaitingOK'
      BY <2>1, <2>3 DEF WaitingOK, Key
    <2>8. OrderOK => OrderOK'
      BY <2>1, <2>3 DEF OrderOK
    <2>9. HandOK => HandOK'
      BY <2>1, <2>2 DEF HandOK
    <2>10. StartOK => StartOK'
      BY <2>1, <2>3 DEF StartOK
    <2>11. WaitingTime /\ SendingTime => WaitingTime' /\ SendingTime'
      BY <2>1, <2>2, <2>3 DEF WaitingTime, SendingTime, Key
    <2>12. BufferLength /\ BufferTime => BufferLength' /\ BufferTime'
      BY <2>1, <2>2, <2>3 DEF BufferLength, BufferTime
    <2>13. HandTime /\ StreamTime /\ FlushTime => HandTime' /\ StreamTime' /\ FlushTime'
      BY <2>1, <2>2, <2>3 DEF HandTime, StreamTime, FlushTime
    <2> QED
      BY <2>1, <2>4, <2>5, <2>6, <2>7, <2>8, <2>9, <2>10, <2>11, <2>12, <2>13
         DEF AInv, Calm, TimeOK
  <1> QED
    BY <1>1, <1>2, <1>3, <1>4, <1>5, <1>6, <1>7 DEF Next

\* The chunks of a source that are under way are of one broadcast, in their
\* order, and are gone before the next one is due.
THEOREM TransportInvariance ==
    ASSUME Timing
    PROVE  Spec => []AInv
  <1>1. Init => AInv
    BY AInvInit
  <1>2. AInv /\ [Next]_vars => AInv'
    BY AInvNext
  <1> QED
    BY <1>1, <1>2, PTL DEF Spec

\* What discover_alt has of a source are chunks of one broadcast in their order:
\* decrypt is never given the end of one and the beginning of another, unless a
\* daemon is stopped and started again.
THEOREM OneBroadcast ==
    ASSUME Timing
    PROVE  Spec => []OneStream
  <1>1. AInv => OneStream
    <2> SUFFICES ASSUME AInv, ~disturbed, NEW mac \in DOMAIN peers,
                        NEW i \in DOMAIN peers[mac].stream,
                        NEW j \in DOMAIN peers[mac].stream, i < j
                 PROVE  /\ peers[mac].stream[i].of = peers[mac].stream[j].of
                        /\ peers[mac].stream[i].i < peers[mac].stream[j].i
      BY DEF OneStream
    <2>1. peers[mac].stream \in Seq(Chunk)
      BY DEF AInv, Calm, TypesOK
    <2>2. DOMAIN peers[mac].stream = 1 .. Len(peers[mac].stream)
      BY <2>1
    <2>3. /\ peers[mac].stream[i].of.key = mac /\ peers[mac].stream[j].of.key = mac
          /\ Follows(peers[mac].stream[i], peers[mac].stream[j])
      BY <2>2 DEF AInv, Calm, OrderOK
    <2> QED
      BY <2>3 DEF Follows
  <1> QED
    BY <1>1, TransportInvariance, PTL
=============================================================================
