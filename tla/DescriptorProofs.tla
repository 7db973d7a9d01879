-------------------------- MODULE DescriptorProofs --------------------------
(***************************************************************************)
(* Proofs about Descriptors: the two encodings of a descriptor and the     *)
(* parsers that undo them.                                                 *)
(***************************************************************************)
EXTENDS Descriptors, SequenceLemmas

\* Slices of the packed bytes are the addresses that were packed: the bytes of
\* address n are at (n - 1) * size + 1 to n * size, whatever comes before.
THEOREM UnpackPack ==
    ASSUME NEW size \in {4, 16}, NEW ips \in Seq(Addrs(size)), Pack(ips) # None
    PROVE  Unpack(Pack(ips), size) = ips
  <1> DEFINE B == 0 .. 255
  <1>1. size \in Nat \ {0}
    OBVIOUS
  <1>2. ips \in Seq([1 .. size -> B])
    BY DEF Addrs
  <1> HIDE DEF B
  <1> DEFINE w == FlattenSeq(ips)
             n == Len(ips)
  <1>3. Pack(ips) = w /\ n \in Nat /\ ips = [i \in 1..n |-> ips[i]]
    BY DEF Pack
  <1>4. /\ w \in Seq(B) /\ Len(w) = n * size
        /\ \A i \in 1..n, j \in 1..size : w[(i - 1) * size + j] = ips[i][j]
    <2>1. FlattenSeq(ips) \in Seq(B) /\ Len(FlattenSeq(ips)) = Len(ips) * size
      BY <1>1, <1>2, FlattenSlices
    <2>2. InPlace(FlattenSeq(ips), ips, size)
      BY <1>1, <1>2, FlattenSlices
    <2> QED
      BY <2>1, <2>2 DEF InPlace
  <1> HIDE DEF w, n
  <1>5. Len(w) % size = 0 /\ Len(w) \div size = n
    <2>1. CASE size = 4
      BY <1>3, <1>4, <2>1
    <2>2. CASE size = 16
      BY <1>3, <1>4, <2>2
    <2> QED
      BY <2>1, <2>2
  <1>6. Unpack(w, size) = [i \in 1..n |-> SubSeq(w, (i - 1) * size + 1, i * size)]
    BY <1>3, <1>5 DEF Unpack
  <1>7. ASSUME NEW i \in 1..n
        PROVE  SubSeq(w, (i - 1) * size + 1, i * size) = ips[i]
    <2>1. PICK u : u = (i - 1) * size
      OBVIOUS
    <2>0. i \in Nat /\ i >= 1 /\ i <= n /\ n \in Nat
      BY <1>3
    <2>2. u \in Nat /\ i * size = u + size /\ u + size <= Len(w)
      <3>0. Len(w) = n * size
        BY <1>4
      <3>1. CASE size = 4
        BY <2>0, <2>1, <3>0, <3>1
      <3>2. CASE size = 16
        BY <2>0, <2>1, <3>0, <3>2
      <3> QED
        BY <3>1, <3>2
    <2>3. ips[i] \in Seq(B) /\ Len(ips[i]) = size
      <3>1. ips[i] \in [1 .. size -> B]
        <4>1. ASSUME NEW T, NEW q \in Seq(T) PROVE \A k \in 1..Len(q) : q[k] \in T
          OBVIOUS
        <4> QED
          BY <1>2, <4>1 DEF n
      <3> QED
        BY <3>1
    <2>4. PICK x : x = SubSeq(w, u + 1, u + size)
      OBVIOUS
    <2>5. /\ x \in Seq(B) /\ Len(x) = size
          /\ \A j \in 1..size : x[j] = w[u + j]
      <3>1. u + 1 \in 1..Len(w) + 1 /\ u + size \in 0..Len(w) /\ u + 1 <= u + size + 1
        BY <1>1, <1>4, <2>2
      <3>2. (u + size) - (u + 1) + 1 = size
        BY <1>1, <2>2
      <3>3. \A j \in 1..size : (u + 1) + j - 1 = u + j
        BY <2>2
      <3>4. \A j \in 1..size : u + j \in 1..Len(w)
        BY <1>1, <1>4, <2>2
      <3> QED
        BY <1>1, <1>4, <2>2, <2>4, <3>1, <3>2, <3>3, <3>4
    <2>6. \A j \in 1..size : x[j] = ips[i][j]
      BY <1>4, <2>1, <2>5
    <2>7. x = ips[i]
      BY <2>3, <2>5, <2>6, SeqEqual
    <2> QED
      BY <2>1, <2>2, <2>4, <2>7
  <1>8. [i \in 1..n |-> SubSeq(w, (i - 1) * size + 1, i * size)] = [i \in 1..n |-> ips[i]]
    BY <1>7, Zenon
  <1> QED
    BY <1>3, <1>6, <1>8
\* Addresses take room.
LEMMA PackEmpty ==
    ASSUME NEW size \in {4, 16}, NEW ips \in Seq(Addrs(size))
    PROVE  Pack(ips) = <<>> <=> ips = <<>>
  <1>1. CASE ips = <<>>
    BY <1>1 DEF Pack, FlattenSeq
  <1>2. CASE ips # <<>>
    <2> DEFINE B == 0 .. 255
    <2>1. ips \in Seq([1 .. size -> B]) /\ size \in Nat \ {0}
      BY DEF Addrs
    <2> HIDE DEF B
    <2>2. Len(FlattenSeq(ips)) = Len(ips) * size
      BY <2>1, FlattenSlices
    <2>3. Len(ips) \in Nat /\ Len(ips) # 0
      BY <1>2
    <2>4. Len(ips) * size # 0
      BY <2>3
    <2>5. Len(<<>>) = 0
      OBVIOUS
    <2> QED
      BY <1>2, <2>2, <2>4, <2>5 DEF Pack
  <1> QED
    BY <1>1, <1>2

\* The fields of a descriptor are the fields of its record.
LEMMA Fields ==
    ASSUME NEW d, IsDescriptor(d)
    PROVE  /\ DOMAIN d = {"p", "pk", "vk", "port", "v4a", "v6a", "vf", "r", "s"}
           /\ d = [f \in DOMAIN d |-> d[f]]
           /\ d.p # <<>>
  <1>1. PICK p, pk, vk, port, v4a, v6a, vf, r, s :
           d = [p |-> p, pk |-> pk, vk |-> vk, port |-> port, v4a |-> v4a,
                v6a |-> v6a, vf |-> vf, r |-> r, s |-> s]
    BY DEF IsDescriptor
  <1>2. DOMAIN d = {"p", "pk", "vk", "port", "v4a", "v6a", "vf", "r", "s"}
    BY <1>1
  <1>3. d = [f \in DOMAIN d |-> d[f]]
    BY <1>1
  <1>4. d.p # <<>>
    <2>1. d.p \in Addrs(4) \cup Addrs(16)
      BY DEF IsDescriptor
    <2>2. 1 \in DOMAIN d.p
      BY <2>1 DEF Addrs
    <2>3. DOMAIN <<>> = {}
      OBVIOUS
    <2> QED
      BY <2>2, <2>3
  <1> QED
    BY <1>2, <1>3, <1>4

\* A record whose fields are all made, and made equal to those of d, is d.
LEMMA MadeSame ==
    ASSUME NEW d, IsDescriptor(d), NEW e,
           e = [f \in DOMAIN d |-> e[f]],
           \A f \in DOMAIN d : e[f] = Invalid \/ e[f] = d[f]
    PROVE  /\ Made(e) = Invalid \/ Made(e) = d
           /\ (\A f \in DOMAIN d : e[f] = d[f]) => Made(e) = d
  <1>1. \A f \in DOMAIN d : d[f] # Invalid
    BY DEF IsDescriptor
  <1>2. DOMAIN e = DOMAIN d
    OBVIOUS
  <1>3. (\A f \in DOMAIN d : e[f] = d[f]) => e = d
    BY Fields
  <1> QED
    BY <1>1, <1>2, <1>3 DEF Made

\* What becomes of a field that travels as text: it is itself, unless the
\* length of a key or of the signature or the range of the port is refused.
LEMMA TextRoundTrip ==
    ASSUME NEW v
    PROVE  /\ FromText("pk", StrOf("pk", v)) = IF v.len = 32 THEN v ELSE Invalid
           /\ FromText("vk", StrOf("vk", v)) = IF v.len = 32 THEN v ELSE Invalid
           /\ FromText("s", StrOf("s", v)) = IF v.len = 64 THEN v ELSE Invalid
           /\ v \in Int => FromText("port", StrOf("port", v)) =
                             IF v \in Ports THEN v ELSE Invalid
           /\ FromText("vf", StrOf("vf", v)) = v /\ FromText("r", StrOf("r", v)) = v
           /\ FromText("p", Text(v)) = v
           /\ FromText("v4a", Text(v)) = v /\ FromText("v6a", Text(v)) = v
  <1>1. PICK x, y : x = B64Text(v) /\ y = Text(v)
    OBVIOUS
  <1>2. x.text = v /\ x.len = B64Length(v.len) /\ y.text = v
    BY <1>1 DEF B64Text, Text
  <1>3. \A n : B64Bytes(x, n) = IF v.len = n THEN v ELSE Invalid
    BY <1>2, Zenon DEF B64Bytes
  <1>4. v \in Int => IntRange(y, 1, 65535) = IF v \in Ports THEN v ELSE Invalid
    <2>1. ASSUME v \in Int PROVE 1 <= v /\ v <= 65535 <=> v \in Ports
      BY <2>1, SMTT(30) DEF Ports
    <2>2. IntRange(y, 1, 65535) = IF 1 <= v /\ v <= 65535 THEN v ELSE Invalid
      BY <1>2 DEF IntRange
    <2> QED
      BY <2>1, <2>2
  <1>5. /\ StrOf("pk", v) = x /\ StrOf("vk", v) = x /\ StrOf("s", v) = x
        /\ StrOf("port", v) = y /\ StrOf("vf", v) = y /\ StrOf("r", v) = y
    BY <1>1 DEF StrOf
  <1>6. \A z : /\ FromText("pk", z) = B64Bytes(z, 32)
               /\ FromText("vk", z) = B64Bytes(z, 32)
               /\ FromText("s", z) = B64Bytes(z, 64)
               /\ FromText("vf", z) = z.text /\ FromText("r", z) = z.text
               /\ FromText("p", z) = z.text /\ FromText("v4a", z) = z.text
               /\ FromText("v6a", z) = z.text
    BY DEF FromText
  <1>7. /\ FromText("pk", StrOf("pk", v)) = IF v.len = 32 THEN v ELSE Invalid
        /\ FromText("vk", StrOf("vk", v)) = IF v.len = 32 THEN v ELSE Invalid
    BY <1>3, <1>5, <1>6
  <1>8. FromText("s", StrOf("s", v)) = IF v.len = 64 THEN v ELSE Invalid
    BY <1>3, <1>5, <1>6
  <1>9. v \in Int => FromText("port", StrOf("port", v)) =
                        IF v \in Ports THEN v ELSE Invalid
    <2>1. FromText("port", y) = IntRange(y, 1, 65535)
      BY DEF FromText
    <2>2. StrOf("port", v) = y
      BY <1>5
    <2> QED
      BY ONLY <1>4, <2>1, <2>2
  <1>10. FromText("vf", StrOf("vf", v)) = v /\ FromText("r", StrOf("r", v)) = v
    BY <1>2, <1>5, <1>6
  <1>11. /\ FromText("p", Text(v)) = v
         /\ FromText("v4a", Text(v)) = v /\ FromText("v6a", Text(v)) = v
    BY <1>1, <1>2, <1>6
  <1> QED
    BY <1>7, <1>8, <1>9, <1>10, <1>11

\* The checks that the schema makes of a descriptor.
Checked(d) ==
    d.pk.len = 32 /\ d.vk.len = 32 /\ d.s.len = 64 /\ d.port \in Ports

\* If every field is made and checked, it is itself or refused, and the record
\* is refused if one of its fields is.
LEMMA MadeOrRefused ==
    ASSUME NEW d, IsDescriptor(d), NEW e, NEW ok \in BOOLEAN,
           e = [f \in DOMAIN d |-> e[f]],
           e["p"] = d["p"], e["vf"] = d["vf"], e["r"] = d["r"],
           e["pk"] = IF d.pk.len = 32 THEN d["pk"] ELSE Invalid,
           e["vk"] = IF d.vk.len = 32 THEN d["vk"] ELSE Invalid,
           e["s"] = IF d.s.len = 64 THEN d["s"] ELSE Invalid,
           e["port"] = IF d.port \in Ports THEN d["port"] ELSE Invalid,
           \/ ok /\ e["v4a"] = d["v4a"] /\ e["v6a"] = d["v6a"]
           \/ ~ok /\ (e["v4a"] = Invalid \/ e["v6a"] = Invalid)
    PROVE  Made(e) = IF Checked(d) /\ ok THEN d ELSE Invalid
  <1>1. /\ DOMAIN d = {"p", "pk", "vk", "port", "v4a", "v6a", "vf", "r", "s"}
        /\ \A f \in DOMAIN d : d[f] # Invalid
    BY Fields DEF IsDescriptor
  <1>2. DOMAIN e = DOMAIN d
    OBVIOUS
  <1>3. CASE Checked(d) /\ ok
    <2>1. \A f \in DOMAIN d : e[f] = d[f]
      BY <1>1, <1>3 DEF Checked
    <2>2. e = d
      BY <2>1, Fields
    <2>3. ~\E f \in DOMAIN e : e[f] = Invalid
      BY <1>1, <1>2, <2>1
    <2> QED
      BY <1>3, <2>2, <2>3 DEF Made
  <1>4. CASE ~(Checked(d) /\ ok)
    <2>1. \E f \in DOMAIN e : e[f] = Invalid
      BY <1>1, <1>2, <1>4 DEF Checked
    <2> QED
      BY <1>4, <2>1 DEF Made
  <1> QED
    BY <1>3, <1>4

\* The round trip over the string: str() of a descriptor, parsed again, is the
\* same descriptor or is refused, and it is refused only for the length of a
\* key or of the signature or for the port.
THEOREM StringRoundTrip ==
    ASSUME NEW d, IsDescriptor(d)
    PROVE  Parse(AsString(d)) = IF Checked(d) THEN d ELSE Invalid
  <1>1. PICK e : e = [f \in DOMAIN AsString(d) |-> FromText(f, AsString(d)[f])]
    OBVIOUS
  <1>2. DOMAIN AsString(d) = DOMAIN d
    BY DEF AsString
  <1>3. \A f \in DOMAIN d : e[f] = FromText(f, AsString(d)[f])
    BY <1>1, <1>2
  <1>4. \A f \in DOMAIN d : AsString(d)[f] =
           IF f \in Packable THEN Text(d[f]) ELSE StrOf(f, d[f])
    BY DEF AsString
  <1>5. DOMAIN d = {"p", "pk", "vk", "port", "v4a", "v6a", "vf", "r", "s"}
    BY Fields
  <1>6. /\ e["p"] = FromText("p", Text(d.p))
        /\ e["v4a"] = FromText("v4a", Text(d.v4a))
        /\ e["v6a"] = FromText("v6a", Text(d.v6a))
    BY <1>3, <1>4, <1>5 DEF Packable
  <1>7. /\ e["pk"] = FromText("pk", StrOf("pk", d.pk))
        /\ e["vk"] = FromText("vk", StrOf("vk", d.vk))
        /\ e["s"] = FromText("s", StrOf("s", d.s))
        /\ e["port"] = FromText("port", StrOf("port", d.port))
        /\ e["vf"] = FromText("vf", StrOf("vf", d.vf))
        /\ e["r"] = FromText("r", StrOf("r", d.r))
    BY <1>3, <1>4, <1>5 DEF Packable
  <1>8. e["p"] = d["p"] /\ e["v4a"] = d["v4a"] /\ e["v6a"] = d["v6a"]
    BY <1>6, TextRoundTrip
  <1>9. /\ e["pk"] = IF d.pk.len = 32 THEN d["pk"] ELSE Invalid
        /\ e["vk"] = IF d.vk.len = 32 THEN d["vk"] ELSE Invalid
        /\ e["s"] = IF d.s.len = 64 THEN d["s"] ELSE Invalid
        /\ e["vf"] = d["vf"] /\ e["r"] = d["r"]
    BY <1>7, TextRoundTrip
  <1>10. e["port"] = IF d.port \in Ports THEN d["port"] ELSE Invalid
    <2>1. d.port \in Int
      BY DEF IsDescriptor
    <2> QED
      BY <1>7, <2>1, TextRoundTrip
  <1>11. e = [f \in DOMAIN d |-> e[f]]
    BY <1>1, <1>2
  <1>12. Parse(AsString(d)) = Made(e)
    BY <1>1 DEF Parse
  <1> QED
    BY <1>8, <1>9, <1>10, <1>11, <1>12, MadeOrRefused, ZenonT(40)

\* The round trip over a DNS-SD record ("Full round trip" in the doctest of
\* as_zeroconf_properties): what from_zeroconf_properties makes of what arrives
\* is the same descriptor or is refused, and it is refused only for the length
\* of a key or of the signature, for the port, or for an empty address list,
\* which arrives without a value.
THEOREM RecordRoundTrip ==
    ASSUME NEW d, IsDescriptor(d)
    PROVE  FromZeroconf(Received(AsZeroconf(d))) =
              IF Checked(d) /\ d.v4a # <<>> /\ d.v6a # <<>> THEN d ELSE Invalid
  <1> DEFINE sent == AsZeroconf(d)
             props == Received(sent)
             made == [f \in DOMAIN props |->
                        CASE f = "p" -> props.p
                          [] f \in {"v4a", "v6a"} -> Unpack(props[f], Size(f))
                          [] f \notin Packable /\ props[f] = None -> <<>>
                          [] OTHER -> FromText(f, props[f])]
  <1>1. /\ DOMAIN d = {"p", "pk", "vk", "port", "v4a", "v6a", "vf", "r", "s"}
        /\ \A f \in DOMAIN d : sent[f] # None
        /\ d.p # <<>>
    BY Fields DEF IsDescriptor
  <1>2. /\ DOMAIN sent = DOMAIN d
        /\ sent["p"] = d.p
        /\ sent["v4a"] = Pack(d.v4a) /\ sent["v6a"] = Pack(d.v6a)
        /\ sent["pk"] = StrOf("pk", d.pk) /\ sent["vk"] = StrOf("vk", d.vk)
        /\ sent["s"] = StrOf("s", d.s) /\ sent["port"] = StrOf("port", d.port)
        /\ sent["vf"] = StrOf("vf", d.vf) /\ sent["r"] = StrOf("r", d.r)
    BY <1>1 DEF AsZeroconf
  <1>3. /\ Pack(d.v4a) # None /\ Pack(d.v6a) # None
        /\ StrOf("pk", d.pk) # None /\ StrOf("vk", d.vk) # None
        /\ StrOf("s", d.s) # None /\ StrOf("port", d.port) # None
        /\ StrOf("vf", d.vf) # None /\ StrOf("r", d.r) # None
    <2> HIDE DEF sent
    <2> QED
      BY <1>1, <1>2
  <1> HIDE DEF sent
  <1>4. DOMAIN props = DOMAIN d
    BY <1>2 DEF Received
  <1>5. /\ props["p"] = d.p
        /\ props["v4a"] = IF Pack(d.v4a) = <<>> THEN None ELSE Pack(d.v4a)
        /\ props["v6a"] = IF Pack(d.v6a) = <<>> THEN None ELSE Pack(d.v6a)
    BY <1>1, <1>2 DEF Received, Packable
  <1>6. /\ props["pk"] = StrOf("pk", d.pk) /\ props["vk"] = StrOf("vk", d.vk)
        /\ props["s"] = StrOf("s", d.s) /\ props["port"] = StrOf("port", d.port)
        /\ props["vf"] = StrOf("vf", d.vf)
    BY <1>1, <1>2 DEF Received, Packable
  <1>7. props["r"] = IF d.r = <<>> THEN None ELSE StrOf("r", d.r)
    <2>1. StrOf("r", d.r).text = d.r
      BY DEF StrOf, Text
    <2> QED
      BY <1>1, <1>2, <2>1 DEF Received, Packable
  <1>8. FromZeroconf(props) = Made(made)
    BY DEF FromZeroconf
  <1> HIDE DEF props
  <1>9. /\ made["p"] = props["p"]
        /\ made["v4a"] = Unpack(props["v4a"], 4)
        /\ made["v6a"] = Unpack(props["v6a"], 16)
    <2>1. Size("v4a") = 4 /\ Size("v6a") = 16
      BY DEF Size
    <2>2. made["v4a"] = Unpack(props["v4a"], Size("v4a"))
      BY <1>1, <1>4 DEF Packable
    <2>3. made["v6a"] = Unpack(props["v6a"], Size("v6a"))
      BY <1>1, <1>4 DEF Packable
    <2>4. made["p"] = props["p"]
      BY <1>1, <1>4 DEF Packable
    <2> QED
      BY <2>1, <2>2, <2>3, <2>4
  <1>10. /\ made["pk"] = IF props["pk"] = None THEN <<>> ELSE FromText("pk", props["pk"])
         /\ made["vk"] = IF props["vk"] = None THEN <<>> ELSE FromText("vk", props["vk"])
         /\ made["s"] = IF props["s"] = None THEN <<>> ELSE FromText("s", props["s"])
         /\ made["port"] = IF props["port"] = None THEN <<>>
                           ELSE FromText("port", props["port"])
         /\ made["vf"] = IF props["vf"] = None THEN <<>> ELSE FromText("vf", props["vf"])
         /\ made["r"] = IF props["r"] = None THEN <<>> ELSE FromText("r", props["r"])
    BY <1>1, <1>4 DEF Packable
  <1>11. made = [f \in DOMAIN d |-> made[f]]
    BY <1>4
  <1> HIDE DEF made
  <1>12. made["p"] = d["p"]
    BY <1>5, <1>9
  <1>13. made["v4a"] = IF d.v4a = <<>> THEN Invalid ELSE d["v4a"]
    <2>1. d.v4a \in Seq(Addrs(4))
      BY DEF IsDescriptor
    <2>2. /\ Pack(d.v4a) = <<>> <=> d.v4a = <<>>
          /\ Unpack(Pack(d.v4a), 4) = d.v4a
      BY <1>3, <2>1, PackEmpty, UnpackPack
    <2>3. Unpack(None, 4) = Invalid
      BY DEF Unpack
    <2> QED
      BY <1>5, <1>9, <2>2, <2>3
  <1>14. made["v6a"] = IF d.v6a = <<>> THEN Invalid ELSE d["v6a"]
    <2>1. d.v6a \in Seq(Addrs(16))
      BY DEF IsDescriptor
    <2>2. /\ Pack(d.v6a) = <<>> <=> d.v6a = <<>>
          /\ Unpack(Pack(d.v6a), 16) = d.v6a
      BY <1>3, <2>1, PackEmpty, UnpackPack
    <2>3. Unpack(None, 16) = Invalid
      BY DEF Unpack
    <2> QED
      BY <1>5, <1>9, <2>2, <2>3
  <1>15. /\ made["pk"] = IF d.pk.len = 32 THEN d["pk"] ELSE Invalid
         /\ made["vk"] = IF d.vk.len = 32 THEN d["vk"] ELSE Invalid
         /\ made["s"] = IF d.s.len = 64 THEN d["s"] ELSE Invalid
    BY <1>3, <1>6, <1>10, TextRoundTrip
  <1>16. made["port"] = IF d.port \in Ports THEN d["port"] ELSE Invalid
    <2>1. d.port \in Int
      BY DEF IsDescriptor
    <2> QED
      BY <1>3, <1>6, <1>10, <2>1, TextRoundTrip
  <1>17. made["vf"] = d["vf"] /\ made["r"] = d["r"]
    BY <1>3, <1>6, <1>7, <1>10, TextRoundTrip
  <1>18. PICK ok \in BOOLEAN : ok <=> d.v4a # <<>> /\ d.v6a # <<>>
    OBVIOUS
  <1>19. Made(made) = IF Checked(d) /\ ok THEN d ELSE Invalid
    <2>1. \/ ok /\ made["v4a"] = d["v4a"] /\ made["v6a"] = d["v6a"]
          \/ ~ok /\ (made["v4a"] = Invalid \/ made["v6a"] = Invalid)
      BY <1>13, <1>14, <1>18
    <2> QED
      BY <1>11, <1>12, <1>15, <1>16, <1>17, <2>1, MadeOrRefused
  <1> QED
    BY <1>8, <1>18, <1>19 DEF props, sent
=============================================================================
