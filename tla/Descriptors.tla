----------------------------- MODULE Descriptors -----------------------------
(***************************************************************************)
(* The encodings of a descriptor (class Descriptor of peer.py and the      *)
(* value types of common.py): the string that organize, publish, discover  *)
(* and QR codes use and that the signature covers, and the properties of a *)
(* DNS-SD record, in which addresses are packed as bytes.                  *)
(*                                                                         *)
(* An address is the sequence of its bytes: 4 of them or 16.  A key or a   *)
(* signature is an identity and a length in bytes.  A value that travels   *)
(* as text is [text |-> what the text denotes, len |-> its length]; of a   *)
(* text that is not base64 the length is not kept.  The fields c, dt, e    *)
(* and hostname travel as pk, vf and vk do and are left out.               *)
(***************************************************************************)
EXTENDS Integers, Sequences, SequencesExt

CONSTANTS
    Invalid,  \* the outcome of a conversion that raises an exception
    None      \* the value zeroconf gives for a property without one

-----------------------------------------------------------------------------
(* comma_separated_IPs and its subclasses *)

Size(field) == IF field = "v4a" THEN 4 ELSE 16

\* __init__ from bytes: slices of `size' bytes.
Unpack(bytes, size) ==
    IF bytes = None \/ Len(bytes) % size # 0 THEN Invalid
    ELSE [n \in 1 .. Len(bytes) \div size |->
            SubSeq(bytes, (n - 1) * size + 1, n * size)]

\* Mutant: the packed addresses are in the reverse order.
PackReversed(ips) == FlattenSeq(Reverse(ips))

\* packed
Pack(ips) == FlattenSeq(ips)

IsLinkLocal(a) ==
    IF Len(a) = 4 THEN a[1] = 169 /\ a[2] = 254 ELSE a[1] = 254 /\ a[2] = 128

\* IPs.v4s and IPs.v6s
V4s(ips) == SelectSeq(ips, LAMBDA a : Len(a) = 4)
V6s(ips) == SelectSeq(ips, LAMBDA a : Len(a) = 16)

\* sort_LL_first: a stable sort by (not link-local, not version 6).
SortLLFirst(ips) ==
    LET LL == SelectSeq(ips, IsLinkLocal)
        Other == SelectSeq(ips, LAMBDA a : ~IsLinkLocal(a))
    IN  V6s(LL) \o V4s(LL) \o V6s(Other) \o V4s(Other)

-----------------------------------------------------------------------------
(* Constraint, Length, int_range and b64_bytes *)

B64Length(length) == 4 * (length \div 3 + (IF length % 3 = 0 THEN 0 ELSE 1))

\* Mutant: only the length of the text is checked.
B64TextOnly(v, length) ==
    IF v.len # B64Length(length) THEN Invalid ELSE v.text

\* with_len(length).validate of a text: its length as base64 is checked and
\* then the length of what it decodes to.
B64Bytes(v, length) ==
    IF v.len # B64Length(length) \/ v.text.len # length THEN Invalid ELSE v.text

\* The port is an int_range(1, 65535).
Ports == 1 .. 65535

IntRange(v, min, max) ==
    IF min <= v.text /\ v.text <= max THEN v.text ELSE Invalid

-----------------------------------------------------------------------------
(* Descriptor *)

Packable == {"p", "v4a", "v6a"}

Text(v) == [text |-> v, len |-> 0]
B64Text(key) == [text |-> key, len |-> B64Length(key.len)]

\* str() of a value that is not packed.
StrOf(field, v) ==
    IF field \in {"pk", "vk", "s"} THEN B64Text(v) ELSE Text(v)

\* The schema, for a value that arrives as text.
FromText(field, v) ==
    CASE field \in {"pk", "vk"} -> B64Bytes(v, 32)
      [] field = "s" -> B64Bytes(v, 64)
      [] field = "port" -> IntRange(v, 1, 65535)
      [] OTHER -> v.text

Made(d) == IF \E f \in DOMAIN d : d[f] = Invalid THEN Invalid ELSE d

\* as_zeroconf_properties
AsZeroconf(d) ==
    [f \in DOMAIN d |->
        CASE f = "p" -> d.p
          [] f \in {"v4a", "v6a"} -> Pack(d[f])
          [] OTHER -> StrOf(f, d[f])]

\* What the fields of a descriptor hold, before a length or a range is checked.
Addrs(size) == [1 .. size -> 0 .. 255]

IsDescriptor(d) ==
    /\ d = [p |-> d.p, pk |-> d.pk, vk |-> d.vk, port |-> d.port, v4a |-> d.v4a,
            v6a |-> d.v6a, vf |-> d.vf, r |-> d.r, s |-> d.s]
    /\ d.p \in Addrs(4) \cup Addrs(16)
    /\ d.v4a \in Seq(Addrs(4)) /\ d.v6a \in Seq(Addrs(16))
    /\ d.port \in Int
    /\ \A f \in DOMAIN d : d[f] # Invalid /\ AsZeroconf(d)[f] # None

\* from_zeroconf_properties: the types that pack themselves are made from
\* what is there; any other absent value is the empty string.
FromZeroconf(props) ==
    Made([f \in DOMAIN props |->
            CASE f = "p" -> props.p
              [] f \in {"v4a", "v6a"} -> Unpack(props[f], Size(f))
              [] f \notin Packable /\ props[f] = None -> <<>>
              [] OTHER -> FromText(f, props[f])])

\* __str__ and parse.  In the string an address list is text as well.
AsString(d) ==
    [f \in DOMAIN d |->
        IF f \in Packable THEN Text(d[f]) ELSE StrOf(f, d[f])]

Parse(str) == Made([f \in DOMAIN str |-> FromText(f, str[f])])

\* _build_sig_buf, sign and verify_signature.  A signature is the identity
\* of the key that made it and what it was made over.
SigBuf(d) == [f \in DOMAIN d \ {"s"} |-> AsString(d)[f]]

Sign(d, key) ==
    [f \in DOMAIN d \cup {"s"} |->
        IF f = "s" THEN [id |-> <<key, SigBuf(d)>>, len |-> 64] ELSE d[f]]

VerifySignature(d) ==
    /\ "s" \in DOMAIN d
    /\ d.s.id = <<d.vk.id, SigBuf(d)>>

AllAddrs(d) == d.v6a \o d.v4a

-----------------------------------------------------------------------------
(* ServiceInfo of python-zeroconf (external): a property and its name take   *)
(* at most 255 bytes, and an empty one has no value on the other side.      *)

TxtFits(d) ==
    \A f \in {"v4a", "v6a"} : 3 + 1 + Size(f) * Len(d[f]) <= 255

Received(props) ==
    [f \in DOMAIN props |->
        IF \/ f = "r" /\ props.r.text = <<>>
           \/ f \in Packable /\ props[f] = <<>>
        THEN None ELSE props[f]]
=============================================================================
