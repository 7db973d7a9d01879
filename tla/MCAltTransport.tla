---------------------------- MODULE MCAltTransport ----------------------------
(***************************************************************************)
(* A small instance of AltTransport.                                       *)
(***************************************************************************)
EXTENDS AltTransport

CONSTANTS ip1, ip2, eth

\* Dictionaries by address, as load_descriptor expects them, and strings by
\* interface, as organize answers at present.
ByAddress == [ip \in {ip1} |-> {"addrs", "pk"}]
ByInterface == [i \in {eth} |-> String]
MCAnswers == {ByAddress, ByInterface}

MCGetIp == [i \in {eth} |-> ip1]
MCStartLists == {<<ip1>>, <<ip1, ip2>>}
=============================================================================
