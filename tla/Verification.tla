----------------------------- MODULE Verification -----------------------------
(***************************************************************************)
(* Verification of a peer: the commands of verify.py (with verify_audio.py *)
(* and verify_reunion.py) on this host, and on the other side a host that  *)
(* shows, speaks or sends its verify key, read from the descriptors of its *)
(* organize daemon, and that may get new keys (KeyFile).                   *)
(*                                                                         *)
(* A command is a process of its own: it asks organize for the key of a    *)
(* host name, and later calls verify_and_pin_peer; organize handles events *)
(* of the network and other commands between the two.  The camera, the     *)
(* loudspeaker and the REUNION protocol are external: they deliver what    *)
(* the other side gave them, something else, or nothing.                   *)
(***************************************************************************)
EXTENDS OrganizeState, KeyFile

CONSTANTS
    Others,    \* keys of further hosts
    Garbled,   \* something that is not the encoding of a key
    Nothing,   \* nothing was received
    Idle,      \* no command is running
    MaxCommands \* bound on the verification commands

\* A key in a QR code, spoken (send_verification_key: the hash of its text), and
\* sent (the hash of its bytes).
Encoding == {"vk", "hexdigest", "digest"}

ASSUME VerificationTypes ==
    /\ Vk # {}
    /\ Identity \cup Others \subseteq Vk
    /\ Identity \cap Others = {}
    /\ MaxCrashes \in Nat /\ MaxCommands \in Nat
    /\ {Garbled, Nothing} \cap (Encoding \X Vk) = {}
    /\ NoPeer \notin [pinned : BOOLEAN, verified : BOOLEAN]

VARIABLES
    shown,     \* what the other host has shown: pairs of an encoding and a key
    cmd,       \* the command that is running
    commands   \* number of commands so far

cvars == <<shown, cmd, commands>>
vvars == <<vars, kvars, cvars>>

Encoded(enc, v) == <<enc, v>>
Spoken(v) == Encoded("hexdigest", v)
HashedVk(v) == Encoded("digest", v)

VInit ==
    /\ Init /\ KInit
    /\ shown = {}
    /\ cmd = Idle
    /\ commands = 0

-----------------------------------------------------------------------------
(* The other host *)

\* __init__ of the commands fails if organize has no descriptors yet.
MayShow(shape) ==
    /\ starting = "done"
    /\ shape \notin shown
    /\ shown' = shown \cup {shape}
    /\ UNCHANGED <<vars, kvars, cmd, commands>>

MyVk == MayShow(Encoded("vk", keys))
Speak == MayShow(Spoken(keys))
SendReunion == MayShow(HashedVk(keys))

\* my_descriptor, on the screen of the other host.
MyDescriptor(d) == starting = "done" /\ d.vk = keys

\* Descriptors of the host, with the keys it has now or had before, or of
\* another.
Announced(d) == d.vk \in Others \cup signed

Hear(d) ==
    /\ Announced(d)
    /\ AcceptDescriptor(d) \/ RejectDescriptor(d)
    /\ UNCHANGED <<kvars, cvars>>

-----------------------------------------------------------------------------
(* VerifyCommands *)

\* get_vk_by_name: with_hostname raises if there is none.
Lookup(kind, h) ==
    /\ cmd = Idle
    /\ commands < MaxCommands
    /\ commands' = commands + 1
    /\ \/ /\ WithHostname(peers, h) = {}
          /\ UNCHANGED cmd
       \/ \E v \in WithHostname(peers, h) :
             /\ WithHostname(peers, h) = {v}
             /\ cmd' = [kind |-> kind, at |-> "waiting", host |-> h, vk |-> v]
    /\ UNCHANGED <<vars, kvars, shown>>

\* listen and reunion look the key up before they wait for the other side.
Listen(h) == Lookup("listen", h)
Reunion(h) == Lookup("reunion", h)

\* receive_verification_key: what is decoded first, or nothing if that is no
\* text, or at Ctrl+C.
Heard == {s \in shown : s[1] = "hexdigest"} \cup {Garbled, Nothing}

\* reunion_multicast_run_verify: the message of a peer that knows the passphrase
\* if it has the length of a hash, or nothing at the timeout.
RunVerify == {s \in shown : s[1] = "digest"} \cup {Nothing}

Waiting(kind) == cmd # Idle /\ cmd.kind = kind /\ cmd.at = "waiting"

Compared(equal) ==
    /\ cmd' = IF equal THEN [cmd EXCEPT !.at = "verify"] ELSE Idle
    /\ UNCHANGED <<vars, kvars, shown, commands>>

\* Mutant: whatever is received is taken for the key.
ListenGetsAny ==
    /\ Waiting("listen")
    /\ \E msg \in Heard : Compared(msg # Nothing)

\* What arrives is compared with the key that was looked up.
ListenGets ==
    /\ Waiting("listen")
    /\ \E msg \in Heard : Compared(msg = Spoken(cmd.vk))

ReunionGets ==
    /\ Waiting("reunion")
    /\ \E msg \in RunVerify : Compared(msg = HashedVk(cmd.vk))

\* scan: first the QR code is read.
Scan(h, v) ==
    /\ cmd = Idle
    /\ commands < MaxCommands
    /\ commands' = commands + 1
    /\ Encoded("vk", v) \in shown
    /\ cmd' = [kind |-> "scan", at |-> "scanned", host |-> h, vk |-> v]
    /\ UNCHANGED <<vars, kvars, shown>>

\* The QR code of a descriptor is processed like one that was announced.
ScanDescriptor(d) ==
    /\ cmd = Idle
    /\ MyDescriptor(d)
    /\ AcceptDescriptor(d) \/ RejectDescriptor(d)
    /\ UNCHANGED <<kvars, cvars>>

\* Then the key is looked up and compared.
ScanLookup ==
    /\ cmd # Idle /\ cmd.at = "scanned"
    /\ cmd' = IF WithHostname(peers, cmd.host) = {cmd.vk}
              THEN [cmd EXCEPT !.at = "verify"] ELSE Idle
    /\ UNCHANGED <<vars, kvars, shown, commands>>

\* The call of organize.verify_and_pin_peer.
Verify ==
    /\ cmd # Idle /\ cmd.at = "verify"
    /\ VerifyAndPinPeer(cmd.vk, cmd.host)
    /\ cmd' = Idle
    /\ UNCHANGED <<kvars, shown, commands>>

-----------------------------------------------------------------------------
\* The user's other commands: peer set, peer remove.
OtherCommand ==
    /\ \/ \E v \in Vk, b \in BOOLEAN :
          \E field \in EditFields \cap {"enabled", "pinned", "verified", "gateway"} :
             SetFlag(v, field, b)
       \/ \E key \in Vk \cup Host : UserRemovePeer(key)
    /\ UNCHANGED <<kvars, cvars>>

SystemChanges ==
    /\ \E s \in SysStates : NewSystemState(s)
    /\ UNCHANGED <<kvars, cvars>>

VNext ==
    \/ KeyStep /\ UNCHANGED <<vars, cvars>>
    \/ MyVk \/ Speak \/ SendReunion
    \/ \E d \in Descs : Hear(d) \/ ScanDescriptor(d)
    \/ \E h \in Host :
          \/ Listen(h) \/ Reunion(h)
          \/ \E v \in Identity : Scan(h, v)
    \/ ListenGets \/ ReunionGets
    \/ ScanLookup \/ Verify
    \/ OtherCommand
    \/ SystemChanges

VSpec == VInit /\ [][VNext]_vvars
-----------------------------------------------------------------------------
(* Properties *)

\* Every peer that is marked as verified has shown its key, in one of the
\* three ways, although the name that the user gave may pass from one peer
\* to another between the look-up and the verification.
VerifiedHasShown ==
    "verified" \notin EditFields =>
        \A v \in Known(peers) :
            peers[v].verified => \E enc \in Encoding : Encoded(enc, v) \in shown

\* The standing of the peers is what TrustTable allows.
Trust ==
    INSTANCE TrustTable WITH
        Unknown <- NoPeer,
        book <- [v \in Vk |->
                   IF v \in Known(peers)
                   THEN [pinned |-> peers[v].pinned,
                         verified |-> peers[v].verified]
                   ELSE NoPeer],
        shown <- {s[2] : s \in shown},
        by <- CASE result.event \in NetworkEvents -> "network"
                [] result.event = "VERIFY_AND_PIN_PEER" -> "verify"
                [] OTHER -> "user"

\* No event of the network or the system unpins, unverifies or removes a
\* pinned peer or makes a peer verified, a command changes no peer but the
\* one it names, and verify_and_pin_peer changes only the peer whose key was
\* shown: organize, with the commands, implements TrustTable.
ImplementsTrust == Trust!TSpec
=============================================================================
