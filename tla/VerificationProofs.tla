------------------------- MODULE VerificationProofs -------------------------
(***************************************************************************)
(* Proofs about Verification, for every choice of its constants: the       *)
(* commands and the other host leave organize and the key file what they   *)
(* are on their own, only a peer that has shown its key is verified, and   *)
(* the whole implements TrustTable.                                        *)
(*                                                                         *)
(* The inductive invariant adds to those of organize and of the key file   *)
(* what a command remembers between the look-up of a key and the           *)
(* verification (CmdOK): the key that it goes on to verify was shown.      *)
(***************************************************************************)
EXTENDS Verification, OrganizeStateProofs

-----------------------------------------------------------------------------
(* The key file on its own: a host keeps its identity, for any set of keys *)
(* and any number of crashes.                                              *)

\* The values that the variables may have.
KTypeOK ==
    /\ keys_file \in Identity \cup {Absent, Unreadable}
    /\ keys \in Identity \cup {NoKeys}
    /\ starting \in {"read", "generate", "write", "done"}
    /\ signed \subseteq Identity
    /\ damaged \in BOOLEAN

\* Keys that are about to be written exist, and so do those of a daemon that
\* runs.
WritesKeys == starting \in {"write", "done"} => keys \in Identity

\* Keys that have signed something are those in the file, and nobody is about
\* to make others.
SignedIsStored ==
    ~damaged /\ signed # {} =>
        /\ signed = {keys_file}
        /\ starting \in {"read", "done"}

KInv == KTypeOK /\ WritesKeys /\ SignedIsStored

\* A host that has used no key yet satisfies the invariant.
LEMMA KInvInit == KInit => KInv
  BY DEF KInit, KInv, KTypeOK, WritesKeys, SignedIsStored

\* Every step of generate_or_read_keys, a crash and damage to the file keep it.
LEMMA KInvNext == KInv /\ [KeyStep]_kvars => KInv'
<1> SUFFICES ASSUME KInv, [KeyStep]_kvars
             PROVE  KInv'
  OBVIOUS
<1> USE DEF KInv, KTypeOK, WritesKeys, SignedIsStored
<1>1. CASE ReadKeys
  BY <1>1 DEF ReadKeys, Runs
<1>2. CASE ChmodFails
  BY <1>2 DEF ChmodFails, Runs
<1>3. CASE NoKeysFile
  <2>1. keys_file \notin Identity
    BY <1>3, KeyValues DEF NoKeysFile
  <2>2. damaged \/ signed = {}
    BY <2>1
  <2> QED
    BY <1>3, <2>2 DEF NoKeysFile
<1>4. CASE GenKeys
  BY <1>4 DEF GenKeys, FreshKeys
<1>5. CASE WriteKeys
  BY <1>5 DEF WriteKeys, Runs
<1>6. CASE Crash
  BY <1>6 DEF Crash
<1>7. CASE FileDamaged
  BY <1>7 DEF FileDamaged
<1>8. CASE UNCHANGED kvars
  BY <1>8 DEF kvars
<1> QED
  BY <1>1, <1>2, <1>3, <1>4, <1>5, <1>6, <1>7, <1>8 DEF KeyStep

\* What generate_or_read_keys relies on: keys that were used are in the file
\* and no others are being made, wherever a crash came.
THEOREM KeysAreStored == KSpec => []KInv
  BY KInvInit, KInvNext, PTL DEF KSpec

\* A host whose key file is not damaged never signs with two different keys,
\* however often its daemon crashes while it makes or writes them.
THEOREM IdentityIsKept == KSpec => []OneIdentity
<1>1. KInv => OneIdentity
  BY DEF KInv, SignedIsStored, OneIdentity
<1> QED
  BY <1>1, KeysAreStored, PTL

-----------------------------------------------------------------------------
(* The commands *)

HasShown(v) == \E enc \in Encoding : Encoded(enc, v) \in shown

Command ==
    [kind : {"listen", "reunion", "scan"}, at : {"waiting", "scanned", "verify"},
     host : Host, vk : Vk]

CmdOK ==
    cmd # Idle =>
        /\ cmd \in Command
        /\ cmd.at # "waiting" => HasShown(cmd.vk)

VInv == IInv /\ KInv /\ shown \subseteq Encoding \X Vk /\ CmdOK

-----------------------------------------------------------------------------
(* The composition: every step is one of organize and one of the key file *)

\* What the commands and the other host do to organize is what its network and
\* its user do.
LEMMA OrganizeSteps ==
    ASSUME VInv, [VNext]_vvars
    PROVE  [Next]_vars
  <1>1. CASE UNCHANGED vars
    BY <1>1
  <1>2. ASSUME NEW d \in Descs, Hear(d) \/ ScanDescriptor(d)
        PROVE  Next
    BY <1>2 DEF Hear, ScanDescriptor, Next, NetworkStep
  <1>3. CASE Verify
    <2>1. cmd.vk \in Vk /\ cmd.host \in Host
      BY <1>3 DEF Verify, VInv, CmdOK, Command
    <2>2. VerifyAndPinPeer(cmd.vk, cmd.host)
      BY <1>3 DEF Verify
    <2> QED
      BY <2>1, <2>2 DEF Next, UserStep, CommandStep, UserPeerStep
  <1>4. CASE OtherCommand
    BY <1>4 DEF OtherCommand, Next, UserStep, CommandStep, UserPeerStep
  <1>5. CASE SystemChanges
    BY <1>5 DEF SystemChanges, Next, NetworkStep
  <1> QED
    BY <1>1, <1>2, <1>3, <1>4, <1>5
       DEF VNext, vvars, MyVk, Speak, SendReunion, MayShow, Listen, Reunion,
           Lookup, Scan, ListenGets, ReunionGets, Compared, ScanLookup

\* Nobody but its own daemon changes the key file of the other host.
LEMMA KeySteps ==
    ASSUME [VNext]_vvars
    PROVE  [KeyStep]_kvars
  BY DEF VNext, vvars, MyVk, Speak, SendReunion, MayShow, Listen, Reunion,
         Lookup, Scan, ListenGets, ReunionGets, Compared, ScanLookup, Hear,
         ScanDescriptor, Verify, OtherCommand, SystemChanges

\* What was shown stays shown; only a host that runs shows a key, its own.
LEMMA ShownGrows ==
    ASSUME VInv, [VNext]_vvars
    PROVE  /\ shown \subseteq shown'
           /\ \/ shown' = shown
              \/ /\ \E enc \in Encoding : shown' = shown \cup {Encoded(enc, keys)}
                 /\ keys \in Vk
                 /\ UNCHANGED <<vars, kvars, cmd>>
  <1>1. ASSUME NEW enc \in Encoding, MayShow(Encoded(enc, keys))
        PROVE  /\ shown' = shown \cup {Encoded(enc, keys)}
               /\ keys \in Vk
               /\ UNCHANGED <<vars, kvars, cmd>>
    BY <1>1, VerificationTypes DEF MayShow, VInv, KInv, WritesKeys
  <1>2. CASE MyVk \/ Speak \/ SendReunion
    <2>1. PICK enc \in Encoding : MayShow(Encoded(enc, keys))
      BY <1>2 DEF MyVk, Speak, SendReunion, Spoken, HashedVk, Encoding
    <2> QED
      BY <1>1, <2>1
  <1>3. CASE shown' = shown
    BY <1>3
  <1> QED
    BY <1>2, <1>3
       DEF VNext, vvars, cvars, Listen, Reunion, Lookup, Scan, ListenGets,
           ReunionGets, Compared, ScanLookup, Hear, ScanDescriptor, Verify,
           OtherCommand, SystemChanges

\* A command that goes on to verify a key has got that key from the other side.
LEMMA CmdStep ==
    ASSUME VInv, [VNext]_vvars
    PROVE  CmdOK'
  <1>1. ASSUME NEW v, HasShown(v)
        PROVE  HasShown(v)'
    BY <1>1, ShownGrows DEF HasShown
  <1>2. CASE cmd' = Idle
    BY <1>2 DEF CmdOK
  <1>3. CASE cmd' = cmd
    BY <1>1, <1>3 DEF CmdOK, VInv
  <1>4. ASSUME NEW h \in Host, NEW kind \in {"listen", "reunion"},
               Lookup(kind, h), cmd' # cmd
        PROVE  CmdOK'
    <2>1. PICK v \in WithHostname(peers, h) :
             cmd' = [kind |-> kind, at |-> "waiting", host |-> h, vk |-> v]
      BY <1>4 DEF Lookup
    <2>2. v \in Vk
      BY DEF WithHostname, Enabled, Known
    <2> QED
      BY <2>1, <2>2 DEF CmdOK, Command
  <1>5. ASSUME NEW h \in Host, NEW v \in Identity, Scan(h, v)
        PROVE  CmdOK'
    <2>1. HasShown(v)
      BY <1>5 DEF Scan, HasShown, Encoding
    <2>2. HasShown(v)'
      BY <1>1, <2>1
    <2>3. v \in Vk
      BY VerificationTypes
    <2>4. cmd' = [kind |-> "scan", at |-> "scanned", host |-> h, vk |-> v]
      BY <1>5 DEF Scan
    <2> QED
      BY <2>2, <2>3, <2>4 DEF CmdOK, Command
  <1>6. ASSUME cmd # Idle, HasShown(cmd.vk), cmd' = [cmd EXCEPT !.at = "verify"]
        PROVE  CmdOK'
    <2>1. cmd \in Command
      BY <1>6 DEF VInv, CmdOK
    <2>2. cmd' \in Command /\ cmd'.vk = cmd.vk
      BY <1>6, <2>1 DEF Command
    <2> QED
      BY <1>1, <1>6, <2>2 DEF CmdOK
  <1>7. ASSUME cmd # Idle, NEW msg, NEW enc \in Encoding,
               msg \in shown \cup {Garbled, Nothing}, msg = Encoded(enc, cmd.vk)
        PROVE  HasShown(cmd.vk)
    <2>1. cmd.vk \in Vk
      BY <1>7 DEF VInv, CmdOK, Command
    <2>2. msg \in Encoding \X Vk
      BY <1>7, <2>1 DEF Encoded
    <2> QED
      BY <1>7, <2>2, VerificationTypes DEF HasShown
  <1>8. CASE ListenGets
    <2>1. PICK msg \in Heard : Compared(msg = Spoken(cmd.vk))
      BY <1>8 DEF ListenGets
    <2>2. CASE msg = Spoken(cmd.vk)
      <3>1. msg \in shown \cup {Garbled, Nothing} /\ "hexdigest" \in Encoding
        BY DEF Heard, Encoding
      <3>2. cmd # Idle /\ HasShown(cmd.vk)
        BY <1>7, <1>8, <2>2, <3>1 DEF ListenGets, Waiting, Spoken
      <3> QED
        BY <1>6, <2>1, <2>2, <3>2 DEF Compared
    <2> QED
      BY <1>2, <2>1, <2>2 DEF Compared
  <1>9. CASE ReunionGets
    <2>1. PICK msg \in RunVerify : Compared(msg = HashedVk(cmd.vk))
      BY <1>9 DEF ReunionGets
    <2>2. CASE msg = HashedVk(cmd.vk)
      <3>1. msg \in shown \cup {Garbled, Nothing} /\ "digest" \in Encoding
        BY DEF RunVerify, Encoding
      <3>2. cmd # Idle /\ HasShown(cmd.vk)
        BY <1>7, <1>9, <2>2, <3>1 DEF ReunionGets, Waiting, HashedVk
      <3> QED
        BY <1>6, <2>1, <2>2, <3>2 DEF Compared
    <2> QED
      BY <1>2, <2>1, <2>2 DEF Compared
  <1>10. CASE ScanLookup
    <2>1. cmd # Idle /\ HasShown(cmd.vk)
      BY <1>10 DEF ScanLookup, VInv, CmdOK
    <2> QED
      BY <1>2, <1>6, <1>10, <2>1 DEF ScanLookup
  <1> QED
    BY <1>2, <1>3, <1>4, <1>5, <1>8, <1>9, <1>10
       DEF VNext, vvars, cvars, MyVk, Speak, SendReunion, MayShow, Listen,
           Reunion, Hear, ScanDescriptor, Verify, OtherCommand, SystemChanges

\* The invariant is inductive.
LEMMA VInvInit == VInit => VInv
  BY InitOK, KInvInit DEF VInit, VInv, CmdOK

\* ... and every step keeps it, part by part.
LEMMA VInvNext == VInv /\ [VNext]_vvars => VInv'
  <1> SUFFICES ASSUME VInv, [VNext]_vvars PROVE VInv'
    OBVIOUS
  <1>1. IInv'
    BY OrganizeSteps, NextOK DEF VInv
  <1>2. KInv'
    BY KeySteps, KInvNext DEF VInv
  <1>3. (shown \subseteq Encoding \X Vk)'
    BY ShownGrows DEF VInv, Encoded
  <1>4. CmdOK'
    BY CmdStep
  <1> QED
    BY <1>1, <1>2, <1>3, <1>4 DEF VInv

\* The invariant of the verification commands, their key file and the table
\* they act on holds in every reachable state.
THEOREM VInvariance == VSpec => []VInv
  BY VInvInit, VInvNext, PTL DEF VSpec

\* Under the verification commands organize behaves as it does under any
\* network and any user: all that is proved of OrganizeState holds here too.
THEOREM VerificationIsOrganize == VSpec => Spec
  <1>1. VInit => Init
    BY DEF VInit
  <1>2. VInv /\ [VNext]_vvars => [Next]_vars
    BY OrganizeSteps
  <1> QED
    BY <1>1, <1>2, VInvariance, PTL DEF VSpec, Spec

-----------------------------------------------------------------------------
(* Only a peer that has shown its key is verified *)

\* No step makes a peer verified but one that sets the flag by hand or one that
\* verifies a key that was shown.
LEMMA VerifiedStep ==
    ASSUME VInv, [VNext]_vvars, "verified" \notin EditFields,
           NEW v \in Vk, peers'[v] # NoPeer, peers'[v].verified
    PROVE  HasShown(v) \/ (peers[v] # NoPeer /\ peers[v].verified)
  <1> IInv
    BY DEF VInv
  <1>1. CASE peers'[v] = peers[v]
    BY <1>1
  <1>2. CASE MetOrForgotten(v)
    BY <1>2 DEF MetOrForgotten, SameStanding
  <1>3. ASSUME NEW d \in Descs, Hear(d) \/ ScanDescriptor(d)
        PROVE  MetOrForgotten(v) \/ peers'[v] = peers[v]
    <2>1. CASE AcceptDescriptor(d)
      BY <2>1, AcceptStanding
    <2>2. CASE RejectDescriptor(d)
      BY <2>2 DEF RejectDescriptor, NoWrites
    <2> QED
      BY <1>3, <2>1, <2>2 DEF Hear, ScanDescriptor
  <1>4. CASE SystemChanges
    BY <1>2, <1>4, SystemStanding DEF SystemChanges
  <1>5. CASE Verify
    <2>1. /\ cmd.vk \in Vk /\ cmd.host \in Host /\ HasShown(cmd.vk)
          /\ VerifyAndPinPeer(cmd.vk, cmd.host)
      BY <1>5 DEF Verify, VInv, CmdOK, Command
    <2> QED
      BY <1>1, <2>1, VerifyStanding DEF OthersSame
  <1>6. CASE OtherCommand
    <2>1. ASSUME NEW u \in Vk, NEW b \in BOOLEAN,
                 NEW field \in EditFields \cap {"enabled", "pinned", "verified",
                                                 "gateway"},
                 SetFlag(u, field, b)
          PROVE  peers[v] # NoPeer /\ peers[v].verified
      <3>1. \/ peers' = peers
            \/ /\ u \in Known(peers)
               /\ OthersSame(u)
               /\ peers'[u] # NoPeer => peers'[u].verified = peers[u].verified
        BY <2>1, FlagStanding
      <3> QED
        BY <3>1 DEF OthersSame, Known
    <2>2. ASSUME NEW key \in Vk \cup Host, UserRemovePeer(key)
          PROVE  peers'[v] = peers[v]
      BY <2>2, RemoveStanding DEF OthersSame
    <2> QED
      BY <1>1, <1>6, <2>1, <2>2 DEF OtherCommand
  <1>7. CASE UNCHANGED vars
    BY <1>1, <1>7 DEF vars
  <1> QED
    BY <1>1, <1>2, <1>3, <1>4, <1>5, <1>6, <1>7
       DEF VNext, vvars, MyVk, Speak, SendReunion, MayShow, Listen, Reunion,
           Lookup, Scan, ListenGets, ReunionGets, Compared, ScanLookup

\* A peer is marked as verified only after its key came from the other side in
\* one of the three ways, whatever organize heard between the look-up of the
\* name and the call of verify_and_pin_peer.
THEOREM OnlyShownIsVerified == VSpec => []VerifiedHasShown
  <1>1. VInit => VerifiedHasShown
    BY DEF VInit, Init, VerifiedHasShown, Known
  <1>2. VInv /\ VerifiedHasShown /\ [VNext]_vvars => VerifiedHasShown'
    <2> SUFFICES ASSUME VInv, VerifiedHasShown, [VNext]_vvars,
                        "verified" \notin EditFields,
                        NEW v \in Vk, peers'[v] # NoPeer, peers'[v].verified
                 PROVE  HasShown(v)'
      BY DEF VerifiedHasShown, HasShown, Known
    <2>1. HasShown(v)
      BY VerifiedStep DEF VerifiedHasShown, HasShown, Known
    <2> QED
      BY <2>1, ShownGrows DEF HasShown
  <1> QED
    BY <1>1, <1>2, VInvariance, PTL DEF VSpec

\* The host that is verified keeps its identity here too, unless its key file
\* was damaged: what it showed names the peer that is verified.
THEOREM VerifiedIdentityIsKept == VSpec => []OneIdentity
  <1>1. VInv => OneIdentity
    BY DEF VInv, KInv, SignedIsStored, OneIdentity
  <1> QED
    BY <1>1, VInvariance, PTL

-----------------------------------------------------------------------------
(* Verification implements TrustTable *)

\* The standing of the peer under v as TrustTable sees it.
StandingOf(v) ==
    IF v \in Known(peers)
    THEN [pinned |-> peers[v].pinned, verified |-> peers[v].verified]
    ELSE NoPeer

Book == [v \in Vk |-> StandingOf(v)]

\* Who made the last change.
By ==
    CASE result.event \in NetworkEvents -> "network"
      [] result.event = "VERIFY_AND_PIN_PEER" -> "verify"
      [] OTHER -> "user"

\* The standings that occur.
LEMMA StandingType ==
    ASSUME IInv, NEW v \in Vk
    PROVE  /\ v \in Known(peers) => /\ StandingOf(v) \in Trust!Standing
                                    /\ StandingOf(v) # NoPeer
                                    /\ StandingOf(v).pinned = peers[v].pinned
                                    /\ StandingOf(v).verified = peers[v].verified
           /\ v \notin Known(peers) => StandingOf(v) = NoPeer
  <1>1. CASE v \in Known(peers)
    <2>1. peers[v].pinned \in BOOLEAN /\ peers[v].verified \in BOOLEAN
      BY <1>1, KnownOK DEF PeerOK, Peer
    <2> QED
      BY <1>1, <2>1, VerificationTypes DEF StandingOf, Trust!Standing
  <1>2. CASE v \notin Known(peers)
    BY <1>2 DEF StandingOf
  <1> QED
    BY <1>1, <1>2

\* The same after a step.
LEMMA NextStandingType ==
    ASSUME IInv', NEW v \in Vk
    PROVE  StandingOf(v)' \in Trust!Standing \cup {NoPeer}
  <1>1. CASE v \in Known(peers')
    <2>1. PeerOK(v, peers'[v])
      BY <1>1 DEF IInv, TableOK, Known
    <2>2. peers'[v].pinned \in BOOLEAN /\ peers'[v].verified \in BOOLEAN
      BY <2>1 DEF PeerOK, Peer
    <2> QED
      BY <1>1, <2>2 DEF StandingOf, Trust!Standing
  <1> QED
    BY <1>1 DEF StandingOf

\* An entry that keeps its standing, is forgotten or is met maps to what
\* TrustTable allows the network.
LEMMA NetworkStanding ==
    ASSUME IInv, IInv', NEW v \in Vk, MetOrForgotten(v)
    PROVE  \/ StandingOf(v)' = StandingOf(v)
           \/ /\ StandingOf(v) # NoPeer /\ ~StandingOf(v).pinned
              /\ StandingOf(v)' = NoPeer
           \/ /\ StandingOf(v) = NoPeer /\ StandingOf(v)' # NoPeer
              /\ ~StandingOf(v)'.verified
  <1>1. /\ v \in Known(peers') => /\ StandingOf(v)' # NoPeer
                                  /\ StandingOf(v)'.verified = peers'[v].verified
        /\ v \notin Known(peers') => StandingOf(v)' = NoPeer
    <2>1. CASE v \in Known(peers')
      <3>1. PeerOK(v, peers'[v])
        BY <2>1 DEF IInv, TableOK, Known
      <3>2. peers'[v].pinned \in BOOLEAN /\ peers'[v].verified \in BOOLEAN
        BY <3>1 DEF PeerOK, Peer
      <3> QED
        BY <2>1, <3>2, VerificationTypes DEF StandingOf
    <2> QED
      BY <2>1 DEF StandingOf
  <1>2. CASE SameStanding(v)
    BY <1>2 DEF SameStanding, StandingOf, Known
  <1>3. CASE peers[v] # NoPeer /\ ~peers[v].pinned /\ peers'[v] = NoPeer
    BY <1>1, <1>3, StandingType DEF Known
  <1>4. CASE peers[v] = NoPeer /\ peers'[v] # NoPeer /\ ~peers'[v].verified
    BY <1>1, <1>4, StandingType DEF Known
  <1> QED
    BY <1>2, <1>3, <1>4 DEF MetOrForgotten

\* The last event decides who made the change.
LEMMA ByEvent ==
    /\ result.event \in NetworkEvents => By = "network"
    /\ result.event = "VERIFY_AND_PIN_PEER" => By = "verify"
    /\ result.event \notin NetworkEvents \cup {"VERIFY_AND_PIN_PEER"} => By = "user"
  BY DEF By, NetworkEvents

\* A step that leaves organize and what was shown alone is invisible.
LEMMA Invisible ==
    ASSUME UNCHANGED <<vars, shown>>
    PROVE  UNCHANGED Trust!tvars
  BY DEF vars, Trust!tvars, Known

\* An event of the network or of the system maps to a step of Network.
LEMMA NetworkMaps ==
    ASSUME IInv, IInv', result'.event \in NetworkEvents,
           \A v \in Vk : MetOrForgotten(v), UNCHANGED shown
    PROVE  Trust!Network
  <1>1. By' = "network"
    BY DEF By, NetworkEvents
  <1>2. \A v \in Vk : StandingOf(v)' \in Trust!Standing \cup {NoPeer}
    BY NextStandingType
  <1>3. Book' \in [Vk -> Trust!Standing \cup {NoPeer}]
    BY <1>2 DEF Book
  <1>4. \A v \in Vk :
           \/ Book'[v] = Book[v]
           \/ Book[v] # NoPeer /\ ~Book[v].pinned /\ Book'[v] = NoPeer
           \/ Book[v] = NoPeer /\ Book'[v] # NoPeer /\ ~Book'[v].verified
    BY NetworkStanding DEF Book
  <1>5. {s[2] : s \in shown}' = {s[2] : s \in shown}
    OBVIOUS
  <1> QED
    BY <1>1, <1>3, <1>4, <1>5 DEF Trust!Network, Book, StandingOf, By

\* A command that changes the entry of one known peer at most maps to a step of
\* User for that peer.
LEMMA UserMaps ==
    ASSUME IInv, IInv', NEW v \in Vk,
           result'.event \notin NetworkEvents \cup {"VERIFY_AND_PIN_PEER"},
           peers' = peers \/ (v \in Known(peers) /\ OthersSame(v)),
           UNCHANGED shown
    PROVE  Trust!User(v)
  <1>1. By' = "user"
    BY DEF By, NetworkEvents
  <1>2. \/ Book' = Book
        \/ /\ Book[v] # NoPeer
           /\ Book' \in {[Book EXCEPT ![v] = s] : s \in Trust!Standing \cup {NoPeer}}
    <2>1. CASE peers' = peers
      BY <2>1 DEF Book, StandingOf
    <2>2. CASE v \in Known(peers) /\ OthersSame(v)
      <3>1. Book[v] # NoPeer
        BY <2>2, StandingType DEF Book
      <3>2. \A u \in Vk \ {v} : StandingOf(u)' = StandingOf(u)
        BY <2>2 DEF OthersSame, StandingOf, Known
      <3>3. Book' = [Book EXCEPT ![v] = StandingOf(v)']
        BY <3>2 DEF Book
      <3>4. StandingOf(v)' \in Trust!Standing \cup {NoPeer}
        BY NextStandingType
      <3> QED
        BY <3>1, <3>3, <3>4
    <2> QED
      BY <2>1, <2>2
  <1>3. {s[2] : s \in shown}' = {s[2] : s \in shown}
    OBVIOUS
  <1> QED
    BY <1>1, <1>2, <1>3 DEF Trust!User, Book, StandingOf, By

\* verify_and_pin_peer maps to a step of Verify for a key that was shown.
LEMMA VerifyMaps ==
    ASSUME VInv, IInv', Verify, NEW v \in Vk, v = cmd.vk
    PROVE  Trust!Verify(v)
  <1>1. /\ cmd.host \in Host /\ HasShown(v) /\ UNCHANGED shown
        /\ VerifyAndPinPeer(v, cmd.host)
    BY DEF Verify, VInv, CmdOK, Command
  <1>2. /\ result'.event = "VERIFY_AND_PIN_PEER"
        /\ \/ peers' = peers
           \/ /\ v \in Known(peers)
              /\ OthersSame(v)
              /\ peers'[v] # NoPeer /\ peers'[v].pinned /\ peers'[v].verified
    BY <1>1, VerifyStanding DEF VInv
  <1>3. By' = "verify"
    BY <1>2 DEF By, NetworkEvents
  <1>4. v \in {s[2] : s \in shown}
    BY <1>1 DEF HasShown, Encoded
  <1>5. \/ Book' = Book
        \/ /\ Book[v] # NoPeer
           /\ Book' = [Book EXCEPT ![v] = [pinned |-> TRUE, verified |-> TRUE]]
    <2>1. CASE peers' = peers
      BY <2>1 DEF Book, StandingOf
    <2>2. CASE /\ v \in Known(peers)
               /\ OthersSame(v)
               /\ peers'[v] # NoPeer /\ peers'[v].pinned /\ peers'[v].verified
      <3>1. Book[v] # NoPeer
        BY <1>1, <2>2, StandingType DEF Book, VInv
      <3>2. \A u \in Vk \ {v} : StandingOf(u)' = StandingOf(u)
        BY <2>2 DEF OthersSame, StandingOf, Known
      <3>3. PeerOK(v, peers'[v])
        BY <1>1, <2>2 DEF IInv, TableOK
      <3>4. peers'[v].pinned = TRUE /\ peers'[v].verified = TRUE
        BY <2>2, <3>3 DEF PeerOK, Peer
      <3>5. StandingOf(v)' = [pinned |-> TRUE, verified |-> TRUE]
        BY <1>1, <2>2, <3>4 DEF StandingOf, Known
      <3>6. Book' = [Book EXCEPT ![v] = StandingOf(v)']
        BY <3>2 DEF Book
      <3> QED
        BY <3>1, <3>5, <3>6
    <2> QED
      BY <1>2, <2>1, <2>2
  <1>6. {s[2] : s \in shown}' = {s[2] : s \in shown}
    BY <1>1
  <1> QED
    BY <1>3, <1>4, <1>5, <1>6 DEF Trust!Verify, Book, StandingOf, By

\* Showing a key maps to a step of Show.
LEMMA ShowMaps ==
    ASSUME NEW enc, NEW v, shown' = shown \cup {Encoded(enc, v)}, UNCHANGED vars
    PROVE  Trust!Show(v)
  <1>1. {s[2] : s \in shown}' = {s[2] : s \in shown} \cup {v}
    <2> DEFINE shape == Encoded(enc, v)
    <2>1. shape[2] = v
      BY DEF Encoded
    <2>2. shown' = shown \cup {shape}
      OBVIOUS
    <2> HIDE DEF shape
    <2>3. {s[2] : s \in shown \cup {shape}} = {s[2] : s \in shown} \cup {shape[2]}
      OBVIOUS
    <2> QED
      BY <2>1, <2>2, <2>3
  <1>2. Book' = Book /\ By' = By
    BY DEF vars, Book, StandingOf, By
  <1> QED
    BY <1>1, <1>2 DEF Trust!Show, Book, StandingOf, By

\* Every step of Verification is a step of TrustTable or invisible there.
LEMMA TrustStep ==
    ASSUME VInv, VInv', [VNext]_vvars
    PROVE  [Trust!TNext]_(Trust!tvars)
  <1> IInv /\ IInv'
    BY DEF VInv
  <1>1. CASE UNCHANGED <<vars, shown>>
    BY <1>1, Invisible
  <1>2. CASE shown' # shown
    <2>1. PICK enc \in Encoding : shown' = shown \cup {Encoded(enc, keys)}
      BY <1>2, ShownGrows
    <2>2. PICK v \in Vk : v = keys
      BY <1>2, ShownGrows
    <2>3. UNCHANGED vars
      BY <1>2, ShownGrows
    <2>4. Trust!Show(v)
      BY <2>1, <2>2, <2>3, ShowMaps
    <2> QED
      BY <2>4 DEF Trust!TNext
  <1>3. ASSUME NEW d \in Descs, Hear(d) \/ ScanDescriptor(d)
        PROVE  Trust!TNext
    <2>1. result'.event = "INCOMING_DESCRIPTOR" /\ UNCHANGED shown
      BY <1>3 DEF Hear, ScanDescriptor, AcceptDescriptor, RejectDescriptor,
                  ValidatePeers, Validate, Abort, NoWrites, cvars
    <2>2. CASE AcceptDescriptor(d)
      BY <2>1, <2>2, AcceptStanding, NetworkMaps DEF NetworkEvents, Trust!TNext
    <2>3. CASE RejectDescriptor(d)
      <3>1. \A v \in Vk : MetOrForgotten(v)
        BY <2>3 DEF RejectDescriptor, NoWrites, MetOrForgotten, SameStanding
      <3> QED
        BY <2>1, <3>1, NetworkMaps DEF NetworkEvents, Trust!TNext
    <2> QED
      BY <1>3, <2>2, <2>3 DEF Hear, ScanDescriptor
  <1>4. CASE SystemChanges
    <2>1. PICK s \in SysStates : NewSystemState(s)
      BY <1>4 DEF SystemChanges
    <2>2. result'.event = "NEW_SYSTEM_STATE" /\ UNCHANGED shown
      BY <1>4, <2>1 DEF SystemChanges, NewSystemState, Validate, Abort, cvars
    <2> QED
      BY <2>1, <2>2, SystemStanding, NetworkMaps DEF NetworkEvents, Trust!TNext
  <1>5. CASE Verify
    <2>1. PICK v \in Vk : v = cmd.vk
      BY <1>5 DEF Verify, VInv, CmdOK, Command
    <2>2. Trust!Verify(v)
      BY <1>5, <2>1, VerifyMaps
    <2> QED
      BY <2>2 DEF Trust!TNext
  <1>6. CASE OtherCommand
    <2>1. UNCHANGED shown
      BY <1>6 DEF OtherCommand, cvars
    <2>2. ASSUME NEW v \in Vk, NEW b \in BOOLEAN,
                 NEW field \in EditFields \cap {"enabled", "pinned", "verified",
                                                 "gateway"},
                 SetFlag(v, field, b)
          PROVE  Trust!TNext
      <3>1. /\ result'.event = "USER_EDIT"
            /\ peers' = peers \/ (v \in Known(peers) /\ OthersSame(v))
        BY <2>2, FlagStanding
      <3> QED
        BY <2>1, <3>1, UserMaps DEF NetworkEvents, Trust!TNext
    <2>3. ASSUME NEW key \in Vk \cup Host, UserRemovePeer(key)
          PROVE  Trust!TNext
      <3>1. result'.event = "USER_REMOVE_PEER"
        BY <2>3, RemoveStanding
      <3>2. PICK v \in Vk : peers' = peers \/ (v \in Known(peers) /\ OthersSame(v))
        BY <2>3, RemoveStanding, VerificationTypes DEF Known
      <3>3. Trust!User(v)
        BY <2>1, <3>1, <3>2, UserMaps DEF NetworkEvents
      <3> QED
        BY <3>3 DEF Trust!TNext
    <2> QED
      BY <1>6, <2>2, <2>3 DEF OtherCommand
  <1> QED
    BY <1>1, <1>2, <1>3, <1>4, <1>5, <1>6
       DEF VNext, vvars, cvars, MyVk, Speak, SendReunion, MayShow, Listen,
           Reunion, Lookup, Scan, ListenGets, ReunionGets, Compared, ScanLookup

\* Organize, with the commands that verify peers, implements TrustTable: nobody
\* but the user changes the standing of a pinned peer, a command changes the
\* peer that it names, and only a key that was shown is verified.
THEOREM TrustRefinement == VSpec => ImplementsTrust
  <1>1. VInit => Trust!TInit
    <2> SUFFICES ASSUME VInit PROVE Trust!TInit
      OBVIOUS
    <2>1. Known(peers) = {}
      BY DEF VInit, Init, Known
    <2>2. By = "user"
      BY ByEvent DEF VInit, Init, NetworkEvents
    <2>3. {s[2] : s \in shown} = {}
      BY DEF VInit
    <2> QED
      BY <2>1, <2>2, <2>3 DEF Trust!TInit, By
  <1>2. VInv /\ VInv' /\ [VNext]_vvars => [Trust!TNext]_(Trust!tvars)
    BY TrustStep
  <1> QED
    BY <1>1, <1>2, VInvariance, PTL DEF VSpec, ImplementsTrust, Trust!TSpec
=============================================================================
