--------------------------- MODULE FrontendProofs ---------------------------
(***************************************************************************)
(* Proofs about Frontend, for every choice of its constants: the window is *)
(* an ordinary user of organize, a click changes no peer but the one that  *)
(* is shown, and saving the preferences undoes no change of others.        *)
(*                                                                         *)
(* The inductive invariant says of what is on the screen that it is well   *)
(* formed, though it may be out of date: a card has the key of some peer,  *)
(* and no name that stands for the lack of one (WindowOK); only editable   *)
(* preferences were edited (SettingsOK); and the calls of save_prefs that  *)
(* are still to be made are about values that were struck out (CallsOK).   *)
(***************************************************************************)
EXTENDS Frontend, OrganizeStateProofs, SequenceLemmas

Card == [id : Vk, name : Host \cup {Unnamed}, other_names : SUBSET Host]

\* The Tk thread between two calls to organize.
Purpose == {"open", "display", "compare", "redraw"}
Asked == {Asking(then) : then \in Purpose}
Reading == [at : {"show_peer"}, then : Purpose, ids : Seq(Vk) \ {<<>>},
            got : Seq(Card)]
RemovingPref == {[at |-> "remove_pref", left |-> left] : left \in SUBSET Struck}

CallsOK == gui \in {Closed, Idle} \cup Asked \cup Reading \cup RemovingPref

WindowOK ==
    /\ cards \in Seq(Card)
    /\ page \in Int
    /\ details # NoPeer => details \in Card

\* A value is in the text and not on the screen, or the other way round, only
\* if the preference can be edited.
SettingsOK ==
    /\ settings \in [mode : {"view", "edit"}, shown : Prefs, text : Prefs]
    /\ settings.shown.subnets_allowed \ settings.text.subnets_allowed # {} =>
          "subnets_allowed" \in PrefFields
    /\ settings.shown.local_domains \ settings.text.local_domains # {} =>
          "local_domains" \in PrefFields

FInv == IInv /\ CallsOK /\ WindowOK /\ SettingsOK /\ events \in Nat

-----------------------------------------------------------------------------
(* What is read from organize *)

\* The name of a peer is one it has, or none, and not the empty one.
LEMMA NameType ==
    ASSUME NEW q \in Peer
    PROVE  Name(q) \in Host \cup {Unnamed} /\ OtherNames(q) \in SUBSET Host
  BY DEF Name, OtherNames, Peer

\* What get_peers finds by the number of a line is what Peer.show wrote, or
\* nothing: a warning pushes the other names aside.
LEMMA ParseShow ==
    ASSUME NEW q \in Peer, NEW configured \in BOOLEAN, q.desc.vk \in Vk
    PROVE  ParsePeer(ShowPeer(q, configured)) =
              [id |-> q.desc.vk, name |-> Name(q),
               other_names |-> IF configured THEN OtherNames(q) ELSE {}]
  <1> DEFINE l1 == <<"peer", Name(q)>>
             l2 == <<"id", q.desc.vk>>
             w  == <<"warning", "not configured">>
             o  == <<"other names", OtherNames(q)>>
             st == <<"status", [enabled |-> q.enabled, pinned |-> q.pinned,
                                verified |-> q.verified]>>
             S  == {l1, l2, w, o, st}
             ws == IF configured THEN <<>> ELSE <<w>>
             os == IF OtherNames(q) = {} THEN <<>> ELSE <<o>>
             lines == <<l1, l2>> \o ws \o os \o <<st>>
  <1>1. /\ l1[2] = Name(q) /\ l2[2] = q.desc.vk /\ o[2] = OtherNames(q)
        /\ w[1] # "other names" /\ st[1] # "other names" /\ o[1] = "other names"
    OBVIOUS
  <1>2. ShowPeer(q, configured) = lines
    BY DEF ShowPeer
  <1>3. /\ <<l1, l2>> \in Seq(S) /\ <<st>> \in Seq(S)
        /\ ws \in Seq(S) /\ os \in Seq(S)
    <2>1. /\ l1 \in S /\ l2 \in S /\ w \in S /\ o \in S /\ st \in S
      OBVIOUS
    <2> HIDE DEF l1, l2, w, o, st, S
    <2> QED
      BY <2>1
  <1>4. /\ configured => Len(ws) = 0
        /\ ~configured => Len(ws) = 1 /\ ws[1] = w
        /\ OtherNames(q) = {} => Len(os) = 0
        /\ OtherNames(q) # {} => Len(os) = 1 /\ os[1] = o
    <2> HIDE DEF w, o
    <2> QED
      OBVIOUS
  <1> HIDE DEF l1, l2, w, o, st, S, ws, os
  <1>5. /\ lines[1] = l1 /\ lines[2] = l2
        /\ ~configured => lines[3] = w
        /\ configured /\ OtherNames(q) = {} => lines[3] = st
        /\ configured /\ OtherNames(q) # {} => lines[3] = o
    BY <1>3, <1>4
  <1> QED
    BY <1>1, <1>2, <1>5 DEF ParsePeer

\* A card that is read is well formed.
LEMMA CardRead ==
    ASSUME IInv, NEW v \in Known(peers), NEW configured \in BOOLEAN
    PROVE  ParsePeer(ShowPeer(peers[v], configured)) \in Card
  <1>1. v \in Vk /\ peers[v] \in Peer /\ peers[v].desc.vk = v
    BY KnownOK DEF Known, PeerOK
  <1>2. /\ Name(peers[v]) \in Host \cup {Unnamed}
        /\ OtherNames(peers[v]) \in SUBSET Host
    BY <1>1, NameType
  <1> QED
    BY <1>1, <1>2, ParseShow DEF Card

\* A page is a part of the list.
LEMMA PageType ==
    ASSUME NEW all \in Seq(Card), NEW n \in Int
    PROVE  OnPage(all, n) \in Seq(Card)
  <1>1. PerPage \in Nat
    BY FrontendTypes
  <1>2. (n - 1) * PerPage \in Int
    BY <1>1
  <1>3. ASSUME NEW from \in Int, NEW to \in Int
        PROVE  Slice(all, from, to) \in Seq(Card)
    BY <1>3 DEF Slice
  <1> QED
    BY <1>1, <1>2, <1>3 DEF OnPage

-----------------------------------------------------------------------------
(* To organize the window is a user like any other *)

\* Striking out a value is an edit of a preference.
LEMMA RemovePrefIsEdit ==
    ASSUME SettingsOK, NEW call \in Struck,
           EditPrefs([prefs EXCEPT ![call[1]] = @ \ {call[2]}])
    PROVE  NameStep \/ CommandStep
  <1>1. PICK pref \in ListPrefs :
           \E y \in settings.shown[pref] \ settings.text[pref] : call = <<pref, y>>
    BY DEF Struck
  <1>2. PICK x \in settings.shown[pref] \ settings.text[pref] : call = <<pref, x>>
    BY <1>1
  <1>3. call[1] = pref /\ call[2] = x
    BY <1>2
  <1>4. CASE pref = "subnets_allowed"
    <2>1. x \in Subnet /\ "subnets_allowed" \in PrefFields
      BY <1>1, <1>4 DEF SettingsOK, Prefs
    <2>2. EditPrefs([prefs EXCEPT !.subnets_allowed = @ \ {x}])
      BY <1>3, <1>4
    <2>3. EditSubnetsAllowed(x)
      BY <2>1, <2>2 DEF EditSubnetsAllowed
    <2> QED
      BY <2>1, <2>3 DEF CommandStep
  <1>5. CASE pref = "local_domains"
    <2>1. x \in Domain /\ "local_domains" \in PrefFields
      BY <1>1, <1>5 DEF SettingsOK, Prefs
    <2>2. EditPrefs([prefs EXCEPT !.local_domains = @ \ {x}])
      BY <1>3, <1>5
    <2>3. EditLocalDomains(x)
      BY <2>1, <2>2 DEF EditLocalDomains
    <2> QED
      BY <2>1, <2>3 DEF NameStep
  <1> QED
    BY <1>4, <1>5 DEF ListPrefs

\* Verifying a peer under a name that stands for none or several fails like
\* verifying it under a name that no peer has.
LEMMA NoSuchName ==
    ASSUME IInv, NEW v \in Vk, NEW h, h \notin Host, VerifyAndPinPeer(v, h)
    PROVE  VerifyAndPinPeer(v, NoName) /\ Abort("VERIFY_AND_PIN_PEER")
  <1>1. \A u \in Known(peers) : peers[u].names \subseteq Host
    BY KnownOK DEF PeerOK, Peer
  <1>2. WithHostname(peers, h) # {v} /\ WithHostname(peers, NoName) # {v}
    BY <1>1, NullValues DEF WithHostname, Enabled
  <1>3. Abort("VERIFY_AND_PIN_PEER")
    BY <1>2 DEF VerifyAndPinPeer
  <1> QED
    BY <1>2, <1>3 DEF VerifyAndPinPeer

\* A call of save_prefs is one of the commands of a user.
LEMMA PrefStep ==
    ASSUME FInv, RemovePref
    PROVE  UserStep
  <1>1. /\ gui # Closed /\ gui.at = "remove_pref"
        /\ \E call \in gui.left :
              EditPrefs([prefs EXCEPT ![call[1]] = @ \ {call[2]}])
    BY DEF RemovePref
  <1>2. gui.left \in SUBSET Struck
    BY <1>1 DEF FInv, CallsOK, Idle, Asked, Asking, Reading, RemovingPref
  <1> QED
    BY <1>1, <1>2, RemovePrefIsEdit DEF FInv, UserStep

\* The buttons of the window with the details are commands about one peer.
LEMMA DetailsSteps ==
    ASSUME FInv, DetailsStep
    PROVE  UserStep \/ UNCHANGED vars
  <1>1. details # NoPeer => details \in Card /\ details.id \in Vk
    BY DEF FInv, WindowOK, Card
  <1>2. CASE DeletePeer
    BY <1>1, <1>2 DEF DeletePeer, UserStep, CommandStep
  <1>3. ASSUME NEW n \in Host \cup {NoName}, RenamePeer(n)
        PROVE  UserStep
    BY <1>1, <1>3 DEF RenamePeer, UserStep, NameStep, PeerNameStep
  <1>4. CASE PinVerify
    <2>1. details.id \in Vk /\ VerifyAndPinPeer(details.id, NameToVerify(details))
      BY <1>1, <1>4 DEF PinVerify
    <2>2. PICK h \in Host \cup {NoName} : VerifyAndPinPeer(details.id, h)
      BY <2>1, NoSuchName DEF FInv
    <2> QED
      BY <2>1, <2>2 DEF UserStep, CommandStep, UserPeerStep
  <1>5. ASSUME NEW a \in UserAddrs, AddAdditionalIp(a)
        PROVE  UserStep
    BY <1>1, <1>5 DEF AddAdditionalIp, UserStep, CommandStep, UserPeerStep
  <1>6. CASE CloseDetails
    BY <1>6 DEF CloseDetails
  <1> QED
    BY <1>2, <1>3, <1>4, <1>5, <1>6 DEF DetailsStep

\* What the window and others do to organize is what its network and its users
\* do.
LEMMA WindowSteps ==
    ASSUME FInv, [FNext]_fvars
    PROVE  [Next]_vars
  <1>1. CASE UNCHANGED fvars
    BY <1>1 DEF fvars
  <1>2. CASE Elsewhere
    BY <1>2 DEF Elsewhere, Next, NetworkStep
  <1>3. CASE RemovePref
    BY <1>3, PrefStep DEF Next
  <1>4. CASE DetailsStep
    BY <1>4, DetailsSteps DEF Next
  <1>5. CASE \/ OpenWindow \/ UpdateLoop \/ AskPeerIds \/ AskShowPeer
             \/ OpenDetails \/ SettingsStep
             \/ \E button \in buttons : TurnPage(button)
    BY <1>5 DEF OpenWindow, UpdateLoop, AskPeerIds, AskShowPeer, OpenDetails,
                SettingsStep, SetEditable, SavePrefs, Cancel, Toggle, EditText,
                TurnPage
  <1> QED
    BY <1>1, <1>2, <1>3, <1>4, <1>5 DEF FNext, GuiThread

-----------------------------------------------------------------------------
(* The inductive invariant *)

\* A text that nobody has edited.
LEMMA SameText ==
    ASSUME settings'.shown = settings'.text,
           settings' \in [mode : {"view", "edit"}, shown : Prefs, text : Prefs]
    PROVE  SettingsOK'
  <1>1. \A S : S \ S = {}
    OBVIOUS
  <1> QED
    BY <1>1 DEF SettingsOK

\* No window, and nothing read yet.
LEMMA FInvInit == FInit => FInv
  <1> SUFFICES ASSUME FInit PROVE FInv
    OBVIOUS
  <1>1. IInv
    BY InitOK DEF FInit
  <1>2. CallsOK /\ WindowOK
    BY DEF FInit, CallsOK, WindowOK
  <1>3. SettingsOK
    <2>1. prefs \in Prefs
      BY <1>1 DEF IInv
    <2>2. settings = [mode |-> "view", shown |-> prefs, text |-> prefs]
      BY DEF FInit
    <2>3. settings.shown = settings.text
      BY <2>2
    <2>4. /\ settings.shown.subnets_allowed \ settings.text.subnets_allowed = {}
          /\ settings.shown.local_domains \ settings.text.local_domains = {}
      BY <2>3
    <2>5. settings \in [mode : {"view", "edit"}, shown : Prefs, text : Prefs]
      BY <2>1, <2>2
    <2> QED
      BY <2>4, <2>5 DEF SettingsOK
  <1> QED
    BY <1>1, <1>2, <1>3 DEF FInit, FInv

\* What is left when all peers are read.
LEMMA GotPeersOK ==
    ASSUME WindowOK, NEW then \in Purpose, NEW all \in Seq(Card),
           GotPeers(then, all), UNCHANGED <<page, details>>
    PROVE  gui' \in {Idle} \cup Asked /\ WindowOK'
  <1>1. OnPage(all, page) \in Seq(Card)
    BY PageType DEF WindowOK
  <1>2. Asking("redraw") \in Asked
    BY DEF Asked, Purpose
  <1>3. /\ cards' \in {cards, <<>>, OnPage(all, page)}
        /\ gui' \in {Idle, Asking("redraw")}
    BY DEF GotPeers, DisplayPeers, StartRedraw, Purpose
  <1>4. cards' \in Seq(Card)
    <2>1. cards \in Seq(Card) /\ <<>> \in Seq(Card)
      BY DEF WindowOK
    <2> QED
      BY <1>1, <1>3, <2>1
  <1> QED
    BY <1>2, <1>3, <1>4 DEF WindowOK

\* The reading of the peers begins.
LEMMA AskPeerIdsOK ==
    ASSUME FInv, AskPeerIds
    PROVE  CallsOK' /\ WindowOK'
  <1>1. gui \in Asked /\ gui.then \in Purpose /\ WindowOK
    BY DEF AskPeerIds, FInv, CallsOK, Idle, Asked, Asking, Reading, RemovingPref
  <1>2. UNCHANGED <<page, details>>
    BY DEF AskPeerIds
  <1>3. PICK ids \in SetToSeqs(Enabled(peers)) :
           IF ids = <<>> THEN GotPeers(gui.then, <<>>)
           ELSE /\ gui' = [at |-> "show_peer", then |-> gui.then,
                           ids |-> ids, got |-> <<>>]
                /\ UNCHANGED <<wvars, looping>>
    BY DEF AskPeerIds
  <1>4. ids \in Seq(Vk)
    <2>1. Enabled(peers) \subseteq Vk
      BY DEF Enabled, Known
    <2>2. IsFiniteSet(Enabled(peers))
      BY <2>1, FrontendTypes, FS_Subset
    <2>3. ids \in Seq(Enabled(peers))
      BY <2>2, OrdersOfSet
    <2> QED
      BY <2>1, <2>3
  <1>5. CASE GotPeers(gui.then, <<>>)
    <2>1. <<>> \in Seq(Card)
      OBVIOUS
    <2> QED
      BY <1>1, <1>2, <1>5, <2>1, GotPeersOK DEF CallsOK
  <1>6. CASE /\ gui' = [at |-> "show_peer", then |-> gui.then,
                        ids |-> ids, got |-> <<>>]
             /\ ids # <<>> /\ UNCHANGED wvars
    <2>1. gui' \in Reading
      BY <1>1, <1>4, <1>6 DEF Reading
    <2> QED
      BY <1>1, <1>2, <1>6, <2>1 DEF CallsOK, WindowOK, wvars
  <1> QED
    BY <1>3, <1>5, <1>6

\* The peer that is read is not the last one of the list.
LEMMA NotTheLast ==
    ASSUME NEW s \in Seq(Vk), s # <<>>, Len(s) # 1
    PROVE  Tail(s) \in Seq(Vk) \ {<<>>}
  <1>1. Len(s) \in Nat /\ Len(s) # 0
    OBVIOUS
  <1>2. Tail(s) \in Seq(Vk) /\ Len(Tail(s)) = Len(s) - 1
    BY <1>1
  <1>3. Len(Tail(s)) # 0 /\ Len(<<>>) = 0
    BY <1>1, <1>2
  <1>4. Tail(s) # <<>>
    BY <1>3, Zenon
  <1> QED
    BY <1>2, <1>4, Zenon

\* One peer is read, or was removed in the meantime.
LEMMA AskShowPeerOK ==
    ASSUME FInv, AskShowPeer
    PROVE  CallsOK' /\ WindowOK'
  <1>1. gui \in Reading /\ WindowOK /\ IInv
    <2>1. gui # Closed /\ gui.at = "show_peer"
      BY DEF AskShowPeer
    <2>2. gui # Idle /\ gui \notin Asked /\ gui \notin RemovingPref
      BY <2>1 DEF Idle, Asked, Asking, RemovingPref
    <2> QED
      BY <2>1, <2>2 DEF FInv, CallsOK
  <1>2. /\ gui.then \in Purpose /\ gui.got \in Seq(Card)
        /\ gui.ids \in Seq(Vk) /\ gui.ids # <<>>
        /\ gui = [at |-> "show_peer", then |-> gui.then, ids |-> gui.ids,
                  got |-> gui.got]
    BY <1>1 DEF Reading
  <1>3. UNCHANGED <<page, details>>
    BY DEF AskShowPeer
  <1>4. CASE ReadFails(gui.then)
    BY <1>1, <1>3, <1>4 DEF ReadFails, CallsOK, WindowOK, wvars
  <1>5. ASSUME Head(gui.ids) \in Known(peers), NEW configured \in BOOLEAN,
               NEW got, got = Append(gui.got,
                                ParsePeer(ShowPeer(peers[Head(gui.ids)], configured))),
               IF Len(gui.ids) = 1 THEN GotPeers(gui.then, got)
               ELSE /\ gui' = [gui EXCEPT !.ids = Tail(@), !.got = got]
                    /\ UNCHANGED <<wvars, looping>>
        PROVE  CallsOK' /\ WindowOK'
    <2>1. got \in Seq(Card)
      BY <1>1, <1>2, <1>5, CardRead
    <2>2. CASE Len(gui.ids) = 1
      BY <1>1, <1>2, <1>3, <1>5, <2>1, <2>2, GotPeersOK DEF CallsOK
    <2>3. CASE Len(gui.ids) # 1
      <3>1. /\ gui' = [gui EXCEPT !.ids = Tail(@), !.got = got]
            /\ UNCHANGED wvars
        BY <1>5, <2>3
      <3>2. Tail(gui.ids) \in Seq(Vk) \ {<<>>}
        BY <1>2, <2>3, NotTheLast
      <3>3. gui' \in Reading
        BY <1>1, <2>1, <3>1, <3>2 DEF Reading
      <3> QED
        BY <1>1, <1>3, <3>1, <3>3 DEF CallsOK, WindowOK, wvars
    <2> QED
      BY <2>2, <2>3
  <1> QED
    BY <1>4, <1>5 DEF AskShowPeer

\* After a button of the details the list of peers is drawn again.
LEMMA DetailsStepOK ==
    ASSUME FInv, DetailsStep
    PROVE  CallsOK' /\ WindowOK' /\ UNCHANGED settings
  <1>1. CASE CloseDetails
    BY <1>1 DEF CloseDetails, FInv, CallsOK, WindowOK, wvars, RemovingPref, Struck
  <1>2. ASSUME NEW removed \in BOOLEAN, DetailsClosed(removed)
        PROVE  CallsOK' /\ WindowOK' /\ UNCHANGED settings
    <2>1. gui' \in Asked
      BY <1>2 DEF DetailsClosed, Asked, Purpose
    <2>2. page' \in Int /\ details' = NoPeer /\ cards' = <<>>
      BY <1>2 DEF DetailsClosed, FInv, WindowOK
    <2>3. cards' \in Seq(Card)
      BY <2>2
    <2>4. UNCHANGED settings
      BY <1>2 DEF DetailsClosed
    <2> QED
      BY <2>1, <2>2, <2>3, <2>4 DEF CallsOK, WindowOK
  <1> QED
    BY <1>1, <1>2
       DEF DetailsStep, DeletePeer, RenamePeer, PinVerify, AddAdditionalIp

\* The user edits only what is shown in a text or as a button, and the
\* preferences stay well formed in the text.
LEMMA SettingsStepOK ==
    ASSUME FInv, SettingsStep
    PROVE  CallsOK' /\ WindowOK' /\ SettingsOK'
  <1>1. prefs \in Prefs /\ SettingsOK /\ WindowOK /\ gui = Idle
    BY DEF FInv, IInv, SettingsStep, SetEditable, SavePrefs, Cancel, Toggle,
           EditText, Click
  <1>2. CASE SavePrefs
    <2>1. gui' = Saving(Struck) /\ UNCHANGED <<wvars, details, settings>>
      BY <1>2 DEF SavePrefs
    <2>2. Struck' = Struck
      BY <2>1 DEF Struck
    <2>3. gui' \in {Idle} \cup RemovingPref'
      BY <2>1, <2>2 DEF Saving, RemovingPref
    <2> QED
      BY <1>1, <2>1, <2>3 DEF CallsOK, WindowOK, SettingsOK, wvars
  <1>3. CASE \/ SetEditable \/ Cancel \/ Toggle
             \/ \E pref \in PrefFields \cap ListPrefs : \E x \in Values(pref) :
                   EditText(pref, x)
    <2>1. UNCHANGED <<gui, wvars, details>>
      BY <1>3 DEF SetEditable, Cancel, Toggle, EditText
    <2>2. CallsOK' /\ WindowOK'
      BY <1>1, <2>1 DEF CallsOK, WindowOK, wvars
    <2>3. ASSUME SetEditable PROVE SettingsOK'
      <3>1. settings' = [settings EXCEPT !.mode = "edit", !.text = settings.shown]
        BY <2>3 DEF SetEditable
      <3>2. settings'.shown = settings'.text
        BY <1>1, <3>1 DEF SettingsOK
      <3>3. settings' \in [mode : {"view", "edit"}, shown : Prefs, text : Prefs]
        BY <1>1, <3>1 DEF SettingsOK
      <3> QED
        BY <3>2, <3>3, SameText
    <2>4. ASSUME Cancel PROVE SettingsOK'
      <3>1. settings' = [mode |-> "view", shown |-> prefs, text |-> prefs]
        BY <2>4 DEF Cancel
      <3>2. settings'.shown = settings'.text
        BY <3>1
      <3>3. settings' \in [mode : {"view", "edit"}, shown : Prefs, text : Prefs]
        BY <1>1, <3>1
      <3> QED
        BY <3>2, <3>3, SameText
    <2>5. ASSUME Toggle PROVE SettingsOK'
      <3>1. settings' = [settings EXCEPT !.text.pin_new_peers = ~@]
        BY <2>5 DEF Toggle
      <3>2. settings' \in [mode : {"view", "edit"}, shown : Prefs, text : Prefs]
        BY <1>1, <3>1 DEF SettingsOK, Prefs
      <3>3. /\ settings'.shown = settings.shown
            /\ settings'.text.subnets_allowed = settings.text.subnets_allowed
            /\ settings'.text.local_domains = settings.text.local_domains
        BY <1>1, <3>1 DEF SettingsOK, Prefs
      <3> QED
        BY <1>1, <3>2, <3>3 DEF SettingsOK
    <2>6. ASSUME NEW pref \in PrefFields \cap ListPrefs, NEW x \in Values(pref),
                 EditText(pref, x)
          PROVE  SettingsOK'
      <3>1. PICK now : /\ settings' = [settings EXCEPT !.text[pref] = now]
                       /\ now \in {settings.text[pref] \ {x},
                                   settings.text[pref] \cup {x}}
        BY <2>6 DEF EditText
      <3>2. CASE pref = "subnets_allowed"
        <4>1. now \in SUBSET Subnet /\ settings' = [settings EXCEPT !.text.subnets_allowed = now]
          BY <1>1, <2>6, <3>1, <3>2 DEF Values, SettingsOK, Prefs
        <4>2. settings' \in [mode : {"view", "edit"}, shown : Prefs, text : Prefs]
          BY <1>1, <4>1 DEF SettingsOK, Prefs
        <4>3. /\ settings'.shown = settings.shown
              /\ settings'.text.local_domains = settings.text.local_domains
          BY <1>1, <4>1 DEF SettingsOK, Prefs
        <4> QED
          BY <1>1, <3>2, <4>2, <4>3 DEF SettingsOK
      <3>3. CASE pref = "local_domains"
        <4>1. now \in SUBSET Domain /\ settings' = [settings EXCEPT !.text.local_domains = now]
          BY <1>1, <2>6, <3>1, <3>3 DEF Values, SettingsOK, Prefs
        <4>2. settings' \in [mode : {"view", "edit"}, shown : Prefs, text : Prefs]
          BY <1>1, <4>1 DEF SettingsOK, Prefs
        <4>3. /\ settings'.shown = settings.shown
              /\ settings'.text.subnets_allowed = settings.text.subnets_allowed
          BY <1>1, <4>1 DEF SettingsOK, Prefs
        <4> QED
          BY <1>1, <3>3, <4>2, <4>3 DEF SettingsOK
      <3> QED
        BY <3>2, <3>3 DEF ListPrefs
    <2> QED
      BY <1>3, <2>2, <2>3, <2>4, <2>5, <2>6
  <1> QED
    BY <1>2, <1>3 DEF SettingsStep

\* Every step keeps the invariant.
LEMMA FInvNext == FInv /\ [FNext]_fvars => FInv'
  <1> SUFFICES ASSUME FInv, [FNext]_fvars PROVE FInv'
    OBVIOUS
  <1>1. IInv' /\ events' \in Nat
    <2>1. events' = events \/ Elsewhere
      BY DEF FNext, fvars, OpenWindow, UpdateLoop, GuiThread,
             AskPeerIds, AskShowPeer, RemovePref, TurnPage, OpenDetails,
             SettingsStep, SetEditable, SavePrefs, Cancel, Toggle, EditText,
             DetailsStep, DeletePeer, PinVerify, RenamePeer, AddAdditionalIp,
             CloseDetails, DetailsClosed
    <2>2. events' \in {events, events + 1}
      BY <2>1 DEF Elsewhere
    <2> QED
      BY <2>2, WindowSteps, NextOK DEF FInv
  <1>2. CallsOK /\ WindowOK /\ SettingsOK /\ IInv
    BY DEF FInv
  <1>3. ASSUME UNCHANGED settings PROVE SettingsOK' /\ Struck' = Struck
    BY <1>2, <1>3 DEF SettingsOK, Struck
  <1> SUFFICES CallsOK' /\ WindowOK' /\ SettingsOK'
    BY <1>1 DEF FInv
  <1>4. CASE UNCHANGED <<gui, cards, page, details, settings>>
    BY <1>2, <1>3, <1>4 DEF CallsOK, WindowOK, RemovingPref, SettingsOK
  <1>5. CASE OpenWindow
    <2>1. gui' \in Asked /\ UNCHANGED <<wvars, details>>
      BY <1>5 DEF OpenWindow, Asked, Purpose
    <2>2. settings' = [mode |-> "view", shown |-> prefs, text |-> prefs]
      BY <1>5 DEF OpenWindow
    <2>3. settings'.shown = settings'.text
      BY <2>2
    <2>4. settings' \in [mode : {"view", "edit"}, shown : Prefs, text : Prefs]
      BY <1>2, <2>2 DEF IInv
    <2> QED
      BY <1>2, <2>1, <2>3, <2>4, SameText DEF CallsOK, WindowOK, wvars
  <1>6. CASE UpdateLoop
    <2>1. gui' \in Asked /\ UNCHANGED <<wvars, details, settings>>
      BY <1>6 DEF UpdateLoop, Asked, Purpose
    <2> QED
      BY <1>2, <1>3, <2>1 DEF CallsOK, WindowOK, wvars
  <1>7. CASE AskPeerIds
    BY <1>3, <1>7, AskPeerIdsOK DEF AskPeerIds
  <1>8. CASE AskShowPeer
    BY <1>3, <1>8, AskShowPeerOK DEF AskShowPeer
  <1>9. CASE RemovePref
    <2>1. PICK call \in gui.left : gui' = Saving(gui.left \ {call})
      BY <1>9 DEF RemovePref
    <2>2. gui.left \in SUBSET Struck
      BY <1>2, <1>9 DEF RemovePref, CallsOK, Idle, Asked, Asking, Reading, RemovingPref
    <2>3. UNCHANGED <<wvars, details, settings>>
      BY <1>9 DEF RemovePref
    <2>4. gui' \in {Idle} \cup RemovingPref'
      BY <1>3, <2>1, <2>2, <2>3 DEF Saving, RemovingPref
    <2> QED
      BY <1>2, <1>3, <2>3, <2>4 DEF CallsOK, WindowOK, wvars
  <1>10. ASSUME NEW button \in buttons, TurnPage(button)
         PROVE  CallsOK' /\ WindowOK' /\ SettingsOK'
    <2>1. gui' \in Asked /\ UNCHANGED <<details, settings>> /\ cards' = <<>>
      BY <1>10 DEF TurnPage, Asked, Purpose
    <2>2. page' \in Int
      BY <1>2, <1>10 DEF TurnPage, WindowOK
    <2>3. cards' \in Seq(Card)
      BY <2>1
    <2> QED
      BY <1>2, <1>3, <2>1, <2>2, <2>3 DEF CallsOK, WindowOK
  <1>11. CASE OpenDetails
    <2>1. cards \in Seq(Card) /\ cards # <<>> /\ details' = Last(cards)
      BY <1>2, <1>11 DEF OpenDetails, WindowOK
    <2>2. details' \in Card
      BY <2>1 DEF Last
    <2>3. UNCHANGED <<gui, wvars, settings>>
      BY <1>11 DEF OpenDetails
    <2> QED
      BY <1>2, <1>3, <2>2, <2>3 DEF CallsOK, WindowOK, RemovingPref, wvars
  <1>12. CASE DetailsStep
    BY <1>3, <1>12, DetailsStepOK
  <1>13. CASE SettingsStep
    BY <1>13, SettingsStepOK
  <1> QED
    BY <1>4, <1>5, <1>6, <1>7, <1>8, <1>9, <1>10, <1>11, <1>12, <1>13
       DEF FNext, GuiThread, fvars, wvars, Elsewhere

\* What is on the screen, and what the window is doing, is well formed in every
\* reachable state.
THEOREM FrontendInvariance == FSpec => []FInv
  BY FInvInit, FInvNext, PTL DEF FSpec

\* With a window open organize behaves as it does under any network and any
\* user: all that is proved of OrganizeState holds here too.
THEOREM FrontendIsOrganize == FSpec => Spec
  <1>1. FInit => Init
    BY DEF FInit
  <1>2. FInv /\ [FNext]_fvars => [Next]_vars
    BY WindowSteps
  <1> QED
    BY <1>1, <1>2, FrontendInvariance, PTL DEF FSpec, Spec

\* Peers that rename themselves and nicknames that are edited, also through
\* the window, leave every peer its host name and hidden names hidden.
THEOREM NamesUnderWindow ==
    FSpec => []NicknamesHoldHostname /\ HiddenNameStaysHidden
  BY FrontendIsOrganize, HostnameIsNickname, HiddenNames, PTL

-----------------------------------------------------------------------------
(* A click changes no peer but the one that is shown *)

\* A verify key that is given for removal is never taken for a name or an
\* address, not even once its peer is gone.
LEMMA RemoveByKey ==
    ASSUME IInv, NEW v \in Vk, UserRemovePeer(v)
    PROVE  peers' = peers \/ (OthersSame(v) /\ peers'[v] = NoPeer)
  <1>1. ASSUME NEW hit \in Query(peers, v) PROVE hit[1] = v
    <2>1. \A u \in Known(peers) : /\ EnabledNames(peers[u]) \subseteq Host
                                  /\ peers[u].on \subseteq Addr
                                  /\ peers[u].desc.p \in Addr
      <3> TAKE u \in Known(peers)
      <3>1. peers[u] \in Peer
        BY KnownOK DEF PeerOK
      <3>2. peers[u].desc \in Descriptor
        BY <3>1, ConstantTypes DEF Peer
      <3> QED
        BY <3>1, <3>2 DEF EnabledNames, Peer, Descriptor
    <2>2. v \notin Host /\ v \notin Addr
      BY FrontendTypes
    <2>3. WithIp(peers, v) = {}
      BY <2>1, <2>2 DEF WithIp, Enabled
    <2>4. \A u \in Enabled(peers) : v \notin EnabledNames(peers[u])
      BY <2>1, <2>2 DEF Enabled
    <2>5. hit \in {<<v, "id">>}
      BY <1>1, <2>3, <2>4 DEF Query
    <2> QED
      BY <2>5
  <1>2. CASE NoWrites("USER_REMOVE_PEER") \/ Abort("USER_REMOVE_PEER")
    BY <1>2 DEF NoWrites, Abort
  <1>3. ASSUME NEW hit \in Query(peers, v),
               ValidatePeers("USER_REMOVE_PEER",
                             [peers EXCEPT ![hit[1]] = NoPeer], {})
        PROVE  peers' = peers \/ (OthersSame(v) /\ peers'[v] = NoPeer)
    <2>1. peers' = peers \/ peers' = [peers EXCEPT ![v] = NoPeer]
      BY <1>1, <1>3 DEF ValidatePeers, Validate, Abort
    <2> QED
      BY <2>1 DEF OthersSame, IInv, TableOK, Peers
  <1> QED
    BY <1>2, <1>3 DEF UserRemovePeer

\* Adding an address to a peer changes that peer only, and not its standing.
LEMMA AddAddress ==
    ASSUME IInv, NEW v \in Vk, NEW a, UserPeerAddrAdd(v, a)
    PROVE  \/ peers' = peers
           \/ /\ v \in Known(peers) /\ OthersSame(v)
              /\ peers'[v].verified = peers[v].verified
  <1>1. \/ peers' = peers
        \/ /\ v \in Known(peers)
           /\ peers' = [peers EXCEPT ![v].on = @ \cup {a}, ![v].off = @ \ {a}]
    BY DEF UserPeerAddrAdd, ValidatePeers, Validate, Abort, NoWrites
  <1>2. CASE /\ v \in Known(peers)
             /\ peers' = [peers EXCEPT ![v].on = @ \cup {a}, ![v].off = @ \ {a}]
    <2>1. peers \in Peers /\ peers[v] \in Peer
      BY <1>2, KnownOK DEF IInv, TableOK, PeerOK
    <2> QED
      BY <1>2, <2>1 DEF Peers, Peer, OthersSame
  <1> QED
    BY <1>1, <1>2

\* The buttons of the details are the only clicks that change peers.
LEMMA ClickStep ==
    ASSUME FInv, [FNext]_fvars, clicks' # clicks
    PROVE  ActsOnShown
  <1>1. IInv
    BY DEF FInv
  <1>2. CASE peers' = peers
    BY <1>2 DEF ActsOnShown
  <1>3. ASSUME DetailsStep, details # NoPeer
        PROVE  details \in Card /\ details.id \in Vk
    BY <1>3 DEF FInv, WindowOK, Card
  <1>4. CASE DeletePeer
    <2>1. details # NoPeer /\ UserRemovePeer(details.id)
      BY <1>4 DEF DeletePeer
    <2>2. details.id \in Vk
      BY <1>3, <1>4, <2>1 DEF DetailsStep
    <2>3. \/ peers' = peers
          \/ OthersSame(details.id) /\ peers'[details.id] = NoPeer
      BY <1>1, <2>1, <2>2, RemoveByKey
    <2> QED
      BY <2>1, <2>3 DEF ActsOnShown, OthersSame
  <1>5. ASSUME NEW n \in Host \cup {NoName}, RenamePeer(n)
        PROVE  ActsOnShown
    <2> DEFINE v == details.id
               q == [peers[v] EXCEPT !.petname = n]
    <2>1. details # NoPeer /\ EditPeer("USER_EDIT", v, q)
      BY <1>5 DEF RenamePeer, SetPetname
    <2>2. v \in Vk
      BY <1>3, <1>5, <2>1 DEF DetailsStep
    <2>3. v \in Known(peers) =>
             /\ q \in Peer /\ q.desc = peers[v].desc
             /\ q.verified = peers[v].verified
      BY <1>1, <2>2, KnownOK DEF PeerOK, Peer
    <2> HIDE DEF q
    <2>4. \/ peers' = peers
          \/ /\ v \in Known(peers) /\ OthersSame(v)
             /\ peers'[v] # NoPeer => peers'[v].verified = q.verified
      BY <1>1, <2>1, <2>2, <2>3, EditStanding
    <2> QED
      BY <2>1, <2>3, <2>4 DEF ActsOnShown, OthersSame
  <1>6. CASE PinVerify
    <2> DEFINE v == details.id
               h == NameToVerify(details)
    <2>1. details # NoPeer /\ VerifyAndPinPeer(v, h)
      BY <1>6 DEF PinVerify
    <2>2. details \in Card /\ v \in Vk
      BY <1>3, <1>6, <2>1 DEF DetailsStep
    <2>3. h = Joined \/ h \in {details.name} \cup details.other_names
      <3>1. ASSUME Cardinality(details.other_names) = 1, details.other_names # {}
            PROVE  (CHOOSE x \in details.other_names : TRUE) \in details.other_names
        BY <3>1
      <3> QED
        BY <3>1 DEF NameToVerify
    <2> HIDE DEF h
    <2>4. CASE h = Joined
      <3>1. h \notin Host
        BY <2>4, FrontendTypes
      <3>2. peers' = peers
        BY <1>1, <2>1, <2>2, <3>1, NoSuchName DEF Abort
      <3> QED
        BY <1>2, <3>2
    <2>5. CASE h \in {details.name} \cup details.other_names
      <3>1. \/ peers' = peers
            \/ h \in peers[v].names /\ OthersSame(v)
        BY <1>1, <2>1, <2>2, VerifyStanding
      <3> QED
        BY <2>1, <2>5, <3>1 DEF ActsOnShown, OthersSame
    <2> QED
      BY <2>3, <2>4, <2>5
  <1>7. ASSUME NEW a \in UserAddrs, AddAdditionalIp(a)
        PROVE  ActsOnShown
    <2>1. details # NoPeer /\ UserPeerAddrAdd(details.id, a)
      BY <1>7 DEF AddAdditionalIp
    <2>2. details.id \in Vk
      BY <1>3, <1>7, <2>1 DEF DetailsStep
    <2>3. \/ peers' = peers
          \/ /\ OthersSame(details.id)
             /\ peers'[details.id].verified = peers[details.id].verified
      BY <1>1, <2>1, <2>2, AddAddress
    <2> QED
      BY <2>1, <2>3 DEF ActsOnShown, OthersSame
  <1>8. peers' = peers \/ DetailsStep
    BY DEF FNext, fvars, Elsewhere, OpenWindow, UpdateLoop, GuiThread,
           AskPeerIds, AskShowPeer, RemovePref, TurnPage, OpenDetails,
           SettingsStep, SetEditable, SavePrefs, Cancel, Toggle, EditText, vars
  <1> QED
    BY <1>2, <1>4, <1>5, <1>6, <1>7, <1>8 DEF DetailsStep, CloseDetails, vars

\* Whatever has changed since the window was drawn: a click changes only the
\* peer whose key is shown, and verifies it only under a name that is shown.
THEOREM ClicksActOnShown == FSpec => ClickActsOnShown
  <1>1. FInv /\ [FNext]_fvars => [clicks' # clicks => ActsOnShown]_fvars
    BY ClickStep
  <1> QED
    BY <1>1, FrontendInvariance, PTL DEF FSpec, ClickActsOnShown

-----------------------------------------------------------------------------
(* Saving the preferences undoes no change of others *)

\* Only save_prefs changes the preferences while the Tk thread is busy.
LEMMA SaveStep ==
    ASSUME FInv, [FNext]_fvars, events' = events, gui # Idle
    PROVE  RemovesStruck
  <1>1. CASE prefs' = prefs
    BY <1>1 DEF RemovesStruck
  <1>2. CASE RemovePref
    <2>1. PICK call \in gui.left :
             EditPrefs([prefs EXCEPT ![call[1]] = @ \ {call[2]}])
      BY <1>2 DEF RemovePref
    <2>2. gui.left \in SUBSET Struck
      BY <1>2 DEF RemovePref, FInv, CallsOK, Idle, Asked, Asking, Reading, RemovingPref
    <2>3. PICK pref \in ListPrefs :
             \E y \in settings.shown[pref] \ settings.text[pref] : call = <<pref, y>>
      BY <2>2 DEF Struck
    <2>4. PICK x \in settings.shown[pref] \ settings.text[pref] : call = <<pref, x>>
      BY <2>3
    <2>5. call[1] = pref /\ call[2] = x
      BY <2>4
    <2>6. prefs' = prefs \/ prefs' = [prefs EXCEPT ![pref] = @ \ {x}]
      BY <2>1, <2>5 DEF EditPrefs, Validate, Abort
    <2>7. prefs \in Prefs
      BY DEF FInv, IInv
    <2>8. CASE prefs' = [prefs EXCEPT ![pref] = @ \ {x}]
      <3>1. /\ prefs'[pref] = prefs[pref] \ {x}
            /\ \A other \in ListPrefs \ {pref} : prefs'[other] = prefs[other]
        BY <2>7, <2>8 DEF ListPrefs, Prefs
      <3> QED
        BY <2>4, <3>1 DEF RemovesStruck
    <2> QED
      BY <1>1, <2>6, <2>8
  <1>3. CASE Elsewhere
    <2>1. PICK s \in SysStates : NewSystemState(s)
      BY <1>3 DEF Elsewhere, FInv
    <2>2. prefs' = prefs
      BY <2>1 DEF NewSystemState, Validate, Abort
    <2> QED
      BY <1>1, <2>2
  <1>4. prefs' = prefs \/ RemovePref \/ Elsewhere
    BY DEF FNext, fvars, OpenWindow, UpdateLoop, GuiThread, AskPeerIds,
           AskShowPeer, TurnPage, OpenDetails, SettingsStep, SetEditable,
           SavePrefs, Cancel, Toggle, EditText, Click, vars, DetailsStep,
           DeletePeer, PinVerify, RenamePeer, AddAdditionalIp, CloseDetails
  <1> QED
    BY <1>1, <1>2, <1>3, <1>4

\* What others have changed since the preferences were read stays as they
\* changed it when the window saves them.
THEOREM SavingKeepsChanges == FSpec => SaveKeepsChanges
  <1>1. FInv /\ [FNext]_fvars =>
           [events' = events /\ gui # Idle => RemovesStruck]_fvars
    BY SaveStep
  <1> QED
    BY <1>1, FrontendInvariance, PTL DEF FSpec, SaveKeepsChanges
=============================================================================
