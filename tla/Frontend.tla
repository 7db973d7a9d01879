------------------------------ MODULE Frontend ------------------------------
(***************************************************************************)
(* The graphical frontend (frontend/) as a client of organize: the list of *)
(* peers, the window with the details of a peer and the preferences.       *)
(*                                                                         *)
(* One thread, that of Tk, runs one handler after the other.  A handler    *)
(* makes several D-Bus calls to organize, and organize handles events of   *)
(* the network and commands of other users between two of them.  What is   *)
(* on the screen is a copy of what organize answered at the time.  (The    *)
(* details of one peer at a time are open here; Tk permits more.)          *)
(*                                                                         *)
(* An exception in a handler ends the handler and is only logged.          *)
(***************************************************************************)
EXTENDS OrganizeState, Integers, SequencesExt

CONSTANTS
    Unnamed,    \* "<unnamed>"
    Joined,     \* several names, joined by commas
    Closed,     \* there is no window
    PerPage,    \* peers_per_page
    MaxEvents,  \* bound on the events that others cause
    MaxClicks   \* bound on the clicks

\* A verify key is neither a name nor an address.
ASSUME FrontendTypes ==
    /\ {Unnamed, Joined} \cap (Host \cup {NoName}) = {}
    /\ Vk \cap (Host \cup Addr) = {} /\ IsFiniteSet(Vk)
    /\ PerPage \in Nat \ {0} /\ MaxEvents \in Nat /\ MaxClicks \in Nat

VARIABLES
    gui,          \* where the Tk thread is
    cards,        \* the peers on the current page, as they were read
    page, num_peers, after_remove, \* of the class Peers
    buttons,      \* which of "next" and "previous" are visible
    looping,      \* whether update_loop is scheduled
    details,      \* the peer whose details are open, or NoPeer
    settings,     \* the preferences as they were read, and as edited
    events, clicks \* how much of each bound is used up

wvars == <<cards, page, buttons, num_peers, after_remove>>
fvars == <<vars, gui, wvars, looping, details, settings, events, clicks>>

Idle == [at |-> "idle"]
Asking(then) == [at |-> "peer_ids", then |-> then]

FInit ==
    /\ Init
    /\ gui = Closed
    /\ cards = <<>> /\ page = 1 /\ buttons = {}
    /\ num_peers = 0 /\ after_remove = 0
    /\ looping = FALSE
    /\ details = NoPeer
    /\ settings = [mode |-> "view", shown |-> prefs, text |-> prefs]
    /\ events = 0 /\ clicks = 0

Click ==
    /\ gui = Idle
    /\ clicks < MaxClicks
    /\ clicks' = clicks + 1

-----------------------------------------------------------------------------
(* What organize tells about a peer *)

\* Peer.name: a petname, or the announced name, or another one.  (Of several
\* others it is the first in the order of the alphabet.)
Name(q) ==
    IF q.petname # NoName THEN q.petname
    ELSE IF q.desc.host \in q.names THEN q.desc.host
    ELSE IF q.names # {} THEN CHOOSE h \in q.names : TRUE
    ELSE Unnamed

OtherNames(q) == q.names \ {Name(q)}

\* Peer.show: labelled lines, some only if there is something to tell.  The
\* last ones are left out.
ShowPeer(q, configured) ==
    << <<"peer", Name(q)>>, <<"id", q.desc.vk>> >>
    \o (IF configured THEN <<>> ELSE << <<"warning", "not configured">> >>)
    \o (IF OtherNames(q) = {} THEN <<>>
        ELSE << <<"other names", OtherNames(q)>> >>)
    \o << <<"status", [enabled |-> q.enabled, pinned |-> q.pinned,
                        verified |-> q.verified]>> >>

\* What get_peers makes of them: it knows the lines by their number.
ParsePeer(lines) ==
    [id |-> lines[2][2], name |-> lines[1][2],
     other_names |-> IF lines[3][1] = "other names" THEN lines[3][2] ELSE {}]

-----------------------------------------------------------------------------
(* DataProvider.get_peers, and what is done with its result *)

\* A slice of a list, which counts from the end where a bound is negative.
Slice(all, from, to) ==
    LET bound(i) == IF i >= 0 THEN i ELSE IF Len(all) + i > 0 THEN Len(all) + i ELSE 0
        last == IF bound(to) < Len(all) THEN bound(to) ELSE Len(all)
    IN  SubSeq(all, bound(from) + 1, last)

OnPage(all, n) == Slice(all, (n - 1) * PerPage, (n - 1) * PerPage + PerPage)

DisplayPeers(all) ==
    /\ num_peers' = Len(all)
    /\ cards' = OnPage(all, page)

\* Mutant: only a removal in this window makes update_loop draw it again.
RedrawAfterRemove(n) == n > 0 /\ n = after_remove

NeedsRedraw(n) == n > 0 /\ (n = after_remove \/ n # num_peers)

\* clear_peers comes before display_peers, in update_loop too.
StartRedraw == cards' = <<>> /\ gui' = Asking("redraw")

\* All peers are read.
GotPeers(then, all) ==
    CASE then = "open" ->
            /\ DisplayPeers(all) /\ gui' = Idle /\ looping' = TRUE
            /\ buttons' = IF Len(all) > PerPage THEN {"next"} ELSE {}
            /\ UNCHANGED after_remove
      [] then = "display" ->
            /\ DisplayPeers(all) /\ gui' = Idle
            /\ UNCHANGED <<looping, buttons, after_remove>>
      [] then = "compare" ->
            /\ IF NeedsRedraw(Len(all)) THEN StartRedraw
               ELSE gui' = Idle /\ UNCHANGED cards
            /\ UNCHANGED <<looping, buttons, num_peers, after_remove>>
      [] then = "redraw" ->
            /\ DisplayPeers(all) /\ gui' = Idle
            /\ after_remove' = 0 /\ UNCHANGED <<looping, buttons>>

\* A peer that is gone has no lines to parse, which raises.  Then update_loop
\* does not schedule itself again (nor after the message that it shows, whose
\* own main loop does not end).
ReadFails(then) ==
    /\ gui' = IF then = "open" THEN Closed ELSE Idle
    /\ looping' = (looping /\ then \notin {"compare", "redraw"})
    /\ UNCHANGED wvars

AskPeerIds ==
    /\ gui # Closed /\ gui.at = "peer_ids"
    /\ \E ids \in SetToSeqs(Enabled(peers)) :
          IF ids = <<>> THEN GotPeers(gui.then, <<>>)
          ELSE /\ gui' = [at |-> "show_peer", then |-> gui.then,
                          ids |-> ids, got |-> <<>>]
               /\ UNCHANGED <<wvars, looping>>
    /\ UNCHANGED <<vars, page, details, settings, events, clicks>>

AskShowPeer ==
    /\ gui # Closed /\ gui.at = "show_peer"
    /\ LET id == Head(gui.ids)
       IN  \/ id \notin Known(peers) /\ ReadFails(gui.then)
           \/ /\ id \in Known(peers)
              /\ \E configured \in BOOLEAN :
                    LET got == Append(gui.got,
                                      ParsePeer(ShowPeer(peers[id], configured)))
                    IN  IF Len(gui.ids) = 1 THEN GotPeers(gui.then, got)
                        ELSE /\ gui' = [gui EXCEPT !.ids = Tail(@), !.got = got]
                             /\ UNCHANGED <<wvars, looping>>
    /\ UNCHANGED <<vars, page, details, settings, events, clicks>>

-----------------------------------------------------------------------------
(* The list of peers *)

\* App: the preferences are read, then the peers.
OpenWindow ==
    /\ gui = Closed
    /\ clicks < MaxClicks /\ clicks' = clicks + 1
    /\ settings' = [mode |-> "view", shown |-> prefs, text |-> prefs]
    /\ gui' = Asking("open")
    /\ UNCHANGED <<vars, wvars, looping, details, events>>

UpdateLoop ==
    /\ gui = Idle /\ looping
    /\ gui' = Asking("compare")
    /\ UNCHANGED <<vars, wvars, looping, details, settings, events, clicks>>

LastPage == (num_peers + PerPage - 1) \div PerPage

\* Only these two handlers show and hide the buttons: not a change of the
\* number of peers, nor the return to the first page after a removal.
TurnPage(button) ==
    /\ Click
    /\ button \in buttons
    /\ page' = IF button = "next" THEN page + 1 ELSE page - 1
    /\ buttons' = {"next", "previous"} \
          (IF button = "next" /\ page' = LastPage THEN {"next"}
           ELSE IF button = "previous" /\ page' = 1 THEN {"previous"} ELSE {})
    /\ cards' = <<>>
    /\ gui' = Asking("display")
    /\ UNCHANGED <<vars, num_peers, after_remove, looping, details, settings, events>>

\* Every card opens what the variable of the loop was left with.
OpenDetails ==
    /\ Click
    /\ cards # <<>> /\ details = NoPeer
    /\ details' = Last(cards)
    /\ UNCHANGED <<vars, gui, wvars, looping, settings, events>>

-----------------------------------------------------------------------------
(* The details of a peer *)

\* open_details, once the window has closed.
DetailsClosed(removed) ==
    /\ details' = NoPeer
    /\ cards' = <<>>
    /\ gui' = Asking("display")
    /\ IF removed THEN page' = 1 /\ after_remove' = num_peers - 1
       ELSE UNCHANGED <<page, after_remove>>
    /\ UNCHANGED <<buttons, num_peers, looping, settings, events>>

\* Mutant: the peer is named to organize as it is on the screen.
DeleteByName ==
    /\ Click /\ details # NoPeer
    /\ UserRemovePeer(details.name)
    /\ DetailsClosed(TRUE)

DeletePeer ==
    /\ Click /\ details # NoPeer
    /\ UserRemovePeer(details.id)
    /\ DetailsClosed(TRUE)

RenamePeer(n) ==
    /\ Click /\ details # NoPeer
    /\ SetPetname(details.id, n)
    /\ DetailsClosed(FALSE)

\* The other names, if there are any, as one string.
NameToVerify(q) ==
    IF q.other_names = {} THEN q.name
    ELSE IF Cardinality(q.other_names) = 1 THEN CHOOSE h \in q.other_names : TRUE
    ELSE Joined

PinVerify ==
    /\ Click /\ details # NoPeer
    /\ VerifyAndPinPeer(details.id, NameToVerify(details))
    /\ DetailsClosed(FALSE)

AddAdditionalIp(a) ==
    /\ Click /\ details # NoPeer
    /\ UserPeerAddrAdd(details.id, a)
    /\ DetailsClosed(FALSE)

CloseDetails ==
    /\ gui = Idle /\ details # NoPeer
    /\ details' = NoPeer
    /\ UNCHANGED <<vars, gui, wvars, looping, settings, events, clicks>>

-----------------------------------------------------------------------------
(* The preferences *)

ListPrefs == {"subnets_allowed", "local_domains"}
Values(pref) == IF pref = "local_domains" THEN Domain ELSE Subnet

\* display_prefs, in edit mode.
Widget(pref) == IF pref \in ListPrefs THEN "Text" ELSE "Button"

SetEditable ==
    /\ Click /\ settings.mode = "view"
    /\ settings' = [settings EXCEPT !.mode = "edit", !.text = settings.shown]
    /\ UNCHANGED <<vars, gui, wvars, looping, details, events>>

\* The user strikes out or types a value, or toggles a button.
EditText(pref, x) ==
    /\ Click /\ settings.mode = "edit"
    /\ \/ settings' = [settings EXCEPT !.text[pref] = @ \ {x}]
       \/ settings' = [settings EXCEPT !.text[pref] = @ \cup {x}]
    /\ UNCHANGED <<vars, gui, wvars, looping, details, events>>

Toggle ==
    /\ Click /\ settings.mode = "edit"
    /\ settings' = [settings EXCEPT !.text.pin_new_peers = ~@]
    /\ UNCHANGED <<vars, gui, wvars, looping, details, events>>

\* Mutant: whatever is not in the text.
NotInText ==
    UNION {{<<pref, x>> : x \in prefs[pref] \ settings.text[pref]} :
              pref \in ListPrefs}

\* The calls of save_prefs: values that are no longer in the text of a list are
\* removed.  (New ones are strings and not lists, and are not added; a button
\* is not looked at.)
Struck ==
    UNION {{<<pref, x>> : x \in settings.shown[pref] \ settings.text[pref]} :
              pref \in {p \in ListPrefs : Widget(p) = "Text"}}

\* Then comes expire_time, and raises: the window stays in edit mode.
Saving(left) == IF left = {} THEN Idle ELSE [at |-> "remove_pref", left |-> left]

SavePrefs ==
    /\ Click /\ settings.mode = "edit"
    /\ gui' = Saving(Struck)
    /\ UNCHANGED <<vars, wvars, looping, details, settings, events>>

\* remove_pref of the DataProvider returns nothing, so no error is seen.
RemovePref ==
    /\ gui # Closed /\ gui.at = "remove_pref"
    /\ \E call \in gui.left :
          /\ EditPrefs([prefs EXCEPT ![call[1]] = @ \ {call[2]}])
          /\ gui' = Saving(gui.left \ {call})
    /\ UNCHANGED <<wvars, looping, details, settings, events, clicks>>

\* get_prefs is one call.
Cancel ==
    /\ Click /\ settings.mode = "edit"
    /\ settings' = [mode |-> "view", shown |-> prefs, text |-> prefs]
    /\ UNCHANGED <<vars, gui, wvars, looping, details, events>>

-----------------------------------------------------------------------------
\* Events of the network, and commands of other users.  The first reading of
\* the system makes addresses local, and is not counted.
Elsewhere ==
    /\ \/ events < MaxEvents /\ events' = events + 1 /\ (NetworkStep \/ UserStep)
       \/ /\ events = 0
          /\ \E s \in SysStates : NewSystemState(s)
          /\ UNCHANGED events
    /\ UNCHANGED <<gui, wvars, looping, details, settings, clicks>>

DetailsStep ==
    \/ DeletePeer \/ PinVerify \/ CloseDetails
    \/ \E n \in Host \cup {NoName} : RenamePeer(n)
    \/ \E a \in UserAddrs : AddAdditionalIp(a)

SettingsStep ==
    \/ SetEditable \/ SavePrefs \/ Cancel
    \/ "pin_new_peers" \in PrefFields /\ Toggle
    \/ \E pref \in PrefFields \cap ListPrefs : \E x \in Values(pref) :
          EditText(pref, x)

GuiThread == AskPeerIds \/ AskShowPeer \/ RemovePref

FNext ==
    \/ Elsewhere
    \/ OpenWindow \/ UpdateLoop \/ GuiThread
    \/ \E button \in buttons : TurnPage(button)
    \/ OpenDetails \/ DetailsStep \/ SettingsStep

\* The Tk thread goes on, and its timer fires.
FSpec ==
    /\ FInit /\ [][FNext]_fvars
    /\ WF_fvars(GuiThread)
    /\ WF_fvars(UpdateLoop)
-----------------------------------------------------------------------------
(* Properties *)

ActsOnShown ==
    \A v \in Vk : peers'[v] # peers[v] =>
        /\ details # NoPeer /\ v = details.id
        /\ peers'[v] # NoPeer /\ peers'[v].verified =>
              \/ peers[v].verified
              \/ ({details.name} \cup details.other_names) \cap peers[v].names # {}

\* A click changes no peer but the one whose key the window with the details
\* shows, and verifies it only while it has one of the names that are shown,
\* although names pass from peer to peer while the window is open.
ClickActsOnShown == [][clicks' # clicks => ActsOnShown]_fvars

RemovesStruck ==
    \A pref \in ListPrefs :
        /\ prefs'[pref] \subseteq prefs[pref]
        /\ prefs[pref] \ prefs'[pref] \subseteq
              settings.shown[pref] \ settings.text[pref]

\* Saving the preferences undoes nothing that others have changed since they
\* were read: it takes away only what the user has struck out.
SaveKeepsChanges == [][events' = events /\ gui # Idle => RemovesStruck]_fvars

Outdated ==
    /\ looping
    /\ Enabled(peers) # {}
    /\ Cardinality(Enabled(peers)) # num_peers

\* While update_loop is scheduled a number of peers that is not the one on
\* the screen is noticed, unless none is left.
WindowCatchesUp == Outdated ~> ~Outdated
=============================================================================
