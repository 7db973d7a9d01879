------------------------------ MODULE TrustTable ------------------------------
(***************************************************************************)
(* What organize promises its user about the peers it knows: who may change *)
(* whose standing.  The network and the system meet new peers and forget   *)
(* those that are not pinned; a command of the user changes one peer; a    *)
(* verification makes one peer verified and pinned, and only with a key    *)
(* that the other side has shown.                                          *)
(***************************************************************************)
CONSTANTS Vk, Unknown

VARIABLES
    book,   \* per verify key: Unknown, or whether it is pinned and verified
    shown,  \* the keys that the other side has shown so far
    by      \* who made the last change: "network", "user" or "verify"

tvars == <<book, shown, by>>

Standing == [pinned : BOOLEAN, verified : BOOLEAN]

TInit ==
    /\ book = [v \in Vk |-> Unknown]
    /\ shown = {}
    /\ by \in {"network", "user"}

\* Any number of unpinned peers are forgotten and unverified ones are met.
Network ==
    /\ by' = "network"
    /\ book' \in [Vk -> Standing \cup {Unknown}]
    /\ \A v \in Vk :
          \/ book'[v] = book[v]
          \/ book[v] # Unknown /\ ~book[v].pinned /\ book'[v] = Unknown
          \/ book[v] = Unknown /\ book'[v] # Unknown /\ ~book'[v].verified
    /\ UNCHANGED shown

User(v) ==
    /\ by' = "user"
    /\ \/ UNCHANGED book
       \/ /\ book[v] # Unknown
          /\ book' \in {[book EXCEPT ![v] = s] : s \in Standing \cup {Unknown}}
    /\ UNCHANGED shown

Verify(v) ==
    /\ by' = "verify"
    /\ \/ UNCHANGED book
       \/ /\ v \in shown
          /\ book[v] # Unknown
          /\ book' = [book EXCEPT ![v] = [pinned |-> TRUE, verified |-> TRUE]]
    /\ UNCHANGED shown

Show(v) == shown' = shown \cup {v} /\ UNCHANGED <<book, by>>

TNext ==
    \/ Network
    \/ \E v \in Vk : User(v) \/ Verify(v) \/ Show(v)

TSpec == TInit /\ [][TNext]_tvars
=============================================================================
