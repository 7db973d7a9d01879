------------------------------- MODULE KeyFile -------------------------------
(***************************************************************************)
(* The keys of a host: generate_or_read_keys of configure.py, which every  *)
(* start of its organize daemon calls, and write_yaml_file of common.py.   *)
(*                                                                         *)
(* The three key pairs are made, written and read together; they are one   *)
(* value here, named by the verify key.  A crash may come between any two  *)
(* steps.                                                                  *)
(***************************************************************************)
EXTENDS Naturals

CONSTANTS
    Identity,   \* the keys that genkeys may come up with, one after the other
    NoKeys,     \* no keys have been read yet
    Absent,     \* there is no file
    Unreadable, \* an empty file, or one that the schema refuses
    MaxCrashes  \* bound on crashes and on faults of the file

ASSUME KeyValues ==
    /\ MaxCrashes \in Nat
    /\ Identity \cap {NoKeys, Absent, Unreadable} = {}

VARIABLES
    keys_file,  \* the contents of keys_conf_file
    keys,       \* self._keys of the running daemon
    starting,   \* where generate_or_read_keys is: "read", "generate", "write"
                \* or "done"
    generated,  \* all keys that were ever made
    signed,     \* those a daemon has run with and signed descriptors with
    damaged,    \* whether the file was lost to a fault
    crashes     \* number of crashes and faults so far

kvars == <<keys_file, keys, starting, generated, signed, damaged, crashes>>

KInit ==
    /\ keys_file = Absent
    /\ keys = NoKeys
    /\ starting = "read"
    /\ generated = {}
    /\ signed = {}
    /\ damaged = FALSE
    /\ crashes = 0

Fault == crashes < MaxCrashes /\ crashes' = crashes + 1

\* The daemon goes on with keys k.
Runs(k) == starting' = "done" /\ signed' = signed \cup {k}

ReadKeys ==
    /\ starting = "read"
    /\ keys_file \in Identity
    /\ keys' = keys_file
    /\ Runs(keys_file)
    /\ UNCHANGED <<keys_file, generated, damaged, crashes>>

\* The file is renamed although its keys are read and used; it is not
\* written again.
ChmodFails ==
    /\ starting = "read"
    /\ keys_file \in Identity
    /\ Fault
    /\ keys' = keys_file
    /\ keys_file' = Absent
    /\ damaged' = TRUE
    /\ Runs(keys_file)
    /\ UNCHANGED generated

NoKeysFile ==
    /\ starting = "read"
    /\ keys_file \in {Absent, Unreadable}
    /\ keys_file' = Absent
    /\ starting' = "generate"
    /\ UNCHANGED <<keys, generated, signed, damaged, crashes>>

\* What the generators of the three key pairs return: keys nobody has had before.
FreshKeys == Identity \ generated

\* genkeys, and the touch() that makes an empty file with the right mode.
GenKeys ==
    /\ starting = "generate"
    /\ \E k \in FreshKeys :
          /\ generated' = generated \cup {k}
          /\ keys' = k
    /\ keys_file' = Unreadable
    /\ starting' = "write"
    /\ UNCHANGED <<signed, damaged, crashes>>

\* Mutant: the keys are used before they are in the file.
WriteLate ==
    /\ starting = "write"
    /\ Runs(keys)
    /\ UNCHANGED <<keys_file, keys, generated, damaged, crashes>>

\* The file is replaced in one step.
WriteKeys ==
    /\ starting = "write"
    /\ keys_file' = keys
    /\ Runs(keys)
    /\ UNCHANGED <<keys, generated, damaged, crashes>>

Crash ==
    /\ Fault
    /\ keys' = NoKeys
    /\ starting' = "read"
    /\ UNCHANGED <<keys_file, generated, signed, damaged>>

\* The file is lost or overwritten by somebody else.
FileDamaged ==
    /\ Fault
    /\ keys_file \in Identity
    /\ keys_file' \in {Absent, Unreadable}
    /\ damaged' = TRUE
    /\ UNCHANGED <<keys, starting, generated, signed>>

KeyStep ==
    ReadKeys \/ ChmodFails \/ NoKeysFile \/ GenKeys \/ WriteKeys \/ Crash
        \/ FileDamaged

KSpec == KInit /\ [][KeyStep]_kvars
-----------------------------------------------------------------------------
\* Unless the file was damaged a host has one identity for ever, although
\* its daemon may crash anywhere while it makes and writes the keys: it never
\* signs descriptors with two different keys.
OneIdentity == ~damaged => \A j, k \in signed : j = k
=============================================================================
