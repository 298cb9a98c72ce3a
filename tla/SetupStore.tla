------------------------------ MODULE SetupStore ------------------------------
(***************************************************************************)
(* What the local set-up wizard promises of the configuration files it     *)
(* writes (tools/local_setup_wizard.py).  A save that is asked for takes   *)
(* effect on all of its files in one step, once, or is refused and has no  *)
(* effect.  Beside that a file changes only when its owner replaces or     *)
(* removes it, and a power failure brings back a configuration that was in *)
(* force and may still be on disk.                                         *)
(***************************************************************************)
EXTENDS Naturals

CONSTANTS
  Files,    \* the secret files and .env
  Gone,     \* no file
  Foreign   \* a file its owner put there

VARIABLES
  stored,   \* the configuration in force: of each file the save it is of
  onDisk,   \* what a power failure may leave of it
  asked,    \* the files of the save that is being made, {} when there is none
  count     \* the number of the last save that was asked for

storeVars == <<stored, onDisk, asked, count>>

\* The files of the installation, which no save of this wizard wrote.
Init == /\ stored \in [Files -> {Gone, 0}] /\ onDisk = {stored}
        /\ asked = {} /\ count = 0

Ask == /\ asked = {}
       /\ asked' \in (SUBSET Files) \ {{}}
       /\ count' = count + 1
       /\ UNCHANGED <<stored, onDisk>>

\* The save takes effect: every file it was asked for, and no other.
Save == /\ asked /= {}
        /\ stored' = [f \in Files |-> IF f \in asked THEN count ELSE stored[f]]
        /\ onDisk' = onDisk \cup {stored'}
        /\ asked' = {}
        /\ UNCHANGED count

\* It is refused, or the wizard stops; a directory may be synchronised with it.
Refuse == /\ asked' = {}
          /\ onDisk' \in {onDisk, {stored}}
          /\ UNCHANGED <<stored, count>>

\* The owner replaces or removes one file while no save is made.
Edit == /\ asked = {}
        /\ \E f \in Files, c \in {Gone, Foreign} : stored' = [stored EXCEPT ![f] = c]
        /\ onDisk' = onDisk \cup {stored'}
        /\ UNCHANGED <<asked, count>>

\* A directory is synchronised.
Settle == onDisk' = {stored} /\ UNCHANGED <<stored, asked, count>>

PowerFails == /\ stored' \in onDisk /\ onDisk' = {stored'}
              /\ asked' = {}
              /\ UNCHANGED count

Next == Ask \/ Save \/ Refuse \/ Edit \/ Settle \/ PowerFails

Spec == Init /\ [][Next]_storeVars
===============================================================================
