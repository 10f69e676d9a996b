----------------------------- MODULE AtomicFix ------------------------------
(***************************************************************************)
(* What `mcpscan scan --fix` promises for each config file: a file changes *)
(* only when its user saves it, or in one step from the version the user   *)
(* saved to that version without its unsafe grants, and the version the    *)
(* user saved can be restored at any moment.                               *)
(***************************************************************************)
EXTENDS ConfigContent

CONSTANT Path   \* the config files

VARIABLES
  current,      \* what each file holds
  original      \* what its user last saved, still on disk

vars == <<current, original>>

Init ==
  /\ original \in [Path -> Content]
  /\ current = original

Save(p, text) ==
  /\ current' = [current EXCEPT ![p] = text]
  /\ original' = [original EXCEPT ![p] = text]

Fix(p) ==
  /\ current' = [current EXCEPT ![p] = Pruned(original[p])]
  /\ UNCHANGED original

Next == \E p \in Path : Fix(p) \/ \E text \in Content : Save(p, text)

Spec == Init /\ [][Next]_vars
=============================================================================
