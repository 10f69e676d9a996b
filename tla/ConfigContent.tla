--------------------------- MODULE ConfigContent ----------------------------
(***************************************************************************)
(* What the fixer tells apart in a host config: the grants it lists, and   *)
(* whether the text parses at all.  Everything else in the file is carried *)
(* over by json.loads and json.dumps (plan_config_fixes, fix.py).          *)
(***************************************************************************)
CONSTANTS
  Grant,     \* entries of permissions.allow and of the autoApprove lists
  Unsafe,    \* the ones the scope check flags
  NotJson    \* the mark of a text that is not a JSON object

ASSUME ContentAssumption ==
  /\ Unsafe \subseteq Grant
  /\ NotJson \notin Grant

(* A text that is malformed, or was not written to its end.                *)
Torn == {NotJson}

Content == (SUBSET Grant) \union {Torn}

(* Mutant: a list that has to be pruned is emptied.                        *)
PrunedToNothing(text) == IF text \intersect Unsafe = {} THEN text ELSE {}

(* The text the fixer leaves behind; one that does not parse is left alone. *)
Pruned(text) == text \ Unsafe
=============================================================================
