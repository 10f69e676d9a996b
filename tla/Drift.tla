------------------------------- MODULE Drift -------------------------------
(***************************************************************************)
(* Snapshots and their comparison: src/mcpscan/drift (model, snapshot,     *)
(* diff, baseline).  A posture fact has a kind, a stable key, a summary    *)
(* for people and a detail for the comparison.  The program sorts the      *)
(* facts of a snapshot by kind and key with a stable sort; here the sorted *)
(* tuple is the function that gives each key its facts in report order.    *)
(* The key of a fact starts with its kind.                                 *)
(***************************************************************************)
EXTENDS Lists

Keys(facts) == {facts[i].key : i \in DOMAIN facts}

Sorted(facts) ==
  [k \in Keys(facts) |-> Sift(facts, {f \in ToSet(facts) : f.key = k})]

(* snapshot_digest: over everything but the summaries.  The hash is taken  *)
(* to be injective.                                                        *)
Hashed(f) == [kind |-> f.kind, key |-> f.key, detail |-> f.detail]

Digest(snapshot) ==
  [k \in DOMAIN snapshot |-> [i \in DOMAIN snapshot[k] |-> Hashed(snapshot[k][i])]]

(* Snapshot.by_key: of several facts with one key the last one stays.      *)
ByKey(snapshot) == [k \in DOMAIN snapshot |-> snapshot[k][Len(snapshot[k])]]

----------------------------------------------------------------------------
(* Directions.                                                             *)

IsExposed(fact) == fact.kind = "server" /\ fact.detail.exposure = "exposed"

(* Mutant: a new finding is news, only a new exposed server is bad.        *)
AddedDirectionServersOnly(fact) ==
  IF IsExposed(fact) THEN "regression" ELSE "informational"

AddedDirection(fact) ==
  IF fact.kind = "finding" \/ IsExposed(fact) THEN "regression" ELSE "informational"

(* Mutant: a finding that went away counts as a change for the worse.      *)
RemovedDirectionAlarms(fact) ==
  IF fact.kind = "finding" THEN "regression" ELSE "informational"

RemovedDirection(fact) ==
  IF fact.kind = "finding" THEN "improvement" ELSE "informational"

ChangedDirection(before, after) ==
  CASE after.kind = "server" /\ ~IsExposed(before) /\ IsExposed(after) -> "regression"
    [] after.kind = "server" /\ IsExposed(before) /\ ~IsExposed(after) -> "improvement"
    [] OTHER -> "informational"

----------------------------------------------------------------------------
(* diff_snapshots, as the set of its entries.                              *)

Added(old, new) ==
  {[change |-> "added", key |-> k, direction |-> AddedDirection(new[k])] :
     k \in DOMAIN new \ DOMAIN old}

Removed(old, new) ==
  {[change |-> "removed", key |-> k, direction |-> RemovedDirection(old[k])] :
     k \in DOMAIN old \ DOMAIN new}

(* Mutant: what is in both is reported, changed or not.                    *)
ChangedAlways(old, new) ==
  {[change |-> "changed", key |-> k, direction |-> ChangedDirection(old[k], new[k])] :
     k \in DOMAIN old \cap DOMAIN new}

Changed(old, new) ==
  {[change |-> "changed", key |-> k, direction |-> ChangedDirection(old[k], new[k])] :
     k \in {j \in DOMAIN old \cap DOMAIN new : old[j].detail # new[j].detail}}

DiffSnapshots(baseline, current) ==
  LET old == ByKey(baseline)
      new == ByKey(current)
  IN  Added(old, new) \cup Removed(old, new) \cup Changed(old, new)

Regressions(report) == {e \in report : e.direction = "regression"}

----------------------------------------------------------------------------
(* The baseline document and its integrity check.                          *)

Document(snapshot) == [digest |-> Digest(snapshot), facts |-> snapshot]

Intact(doc) == doc.digest = Digest(doc.facts)
=============================================================================
