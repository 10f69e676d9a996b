------------------------------ MODULE Grading ------------------------------
(***************************************************************************)
(* Severities, scores, grades and the exit status: domain.py, scoring.py   *)
(* and cli._exit_code.  A finding is a record with an id, a severity and a *)
(* dimension; a server has a sequence of findings.                         *)
(***************************************************************************)
EXTENDS Integers, Sequences, FiniteSets

Severity == {"critical", "high", "medium", "low", "info"}
Dimension == {"exposure", "credential", "tool_scope", "pinning"}

Weight == [critical |-> 40, high |-> 20, medium |-> 10, low |-> 3, info |-> 0]

Count(findings, severity) ==
  Cardinality({i \in DOMAIN findings : findings[i].severity = severity})

Deduction(findings) ==
  Weight["critical"] * Count(findings, "critical") + Weight["high"] * Count(findings, "high")
    + Weight["medium"] * Count(findings, "medium") + Weight["low"] * Count(findings, "low")
    + Weight["info"] * Count(findings, "info")

AtLeastZero(n) == IF n < 0 THEN 0 ELSE n

Score(findings) == AtLeastZero(100 - Deduction(findings))

GradeOf(score) ==
  CASE score >= 90 -> "A"
    [] score >= 80 /\ score < 90 -> "B"
    [] score >= 70 /\ score < 80 -> "C"
    [] score >= 60 /\ score < 70 -> "D"
    [] OTHER -> "F"

Rank == [A |-> 0, B |-> 1, C |-> 2, D |-> 3, F |-> 4]

WorstGrade(grades) ==
  IF grades = {} THEN "A"
  ELSE CHOOSE g \in grades : \A h \in grades : Rank[h] <= Rank[g]

GradeFindings(findings) == GradeOf(Score(findings))

(* --fail-on: the severities that make the command exit with 1.            *)
Blocking ==
  [critical |-> {"critical"},
   high     |-> {"critical", "high"},
   medium   |-> {"critical", "high", "medium"},
   low      |-> {"critical", "high", "medium", "low"}]

ExitCode(servers, failOn) ==
  IF \E i \in DOMAIN servers : \E k \in DOMAIN servers[i].findings :
       servers[i].findings[k].severity \in Blocking[failOn]
  THEN 1 ELSE 0
=============================================================================
