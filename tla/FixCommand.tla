----------------------------- MODULE FixCommand -----------------------------
(***************************************************************************)
(* `mcpscan scan --fix` from the first config it looks for to its exit     *)
(* status, once or several times in a row: engine.scan over the user's and *)
(* the projects' configs, then cli._apply_fixes over the ones              *)
(* engine.discover_host_config_files finds, then _exit_code.  Users may    *)
(* edit, create and delete configs meanwhile.                              *)
(*                                                                         *)
(* A config is read in one step and replaced in one step, with its backup: *)
(* the calls in between are the subject of ConfigFix.  Findings other than *)
(* tool-scope grants are left out; they only ever add to the exit status.  *)
(***************************************************************************)
EXTENDS FixPlan, ConfigPaths, Grading

CONSTANTS
  Begin,       \* machines to begin with: [system, env, roots, disk]
  Versions,    \* what users make of a config: a set of texts, or Absent
  Volatile,    \* the paths of the configs users change while the command runs
  FailOn,      \* the --fail-on threshold
  MaxRuns,     \* bound: runs of the command
  MaxChanges,  \* bound: changes users make
  Absent

(* The configs of a machine are those the tour can come to; its paths are  *)
(* lists of names.                                                         *)
ASSUME CommandAssumption ==
  /\ Absent \notin Text /\ Versions \subseteq Text \cup {Absent}
  /\ FailOn \in DOMAIN Blocking
  /\ \A m \in Begin :
       /\ m.env \in [HOME : Seq(STRING), USERPROFILE : Seq(STRING), HOMEDRIVE : Seq(STRING),
                     HOMEPATH : Seq(STRING), APPDATA : Seq(STRING)]
       /\ m.roots \in Seq(Seq(STRING))
       /\ m.disk \in [DOMAIN m.disk -> Text \cup {Absent}]
       /\ DOMAIN m.disk \subseteq {v.path : v \in ToSet(Tour(m.system, m.env, m.roots))}

VARIABLES
  tour,      \* the configs this machine may have, in the order of the visits
  disk,      \* the configs, by path
  given,     \* history: the configs at the beginning
  touched,   \* history: the paths users changed since then
  pc,        \* "scan", "discover", "fix", "apply", "done" or "failed"
  at,        \* the next visit of the tour
  report,    \* the tool-scope findings of every visit
  queue,     \* the discovered paths that are still to be fixed
  plan,      \* the edits and the new text for the first of them
  removed,   \* the edits this run made, by path
  backup,    \* <path>.mcpscan.bak, by path
  exit,      \* the exit status
  run        \* number of the run

vars == <<tour, disk, given, touched, pc, at, report, queue, plan, removed, backup, exit, run>>

File == DOMAIN disk
ContentAt(path) == IF path \in File THEN disk[path] ELSE Absent

NoEdits == [allow |-> << >>, servers |-> << >>]
Hits(found) == ToSet(found.allow) \cup UNION {ToSet(found.servers[i]) : i \in DOMAIN found.servers}

SeverityOf == [dangerous |-> "high", wildcard |-> "medium"]
Blocks(found) == \E hit \in Hits(found) : SeverityOf[hit.rule] \in Blocking[FailOn]

Init ==
  /\ \E m \in Begin :
       /\ tour = Tour(m.system, m.env, m.roots)
       /\ disk = m.disk
  /\ given = disk
  /\ touched = {}
  /\ pc = "scan" /\ at = 1 /\ report = << >> /\ queue = << >>
  /\ plan = [edits |-> NoEdits, text |-> Absent]
  /\ removed = [p \in File |-> NoEdits]
  /\ backup = [p \in File |-> Absent]
  /\ exit = -1 /\ run = 1

----------------------------------------------------------------------------
Touch ==
  /\ pc \notin {"done", "failed"}
  /\ Cardinality(touched) < MaxChanges
  /\ \E p \in (File \cap Volatile) \ touched : \E v \in Versions \ {disk[p]} :
       /\ disk' = [disk EXCEPT ![p] = v]
       /\ touched' = touched \cup {p}
  /\ UNCHANGED <<tour, given, pc, at, report, queue, plan, removed, backup, exit, run>>

(* Every config that can be read is audited, each time it is visited.      *)
Scan ==
  /\ pc = "scan"
  /\ \/ /\ at > Len(tour)
        /\ pc' = "discover" /\ at' = 1
        /\ UNCHANGED report
     \/ /\ at <= Len(tour)
        /\ LET visit == tour[at]
               text == ContentAt(visit.path)
           IN  report' = IF text = Absent THEN report
                         ELSE Append(report, [path |-> visit.path, found |-> Findings(visit.host, text)])
        /\ at' = at + 1
        /\ UNCHANGED pc
  /\ UNCHANGED <<tour, disk, given, touched, queue, plan, removed, backup, exit, run>>

(* The existing files, each once.                                          *)
Discover ==
  /\ pc = "discover"
  /\ \/ at > Len(tour) /\ pc' = "fix" /\ UNCHANGED <<at, queue>>
     \/ /\ at <= Len(tour)
        /\ queue' = LET p == tour[at].path
                    IN  IF ContentAt(p) = Absent \/ p \in ToSet(queue) THEN queue
                        ELSE Append(queue, p)
        /\ at' = at + 1
        /\ UNCHANGED pc
  /\ UNCHANGED <<tour, disk, given, touched, report, plan, removed, backup, exit, run>>

(* Mutant: a config that needs no edit is written all the same.            *)
PlanAlways ==
  /\ pc = "fix" /\ queue # << >>
  /\ LET text == ContentAt(Head(queue))
     IN  IF text = Absent \/ text.syntax # "json"
         THEN queue' = Tail(queue) /\ UNCHANGED <<pc, plan>>
         ELSE /\ plan' = [edits |-> Edits(text), text |-> Rewritten(text)]
              /\ pc' = "apply"
              /\ UNCHANGED queue
  /\ UNCHANGED <<tour, disk, given, touched, at, report, removed, backup, exit, run>>

(* A config that cannot be read, or needs no edit, is passed over.         *)
Plan ==
  /\ pc = "fix" /\ queue # << >>
  /\ LET text == ContentAt(Head(queue))
     IN  IF text = Absent \/ Hits(Edits(text)) = {}
         THEN queue' = Tail(queue) /\ UNCHANGED <<pc, plan>>
         ELSE /\ plan' = [edits |-> Edits(text), text |-> Rewritten(text)]
              /\ pc' = "apply"
              /\ UNCHANGED queue
  /\ UNCHANGED <<tour, disk, given, touched, at, report, removed, backup, exit, run>>

(* The backup is a copy of what is there now, not of what was planned on.  *)
Apply ==
  /\ pc = "apply"
  /\ LET p == Head(queue)
     IN  /\ disk[p] # Absent
         /\ backup' = [backup EXCEPT ![p] = disk[p]]
         /\ disk' = [disk EXCEPT ![p] = plan.text]
         /\ removed' = [removed EXCEPT ![p] = plan.edits]
  /\ queue' = Tail(queue)
  /\ pc' = "fix"
  /\ UNCHANGED <<tour, given, touched, at, report, plan, exit, run>>

(* Mutant: the error is caught and the next config is fixed.               *)
ApplyFailsPassesOver ==
  /\ pc = "apply"
  /\ queue' = Tail(queue)
  /\ pc' = "fix"
  /\ UNCHANGED <<tour, disk, given, touched, at, report, plan, removed, backup, exit, run>>

(* The config has gone or the disk is full: nothing catches the OSError,   *)
(* before the copy or after it.                                            *)
ApplyFails ==
  /\ pc = "apply"
  /\ LET p == Head(queue) IN backup' \in {backup, [backup EXCEPT ![p] = disk[p]]}
  /\ pc' = "failed"
  /\ exit' = 1
  /\ UNCHANGED <<tour, disk, given, touched, at, report, queue, plan, removed, run>>

(* Mutant: a run that fixed something has nothing left to complain about.  *)
FinishFixed ==
  /\ pc = "fix" /\ queue = << >>
  /\ exit' = IF \A p \in File : removed[p] = NoEdits
             THEN IF \E i \in DOMAIN report : Blocks(report[i].found) THEN 1 ELSE 0
             ELSE 0
  /\ pc' = "done"
  /\ UNCHANGED <<tour, disk, given, touched, at, report, queue, plan, removed, backup, run>>

(* The exit status is that of the report, which is older than the fixes.   *)
Finish ==
  /\ pc = "fix" /\ queue = << >>
  /\ exit' = IF \E i \in DOMAIN report : Blocks(report[i].found) THEN 1 ELSE 0
  /\ pc' = "done"
  /\ UNCHANGED <<tour, disk, given, touched, at, report, queue, plan, removed, backup, run>>

RunAgain ==
  /\ pc \in {"done", "failed"} /\ run < MaxRuns
  /\ pc' = "scan" /\ at' = 1 /\ report' = << >> /\ queue' = << >> /\ exit' = -1
  /\ plan' = [edits |-> NoEdits, text |-> Absent]
  /\ removed' = [p \in File |-> NoEdits]
  /\ run' = run + 1
  /\ UNCHANGED <<tour, disk, given, touched, backup>>

Next == Touch \/ Scan \/ Discover \/ Plan \/ Apply \/ ApplyFails \/ Finish \/ RunAgain

Spec == Init /\ [][Next]_vars

----------------------------------------------------------------------------
(* The configs of this machine that nobody but the command has changed ... *)
Untouched == {p \in File \ touched : given[p] # Absent}

(* ... and those of them the fixer reads as their host does: JSON objects  *)
(* with mcpServers, no grant the host does not look at, only strings.      *)
Position(p) == SelectInSeq(tour, LAMBDA v : v.path = p)
HostOf(p) == tour[Position(p)].host

Known(h, t) ==
  /\ h \notin {"zed", "continue"}
  /\ t.syntax = "broken" \/ (t.syntax = "json" /\ t.section = "mcpServers")
  /\ h = "claude" \/ Check(t.allow) = << >>
  /\ \A list \in {t.allow} \cup ToSet(t.servers) :
       ToSet(list) \cap NonString \cap (Dangerous \cup Broad) = {}

Understood == {p \in Untouched : Known(HostOf(p), given[p])}

(* "so a fixed config re-scans clean" (README.md:119): after a run, another *)
(* scan has no tool-scope finding on it.                                   *)
RescanClean ==
  pc = "done" => \A p \in Understood : Hits(Findings(HostOf(p), disk[p])) = {}

(* "so remediation targets exactly the files the scan audited"             *)
(* (engine.py:78-79), and in each exactly what the scan flagged, list by   *)
(* list and in order, whatever system, home and roots say where it is, and *)
(* however often the scan visited it.                                      *)
Reported(p) == {report[i].found : i \in {k \in DOMAIN report : report[k].path = p}}

FixesWhatWasReported ==
  pc = "done" => \A p \in Understood :
    IF removed[p] = NoEdits THEN \A found \in Reported(p) : Hits(found) = {}
                            ELSE Reported(p) = {removed[p]}

(* "Preserve key order" (fix.py:146): what is not flagged keeps its place. *)
KeepsTheRest ==
  LET Harmless == Entry \ (Dangerous \cup Broad)
      Same(s, t) == Sift(s, Harmless) = Sift(t, Harmless)
  IN  \A p \in Understood :
        /\ Same(given[p].allow, disk[p].allow)
        /\ Len(disk[p].servers) = Len(given[p].servers)
        /\ \A i \in DOMAIN given[p].servers : Same(given[p].servers[i], disk[p].servers[i])

(* A config of any host that came out of a run has nothing left to edit:   *)
(* another run neither rewrites it nor replaces the backup, which still    *)
(* holds what the user wrote (cli.py:547, fix.py:159).                     *)
SecondRunIsQuiet ==
  \A p \in Untouched : disk[p] # given[p] =>
    /\ backup[p] = given[p]
    /\ Hits(Edits(disk[p])) = {}

(* "Exit code is non-zero when a finding meets --fail-on" (README.md:92):  *)
(* the report is older than the fixes, but a run that ends with 0 has left *)
(* no such finding in a config that nobody touched.                        *)
StatusCoversWhatIsLeft ==
  exit = 0 => \A p \in Untouched : ~Blocks(Findings(HostOf(p), disk[p]))

(* A run that fails leaves no gap (cli.py:541-554): the configs it came to *)
(* before the one it failed on are fixed, the ones after it as they were.  *)
NoGap ==
  \A p, q \in Understood :
    Position(p) < Position(q) /\ disk[q] # given[q] => Hits(Edits(disk[p])) = {}
=============================================================================
