----------------------------- MODULE DriftGate -----------------------------
(***************************************************************************)
(* `mcpscan baseline --out F` and `mcpscan diff --baseline F               *)
(* --fail-on-regression` (cli._run_baseline, cli._run_diff), run again and *)
(* again, at the same time too, over one baseline file and a machine that  *)
(* changes whenever it likes.  A run looks at the machine twice, first for *)
(* the scan and then for the inventory.  Users edit the baseline by hand,  *)
(* and loosen its mode; any process may be killed at any point.            *)
(***************************************************************************)
EXTENDS Posture, ReportFile

CONSTANTS
  Start,        \* the machines to begin with
  MaxChanges,   \* bound: changes to the machine
  MaxEdits,     \* bound: edits of the baseline file
  MaxRuns       \* bound: commands started

ASSUME GateAssumption == Start \subseteq Machine

VARIABLES
  machine,    \* what a scan would find now
  pc,         \* where each process is, "idle" when it does not run
  base,       \* what it read of the baseline file, then the loaded facts
  servers,    \* the servers of its scan
  looks,      \* history: the machine at its scan and at its inventory
  exit,       \* the exit status of its last command: -1 is none, or killed
  report,     \* the drift report it came to
  changes, edits, runs    \* how often each has happened

procVars == <<pc, base, servers, looks, exit, report>>
counters == <<changes, edits, runs>>
vars == <<machine, fileVars, procVars, counters>>

Unseen == [scan |-> Nil, stock |-> Nil]

GoTo(p, label) == pc' = [pc EXCEPT ![p] = label]

----------------------------------------------------------------------------
Init ==
  /\ FileInit
  /\ machine \in Start
  /\ pc = [p \in Process |-> "idle"]
  /\ base = [p \in Process |-> Nil]
  /\ servers = [p \in Process |-> <<>>]
  /\ looks = [p \in Process |-> Unseen]
  /\ exit = [p \in Process |-> -1]
  /\ report = [p \in Process |-> {}]
  /\ changes = 0 /\ edits = 0 /\ runs = 0

(* A grant, the secret or a socket comes or goes, or the secret moves.     *)
Neighbours(m) ==
  {[m EXCEPT !.grants = (@ \cup {g}) \ (@ \cap {g})] : g \in Grants}
    \cup {[m EXCEPT !.secret = n] : n \in 0 .. MaxLine}
    \cup {[m EXCEPT !.sockets = (@ \cup {s}) \ (@ \cap {s})] : s \in Sockets}

Change ==
  /\ changes < MaxChanges
  /\ machine' \in Neighbours(machine) \ {machine}
  /\ changes' = changes + 1
  /\ UNCHANGED <<fileVars, procVars, edits, runs>>

(* A whole baseline is edited by hand, the digest left as it is: a finding *)
(* is dropped or reworded, or an exposed server declared local.            *)
EditsOf(facts) ==
  LET findings == {k \in DOMAIN facts : facts[k][1].kind = "finding"}
      exposed  == {k \in DOMAIN facts : IsExposed(facts[k][1])}
  IN  {[j \in DOMAIN facts \ {k} |-> facts[j]] : k \in findings}
        \cup {[facts EXCEPT ![k][1].summary = "reworded"] : k \in findings}
        \cup {[facts EXCEPT ![k][1].detail.exposure = "local"] : k \in exposed}

Edit ==
  /\ edits < MaxEdits
  /\ text.front # Nil /\ text.front = text.rest
  /\ \E facts \in EditsOf(text.front.facts) :
       LET d == [text.front EXCEPT !.facts = facts]
       IN  text' = [front |-> d, rest |-> d]
  /\ edits' = edits + 1
  /\ UNCHANGED <<machine, mode, loosened, io, doc, procVars, changes, runs>>

Widen == Loosen /\ UNCHANGED <<machine, procVars, counters>>

----------------------------------------------------------------------------
(* Both commands begin anew; diff reads the baseline before it scans.      *)
Begin(p, label) ==
  /\ pc[p] = "idle"
  /\ runs < MaxRuns
  /\ GoTo(p, label)
  /\ base' = [base EXCEPT ![p] = Nil]
  /\ servers' = [servers EXCEPT ![p] = <<>>]
  /\ looks' = [looks EXCEPT ![p] = Unseen]
  /\ exit' = [exit EXCEPT ![p] = -1]
  /\ report' = [report EXCEPT ![p] = {}]
  /\ runs' = runs + 1
  /\ UNCHANGED <<machine, fileVars, changes, edits>>

RunBaseline(p) == Begin(p, "scan")
RunDiff(p)     == Begin(p, "readFront")

(* The baseline is read in two parts as well; reading a file that is not   *)
(* there ends the command.                                                 *)
ReadFront(p) ==
  /\ pc[p] = "readFront"
  /\ \/ /\ mode = "absent"
        /\ exit' = [exit EXCEPT ![p] = 2]
        /\ GoTo(p, "idle")
        /\ UNCHANGED base
     \/ /\ mode # "absent"
        /\ base' = [base EXCEPT ![p] = text.front]
        /\ GoTo(p, "readRest")
        /\ UNCHANGED exit
  /\ UNCHANGED <<machine, fileVars, servers, looks, report, counters>>

(* load_baseline: what is not one whole document does not parse, and a     *)
(* document whose digest is not that of its facts is refused.              *)
Whole(front, rest) ==
  front # Nil /\ rest # Nil /\ front.facts = rest.facts /\ front.digest = rest.digest

(* Mutant: the digest is not compared.                                     *)
LoadsUnverified(front, rest) == Whole(front, rest)

Loads(front, rest) == Whole(front, rest) /\ Intact(rest)

ReadRest(p) ==
  /\ pc[p] = "readRest"
  /\ \/ /\ Loads(base[p], text.rest)
        /\ base' = [base EXCEPT ![p] = text.rest]
        /\ GoTo(p, "scan")
        /\ UNCHANGED exit
     \/ /\ ~Loads(base[p], text.rest)
        /\ base' = [base EXCEPT ![p] = Nil]
        /\ exit' = [exit EXCEPT ![p] = 2]
        /\ GoTo(p, "idle")
  /\ UNCHANGED <<machine, fileVars, servers, looks, report, counters>>

(* What the probe may hear; without it nothing is asked.                   *)
Heard(sockets) == IF Probe THEN Hearings(sockets) ELSE [sockets -> {Silent}]

(* _posture_snapshot: the scan ...                                         *)
TakeScan(p) ==
  /\ pc[p] = "scan"
  /\ \E order \in SetToSeqs(machine.sockets) :
       servers' = [servers EXCEPT ![p] = Scan(machine, order)]
  /\ looks' = [looks EXCEPT ![p].scan = machine]
  /\ GoTo(p, "inventory")
  /\ UNCHANGED <<machine, fileVars, base, exit, report, counters>>

(* ... and then the inventory, of the machine as it is by then.  With both *)
(* at hand, diff compares and exits, and baseline opens its output.        *)
Compare(p, snapshot) ==
  /\ report' = [report EXCEPT ![p] = DiffSnapshots(base[p].facts, snapshot)]
  /\ exit' = [exit EXCEPT ![p] = IF Regressions(report'[p]) # {} THEN 1 ELSE 0]
  /\ GoTo(p, "idle")
  /\ UNCHANGED fileVars

(* Documents carry the machines they were taken from, as history.          *)
Output(p, snapshot, stock) ==
  /\ OpenReport(p, [digest |-> Digest(snapshot), facts |-> snapshot,
                    scan |-> looks[p].scan, stock |-> stock])
  /\ GoTo(p, "write")
  /\ UNCHANGED <<exit, report>>

TakeInventory(p) ==
  /\ pc[p] = "inventory"
  /\ looks' = [looks EXCEPT ![p].stock = machine]
  /\ \E order \in SetToSeqs(machine.sockets), heard \in Heard(machine.sockets) :
       LET snapshot == BuildSnapshot(servers[p], CollectInventory(order, heard))
       IN  \/ base[p] # Nil /\ Compare(p, snapshot)
           \/ base[p] = Nil /\ Output(p, snapshot, machine)
  /\ servers' = [servers EXCEPT ![p] = <<>>]
  /\ UNCHANGED <<machine, base, counters>>

Write(p) ==
  /\ pc[p] = "write"
  /\ WriteFront(p) \/ WriteRest(p) \/ WriteFails(p)
  /\ UNCHANGED <<machine, procVars, counters>>

CloseReport(p) ==
  /\ pc[p] = "write"
  /\ Chmod(p)
  /\ exit' = [exit EXCEPT ![p] = IF io[p] = "written" THEN 0 ELSE 1]
  /\ looks' = [looks EXCEPT ![p] = Unseen]
  /\ GoTo(p, "idle")
  /\ UNCHANGED <<machine, base, servers, report, counters>>

Kill(p) ==
  /\ pc[p] # "idle"
  /\ Killed(p)
  /\ GoTo(p, "idle")
  /\ base' = [base EXCEPT ![p] = Nil]
  /\ servers' = [servers EXCEPT ![p] = <<>>]
  /\ looks' = [looks EXCEPT ![p] = Unseen]
  /\ UNCHANGED <<machine, exit, report, counters>>

Command(p) == ReadFront(p) \/ ReadRest(p) \/ TakeScan(p) \/ TakeInventory(p)
                \/ Write(p) \/ CloseReport(p)

Next ==
  \/ Change \/ Edit \/ Widen
  \/ \E p \in Process : RunBaseline(p) \/ RunDiff(p) \/ Command(p) \/ Kill(p)

Spec == Init /\ [][Next]_vars /\ \A p \in Process : WF_vars(Command(p))
----------------------------------------------------------------------------
(* The snapshots two looks at two machines may make, for any order of the  *)
(* sockets and whatever the probe hears.                                   *)
Snapshots(scan, stock) ==
  {BuildSnapshot(Scan(scan, o1), CollectInventory(o2, heard)) :
     o1 \in SetToSeqs(scan.sockets), o2 \in SetToSeqs(stock.sockets),
     heard \in Heard(stock.sockets)}

(* p has run diff to its end: base is what it compared with.               *)
Judged(p) == pc[p] = "idle" /\ base[p] # Nil

TypeOK ==
  /\ machine \in Machine
  /\ mode \in {"absent", "private", "public"}
  /\ loosened \in BOOLEAN
  /\ \A p \in Process :
       /\ pc[p] \in {"idle", "readFront", "readRest", "scan", "inventory", "write"}
       /\ io[p] \in {"closed", "opened", "half", "written", "failed"}
       /\ pc[p] = "write" <=> io[p] # "closed"
       /\ io[p] = "closed" <=> doc[p] = Nil
       /\ exit[p] \in {-1, 0, 1, 2}
       /\ Judged(p) <=> exit[p] \in {0, 1} /\ base[p] # Nil

(* A baseline that is torn by a crash, mixed by two writers, caught half   *)
(* written by a reader or edited by hand is never compared with: what diff *)
(* judges by is, up to the summaries, a snapshot that some baseline run    *)
(* took.  README.md:222-223, baseline.py:77-84.                            *)
OnlyTakenBaselines ==
  \A p \in Process : pc[p] \in {"scan", "inventory"} /\ base[p] # Nil =>
    \E s \in Snapshots(base[p].scan, base[p].stock) : Digest(base[p].facts) = Digest(s)

(* The CI gate passes only when every place that is wrong with the machine *)
(* it scanned was wrong already with the machine the baseline was taken    *)
(* from, whatever happened in between (diff.py, cli._run_diff).            *)
QuietMeansNoNewPlace ==
  \A p \in Process : Judged(p) /\ exit[p] = 0 =>
    Places(looks[p].scan) \subseteq Places(base[p].scan)

(* And it fails only when some place is new.                               *)
AlarmMeansNewPlace ==
  \A p \in Process : Judged(p) /\ exit[p] = 1 =>
    ~(Places(looks[p].scan) \subseteq Places(base[p].scan))

(* The same posture has no drift, in whatever order the sockets are listed *)
(* (snapshot.py:5-7), as long as every socket is a service of its own.     *)
SameMachines(p) == looks[p] = [scan |-> base[p].scan, stock |-> base[p].stock]

SamePostureNoDrift ==
  \A p \in Process :
    /\ Judged(p) /\ SameMachines(p)
    /\ \A s, t \in base[p].stock.sockets : s # t => Service(s) # Service(t)
    => report[p] = {}

----------------------------------------------------------------------------
(* Sentences of the documentation that the code does not keep.             *)

(* README.md:216-217: a new finding is a regression.  Not the second       *)
(* finding of one rule in one file: both have one key.                     *)
NewGrantIsRegression ==
  \A p \in Process : Judged(p) /\ exit[p] = 0 => looks[p].scan.grants \subseteq base[p].scan.grants

(* drift/model.py:6-8: the key is stable, so the same finding lines up     *)
(* across snapshots.  Not when a line is inserted above the secret.        *)
MovedSecretIsNotRegression ==
  \A p \in Process : Judged(p) /\ exit[p] = 1 =>
    ~ /\ looks[p].scan.grants = base[p].scan.grants
      /\ looks[p].scan.sockets = base[p].scan.sockets
      /\ looks[p].scan.secret # 0 /\ base[p].scan.secret # 0

(* snapshot.py:5-7 to the letter: the same posture always yields the same  *)
(* facts.  Not when a service is bound to both stacks, or a probe times    *)
(* out.                                                                    *)
SamePostureSameFacts ==
  \A p \in Process : Judged(p) /\ SameMachines(p) => report[p] = {}
=============================================================================
