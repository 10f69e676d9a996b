------------------------------ MODULE ScanWalk ------------------------------
(***************************************************************************)
(* `mcpscan scan`, then `mcpscan trust`: engine.scan and trust.collect_    *)
(* trust, each reading the configs of a user through io_safe.              *)
(* safe_read_text, one file system call at a time, while users keep        *)
(* editing, replacing and deleting them.  The two commands walk the same   *)
(* files in different orders.                                              *)
(*                                                                         *)
(* A file is Absent or a record: what stands in the way of reading it, if  *)
(* anything ("escapes": it resolves outside its directory, "denied",       *)
(* "huge": over the size cap, "hidden": its directory cannot be searched,  *)
(* "loop": its links lead to each other), its form ("whole", "broken": no  *)
(* parse, "deep": nested beyond the parser's recursion limit, or "odd":    *)
(* YAML whose loader raises what is no YAMLError, as for the 45th of a     *)
(* month) and its content.  Python is 3.11, the oldest that the project    *)
(* supports.                                                               *)
(***************************************************************************)
EXTENDS ServerChecks

CONSTANTS
  Candidates,  \* [adapter, level, name], level "user" or "project", by adapter
  Env,         \* the candidate .env file of the project root, level "env"
  States,      \* for each file: the states it may be in
  Start,       \* the file systems to begin with
  Sockets,     \* the exposed sockets
  FailOn,      \* the --fail-on threshold of the scan
  MaxChanges,  \* bound: changes to files
  Absent

Obstacle == {"none", "escapes", "denied", "huge", "hidden", "loop"}
Form == {"whole", "broken", "deep", "odd"}
Uncaught == {"deep", "odd"}
State == [obstacle : Obstacle, form : Form, servers : Seq(Declaration), allow : Seq(Entry),
          secrets : Nat, shared : BOOLEAN]

File == {Candidates[i] : i \in DOMAIN Candidates} \cup {Env}

(* The candidates are different files: a root given twice, or the home     *)
(* directory as a root, is the subject of FixCommand.  A server named      *)
(* `permissions` would have the id under which _audit_config lists the     *)
(* grants of a config.                                                     *)
ASSUME ScanAssumption ==
  /\ Candidates \in Seq(ToSet(Candidates)) /\ IsInjective(Candidates)
  /\ Env.level = "env" /\ \A c \in ToSet(Candidates) : c.level \in {"user", "project"}
  /\ Absent \notin File \cup State
  /\ States \in [File -> SUBSET (State \cup {Absent})]
  /\ \A f \in File : \A s \in States[f] \ {Absent} :
       \A d \in ToSet(s.servers) : d.name # "#permissions"
  /\ Start \subseteq [File -> State \cup {Absent}]
  /\ \A d \in Start : \A f \in File : d[f] \in States[f]
  /\ Sockets \in Seq(STRING)
  /\ FailOn \in DOMAIN Blocking

VARIABLES
  disk,        \* the state of each file
  since,       \* history: the states each file was in since the scan began
  at,          \* the stop of the tour: an index into Tour
  step,        \* the next call at that stop
  raw,         \* the content in hand
  servers,     \* the servers of the scan's report, each with its file
  listing,     \* what the enumeration of sockets came to
  exit,        \* the exit status of the scan: -1 before it ends
  profiles,    \* the trust profiles, each with its file
  changes

vars == <<disk, since, at, step, raw, servers, listing, exit, profiles, changes>>

(* scan reads the user-level configs of all adapters, then the project's,  *)
(* then its .env file; trust goes adapter by adapter.                      *)
OfLevel(level) == Sift(Candidates, {c \in ToSet(Candidates) : c.level = level})
Stop(cmd, file) == [cmd |-> cmd, file |-> file]
Visit(cmd, files) == [i \in DOMAIN files |-> Stop(cmd, files[i])]

ScanTour == Visit("scan", OfLevel("user") \o OfLevel("project") \o <<Env>>)
Tour == ScanTour \o <<Stop("scan", Absent)>> \o Visit("trust", Candidates)

Here == Tour[at].file
Scanning == Tour[at].cmd = "scan"

(* engine.scan reads a user-level config without looking whether it is     *)
(* there; everything else is looked for first.                             *)
LooksFirst(stop) == stop.cmd = "trust" \/ stop.file.level # "user"

FirstStep(i) ==
  CASE i > Len(Tour) -> "done"
    [] i <= Len(Tour) /\ Tour[i].file = Absent -> "sockets"
    [] OTHER -> IF LooksFirst(Tour[i]) THEN "exists" ELSE "resolve"

Init ==
  /\ disk \in Start
  /\ since = [f \in File |-> {disk[f]}]
  /\ at = 1 /\ step = FirstStep(1)
  /\ raw = Absent /\ servers = <<>> /\ listing = "none" /\ exit = -1 /\ profiles = <<>>
  /\ changes = 0

----------------------------------------------------------------------------
Touch ==
  /\ changes < MaxChanges
  /\ step # "done"
  /\ \E f \in File : \E s \in States[f] \ {disk[f]} :
       /\ disk' = [disk EXCEPT ![f] = s]
       /\ since' = [since EXCEPT ![f] = @ \cup {s}]
  /\ changes' = changes + 1
  /\ UNCHANGED <<at, step, raw, servers, listing, exit, profiles>>

(* Whatever fails with a SafeReadError is passed over without a trace.     *)
MoveOn == at' = at + 1 /\ step' = FirstStep(at + 1) /\ raw' = Absent
GoOn(next) == at' = at /\ step' = next

Is(obstacle) == disk[Here] # Absent /\ disk[Here].obstacle = obstacle
Missing(obstacles) == disk[Here] # Absent => disk[Here].obstacle \in obstacles

(* path.exists(), and is_file() in trust: a loop of links is not there,    *)
(* and a directory that cannot be searched is a PermissionError that       *)
(* nothing catches.                                                        *)
Look ==
  /\ step = "exists"
  /\ \/ Missing({"loop"}) /\ MoveOn
     \/ Is("hidden") /\ GoOn("crashed") /\ UNCHANGED raw
     \/ ~Missing({"loop", "hidden"}) /\ GoOn("resolve") /\ UNCHANGED raw
  /\ UNCHANGED <<disk, since, servers, listing, exit, profiles, changes>>

(* Mutant: an unsafe link ends the walk over the configs.                  *)
ResolveGivesUp ==
  /\ step = "resolve"
  /\ \/ /\ Is("escapes") /\ Scanning
        /\ at' = Len(ScanTour) + 1 /\ step' = "sockets" /\ raw' = Absent
     \/ Is("escapes") /\ ~Scanning /\ MoveOn
     \/ Is("loop") /\ GoOn("crashed") /\ UNCHANGED raw
     \/ ~Is("escapes") /\ ~Is("loop") /\ GoOn("stat") /\ UNCHANGED raw
  /\ UNCHANGED <<disk, since, servers, listing, exit, profiles, changes>>

(* What is not there, or out of sight, resolves; what resolves elsewhere   *)
(* is unsafe; a loop of links is a RuntimeError, raised outside any try.   *)
Resolve ==
  /\ step = "resolve"
  /\ \/ Is("escapes") /\ MoveOn
     \/ Is("loop") /\ GoOn("crashed") /\ UNCHANGED raw
     \/ ~Is("escapes") /\ ~Is("loop") /\ GoOn("stat") /\ UNCHANGED raw
  /\ UNCHANGED <<disk, since, servers, listing, exit, profiles, changes>>

Stat ==
  /\ step = "stat"
  /\ \/ Missing({"huge", "hidden", "loop"}) /\ MoveOn
     \/ ~Missing({"huge", "hidden", "loop"}) /\ GoOn("read") /\ UNCHANGED raw
  /\ UNCHANGED <<disk, since, servers, listing, exit, profiles, changes>>

(* The whole file is read, as it is by now.                                *)
Read ==
  /\ step = "read"
  /\ \/ Missing({"denied", "hidden", "loop"}) /\ MoveOn
     \/ /\ ~Missing({"denied", "hidden", "loop"})
        /\ raw' = disk[Here]
        /\ GoOn(IF Here = Env THEN "mode" ELSE "audit")
  /\ UNCHANGED <<disk, since, servers, listing, exit, profiles, changes>>

----------------------------------------------------------------------------
(* The content is parsed and audited, or profiled.                         *)
From(file, rows) == [i \in DOMAIN rows |-> [file |-> file, row |-> rows[i]]]

Parsed(content) ==
  IF content.form = "whole" THEN content ELSE [content EXCEPT !.servers = <<>>, !.allow = <<>>]

Profiles(content) ==
  [i \in DOMAIN Parsed(content).servers |-> Profile(Parsed(content).servers[i])]

(* RecursionError is no ValueError: no parser catches it; and Continue's   *)
(* catches no ValueError.                                                  *)
ParserFails ==
  /\ step = "audit" /\ raw.form \in Uncaught
  /\ GoOn("crashed")
  /\ UNCHANGED <<disk, since, raw, servers, listing, exit, profiles, changes>>

Audit ==
  /\ step = "audit" /\ raw.form \notin Uncaught /\ Scanning
  /\ servers' = servers \o From(Here, AuditConfig(Parsed(raw)))
  /\ MoveOn
  /\ UNCHANGED <<disk, since, listing, exit, profiles, changes>>

ProfileServers ==
  /\ step = "audit" /\ raw.form \notin Uncaught /\ ~Scanning
  /\ profiles' = profiles \o From(Here, Profiles(raw))
  /\ MoveOn
  /\ UNCHANGED <<disk, since, servers, listing, exit, changes>>

(* Mutant: a file that has gone has the mode of a new one.                 *)
AuditEnvFileAssumes ==
  /\ step = "mode"
  /\ servers' = servers \o From(Here, AuditEnv(raw.secrets, disk[Here] = Absent \/ disk[Here].shared))
  /\ MoveOn
  /\ UNCHANGED <<disk, since, listing, exit, profiles, changes>>

(* The mode of an .env file is read after its content, with a call that    *)
(* nothing guards.                                                         *)
AuditEnvFile ==
  /\ step = "mode"
  /\ \/ /\ ~Missing({"hidden", "loop"})
        /\ servers' = servers \o From(Here, AuditEnv(raw.secrets, disk[Here].shared))
        /\ MoveOn
     \/ /\ Missing({"hidden", "loop"})
        /\ GoOn("crashed")
        /\ UNCHANGED <<raw, servers>>
  /\ UNCHANGED <<disk, since, listing, exit, profiles, changes>>

(* The sockets are the last of the scan: all of them, or none when the     *)
(* operating system denies the listing.  Then the exit status is settled.  *)
SocketServer(s) ==
  [id |-> s, findings |-> <<Finding("EXPOSE-BIND", "critical", "exposure")>>]

Enumerate ==
  /\ step = "sockets"
  /\ \/ /\ listing' = "complete"
        /\ servers' = servers \o From(Absent, [i \in DOMAIN Sockets |-> SocketServer(Sockets[i])])
     \/ /\ listing' = "denied"
        /\ UNCHANGED servers
  /\ exit' = ExitCode([i \in DOMAIN servers' |-> servers'[i].row], FailOn)
  /\ MoveOn
  /\ UNCHANGED <<disk, since, profiles, changes>>

Walk == Look \/ Resolve \/ Stat \/ Read \/ ParserFails \/ Audit \/ ProfileServers
          \/ AuditEnvFile \/ Enumerate

Next == Walk \/ Touch

Spec == Init /\ [][Next]_vars

----------------------------------------------------------------------------
ServersOf(f) ==
  LET mine == Sift(servers, {s \in ToSet(servers) : s.file = f})
  IN  [i \in DOMAIN mine |-> mine[i].row]

Steady(f) == Cardinality(since[f]) = 1

(* What a file ought to contribute to a scan.                              *)
Readable(state) == state # Absent /\ state.obstacle = "none"

Due(f, state) ==
  CASE ~Readable(state) -> <<>>
    [] Readable(state) /\ f = Env -> AuditEnv(state.secrets, state.shared)
    [] OTHER -> AuditConfig(Parsed(state))

TypeOK ==
  /\ \A f \in File : disk[f] \in since[f] /\ since[f] \subseteq States[f]
  /\ at \in 1 .. Len(Tour) + 1
  /\ step \in {"exists", "resolve", "stat", "read", "audit", "mode", "sockets", "done", "crashed"}
  /\ step \in {"audit", "mode"} => raw # Absent
  /\ raw # Absent => step \in {"audit", "mode", "crashed"}
  /\ exit \in {-1, 0, 1} /\ (exit = -1 <=> listing = "none")

(* What a command dies of at a stop: where it looks first, of a directory  *)
(* that cannot be searched, where it does not, of a loop of links, and     *)
(* anywhere of a config that its parser does not survive.                  *)
Kills(stop, state) ==
  /\ state # Absent
  /\ \/ state.obstacle = IF LooksFirst(stop) THEN "hidden" ELSE "loop"
     \/ state.obstacle = "none" /\ stop.file # Env /\ state.form \in Uncaught

(* Whatever is done to other files meanwhile, a file that nobody touched   *)
(* is in the report with exactly its findings (engine.py:235-293); and     *)
(* when a command dies at such a file, then of that file, in one of the    *)
(* ways that nothing in the code catches.                                  *)
SteadyFilesAreReported ==
  /\ exit # -1 => \A f \in File : Steady(f) => ServersOf(f) = Due(f, CHOOSE s \in since[f] : TRUE)
  /\ step = "crashed" /\ Steady(Here) => Kills(Tour[at], disk[Here])

(* A finding is never about something that was not there: every server of  *)
(* a config comes from one state the config was in, and an .env file had   *)
(* the secrets and the mode it is blamed for, if not at the same time.     *)
Shared(state) == state # Absent /\ state.shared

FindingsWereThere ==
  \A i \in DOMAIN servers :
    LET f == servers[i].file
        there == IF f = Absent THEN {} ELSE since[f] \ {Absent}
    IN  \/ f = Absent
        \/ f = Env /\ \E s, t \in there : servers[i].row \in ToSet(AuditEnv(s.secrets, t.shared))
        \/ f # Env /\ \E s \in there : servers[i].row \in ToSet(AuditConfig(Parsed(s)))

(* Trust does not diverge from the scan (trust/analyze.py:4-6): of a file  *)
(* that nobody touches, trust profiles the servers that scan lists, and a  *)
(* factor is present just when scan has the findings for it.               *)
FactorOf ==
  [secret_access |-> {"CRED-PLAINTEXT"},
   tool_privilege |-> {"SCOPE-DANGEROUS-AUTOAPPROVE", "SCOPE-AUTOAPPROVE-WILDCARD"},
   code_provenance |-> {"PIN-UNPINNED"}]

Agree(server, profile) ==
  /\ profile.name = server.id
  /\ \A factor \in DOMAIN FactorOf :
       profile.factors[factor] > 0
         <=> \E k \in DOMAIN server.findings : server.findings[k].id \in FactorOf[factor]

TrustFollowsScan ==
  step = "done" => \A f \in File \ {Env} : Steady(f) =>
    LET listed == Sift(ServersOf(f), {s \in ToSet(ServersOf(f)) : s.id # "#permissions"})
        profiled == Sift(profiles, {p \in ToSet(profiles) : p.file = f})
    IN  /\ Len(listed) = Len(profiled)
        /\ \A i \in DOMAIN listed : Agree(listed[i], profiled[i].row)

----------------------------------------------------------------------------
(* Sentences of the documentation that the code does not keep.             *)

(* docs/SPEC.md:210-212 (NFR-S3), 113-114: malformed, oversized or denied  *)
(* files never crash a run ...                                             *)
NeverCrashes == step # "crashed"

(* ... and become findings.                                                *)
SkippedBecomesFinding ==
  exit # -1 => \A f \in File : Steady(f) =>
    \A s \in since[f] : s # Absent /\ (s.obstacle # "none" \/ s.form = "broken")
      => ServersOf(f) # <<>>

(* docs/SPEC.md:90-91 (FR-D1): a listing that fails is flagged.            *)
DeniedListingIsFlagged == listing = "denied" => \E i \in DOMAIN servers : servers[i].file = Absent

(* tests/test_engine.py:71: a critical secret means F.                     *)
CriticalMeansF ==
  \A i \in DOMAIN servers :
    Count(servers[i].row.findings, "critical") > 0 => GradeFindings(servers[i].row.findings) = "F"
=============================================================================
