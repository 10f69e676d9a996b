----------------------------- MODULE OnlineScan -----------------------------
(***************************************************************************)
(* `mcpscan scan --online --sarif`: the servers of a config are audited    *)
(* one by one, each pinned package is looked up at OSV while the scan      *)
(* waits (checks/pinning.py, engine._enrich_pinning, enrichment/osv.py),   *)
(* and the report is rendered and turned into an exit status.  A lookup    *)
(* may fail in every way an HTTPS request can.                             *)
(***************************************************************************)
EXTENDS SarifLog, Grading

CONSTANTS
  MaxServers,  \* bound: servers of a config
  MaxArgs,     \* bound: arguments of all of them together
  FailOn       \* the --fail-on threshold

ASSUME OnlineAssumption ==
  /\ MaxServers \in Nat /\ MaxArgs \in Nat
  /\ FailOn \in DOMAIN Blocking

Runner == {"npx", "uvx", "pip", "node"}

(* An argument: what stands between name and version, and the version.     *)
(* "tag" is @beta, "range" @^1.0, "partial" @1.x or ==1.*.                  *)
Arg ==
  [sep : {"flag", "none"}, version : {"none"}]
    \cup [sep : {"@"}, version : {"exact", "partial", "range", "latest", "tag"}]
    \cup [sep : {"=="}, version : {"exact", "partial"}]

Declared == [runner : Runner, args : SeqOf(Arg, MaxArgs), secrets : 0 .. 1]

ArgsOf(servers) == FlattenSeq([s \in DOMAIN servers |-> servers[s].args])

Configs == {c \in SeqOf(Declared, MaxServers) : Len(ArgsOf(c)) <= MaxArgs}

(* What a lookup may come to: no advisories, some, some of them critical,  *)
(* an answer of another shape; an OSError, a body that does not decode, a  *)
(* body that ends too early.                                               *)
Answer == {"clean", "high", "critical", "odd"}
Failure == {"OSError", "ValueError", "HTTPException"}

VARIABLES
  place,     \* where the config is
  config,    \* its servers
  exposed,   \* the exposed sockets
  at,        \* the server that is audited
  waiting,   \* the package it waits for, NoSpec when it does not
  sent,      \* history: the coordinates sent to OSV
  outcome,   \* history: what the lookup of each server came to
  servers,   \* the servers of the report
  log,       \* the SARIF log
  exit       \* exit status: -1 while it runs, -2 when it ended in a traceback

vars == <<place, config, exposed, at, waiting, sent, outcome, servers, log, exit>>

NoSpec == [ecosystem |-> "none", version |-> "none"]
Places == [kind : {"under root", "home", "drive"}, name : {".mcp.json"}]
Sockets == {<< >>, << [kind |-> "endpoint", name |-> "0.0.0.0:80"] >>}

Init ==
  /\ place \in Places /\ config \in Configs
  /\ exposed \in Sockets
  /\ at = 1 /\ waiting = NoSpec /\ sent = << >> /\ outcome = << >>
  /\ servers = << >> /\ log = EmptyLog /\ exit = -1

----------------------------------------------------------------------------
PackageArgs(decl) == SelectSeq(decl.args, LAMBDA a : a.sep # "flag")

(* _VERSIONED and _LATEST.                                                 *)
Versioned(a) == a.sep = "==" \/ (a.sep = "@" /\ a.version \in {"exact", "partial", "range", "latest"})
Latest(a) == a.sep = "@" /\ a.version = "latest"

Unpinned(decl) ==
  LET packages == ToSet(PackageArgs(decl))
      pinned == \E a \in packages : Versioned(a) /\ ~Latest(a)
      usesLatest == \E a \in packages : Latest(a)
  IN  decl.runner \in {"npx", "uvx"} /\ packages # {} /\ (usesLatest \/ ~pinned)

CheckServerPinning(decl) ==
  IF Unpinned(decl) THEN <<Located("PIN-UNPINNED", "medium", place, 0, "")>> ELSE << >>

Checked(decl) ==
  [k \in 1 .. decl.secrets |-> Located("CRED-PLAINTEXT", "critical", place, 0, "a secret")]
    \o CheckServerPinning(decl)

(* The first argument with a version the runner's ecosystem understands:   *)
(* for npm one that begins with a digit, for PyPI anything after "==".     *)
Resolves(runner, a) ==
  \/ runner = "npx" /\ a.sep = "@" /\ a.version \in {"exact", "partial"}
  \/ runner \in {"uvx", "pip"} /\ a.sep = "=="

ParsePackageSpec(decl) ==
  LET fit == SelectSeq(PackageArgs(decl), LAMBDA a : Resolves(decl.runner, a))
  IN  IF fit = << >> THEN NoSpec
      ELSE [ecosystem |-> IF decl.runner = "npx" THEN "npm" ELSE "PyPI", version |-> Head(fit).version]

KnownVuln(answer) ==
  IF answer \in {"high", "critical"} THEN <<Located("PIN-KNOWN-VULN", answer, place, 0, "")>>
  ELSE << >>

----------------------------------------------------------------------------
Report(findings, result) ==
  /\ servers' = Append(servers, [findings |-> findings])
  /\ outcome' = Append(outcome, result)
  /\ at' = at + 1
  /\ waiting' = NoSpec

(* _audit_config, up to the lookup if there is one.                        *)
Audit ==
  /\ exit = -1 /\ at <= Len(config) /\ waiting = NoSpec
  /\ LET spec == ParsePackageSpec(config[at])
     IN  IF spec = NoSpec
         THEN Report(Checked(config[at]), "none") /\ UNCHANGED sent
         ELSE /\ waiting' = spec
              /\ sent' = Append(sent, spec)
              /\ UNCHANGED <<servers, outcome, at>>
  /\ UNCHANGED <<place, config, exposed, log, exit>>

Waits == exit = -1 /\ waiting # NoSpec

(* Mutant: the advisories of the servers before are reported once more.    *)
AnsweredTogether ==
  /\ Waits
  /\ \E answer \in Answer :
       LET worst == IF "critical" \in ToSet(outcome) THEN "critical" ELSE answer
       IN  Report(Checked(config[at]) \o KnownVuln(worst), answer)
  /\ UNCHANGED <<place, config, exposed, sent, log, exit>>

Answered ==
  /\ Waits
  /\ \E answer \in Answer : Report(Checked(config[at]) \o KnownVuln(answer), answer)
  /\ UNCHANGED <<place, config, exposed, sent, log, exit>>

(* query_osv turns an OSError or a ValueError into an empty answer, and    *)
(* lets the exceptions of http.client through.                             *)
LookupFails ==
  /\ Waits
  /\ \E failure \in Failure :
       IF failure = "HTTPException"
       THEN exit' = -2 /\ UNCHANGED <<servers, outcome, at, waiting>>
       ELSE Report(Checked(config[at]), failure) /\ UNCHANGED exit
  /\ UNCHANGED <<place, config, exposed, sent, log>>

SocketServers ==
  [i \in DOMAIN exposed |-> [findings |-> <<Located("EXPOSE-BIND", "critical", exposed[i], 0, "")>>]]

(* The sockets, the SARIF file and the exit status.                        *)
Render ==
  /\ exit = -1 /\ at > Len(config)
  /\ servers' = servers \o SocketServers
  /\ log' = ReportToSarif(servers')
  /\ exit' = ExitCode(servers', FailOn)
  /\ at' = at
  /\ UNCHANGED <<place, config, exposed, waiting, sent, outcome>>

Next == Audit \/ Answered \/ LookupFails \/ Render

Spec == Init /\ [][Next]_vars

----------------------------------------------------------------------------
Ended == exit \in {0, 1}

Vulns(findings) == {f \in ToSet(findings) : f.id = "PIN-KNOWN-VULN"}

(* What the lookups add stays where it belongs (engine.py:138-151): every  *)
(* server has the findings of an offline scan, and besides them exactly    *)
(* the advisories OSV answered for its own package, whatever the lookups   *)
(* of the servers before it came to; and a scan that ends has reported     *)
(* every server of the config.                                             *)
OnlineOnlyAdds ==
  /\ \A s \in DOMAIN outcome :
       LET findings == servers[s].findings
       IN  /\ Sift(findings, ToSet(findings) \ Vulns(findings)) = Checked(config[s])
           /\ Sift(findings, Vulns(findings))
                = IF outcome[s] \in Answer THEN KnownVuln(outcome[s]) ELSE << >>
  /\ Ended => Len(outcome) = Len(config)

(* The SARIF log of a scan that ends tells its findings, each as often as  *)
(* it was found, the results of a server together and its worst first, and *)
(* no result points to another rule than its own (sarif.py:178-217).       *)
ResultsTellFindings == Ended => TellsFindings(log, servers)

----------------------------------------------------------------------------
(* Sentences of the documentation that the code does not keep.             *)

(* "Returns [] on any network/parse error (fail safe - enrichment never    *)
(* breaks a scan)" (osv.py:60-61).                                         *)
OnlineNeverBreaksScan == exit # -2

(* "so online enrichment only ever sends a fully-pinned coordinate"        *)
(* (pinning.py:41-42).                                                     *)
OnlyPinnedIsSent == \A i \in DOMAIN sent : sent[i].version = "exact"

(* "Stable per-result fingerprint so GitHub tracks alerts" (sarif.py:136): *)
(* the alerts of two servers are not taken for one, unless both are about  *)
(* one secret.                                                             *)
AlertsStayApart ==
  \A i, j \in DOMAIN log.results :
    log.results[i].fingerprint = log.results[j].fingerprint
      => i = j \/ log.results[i].ruleId = "CRED-PLAINTEXT"
=============================================================================
