------------------------------- MODULE LanRun -------------------------------
(***************************************************************************)
(* One `mcpscan lan` process from its arguments to its exit status:        *)
(* _run_lan (cli.py), run_lan (lan/runner.py) and tcp_probe (lan/probe.py) *)
(* around the scope resolution of LanScope.  The rest of the world is the  *)
(* clock, the remote hosts, the verifier, the caller's abort switch, SIGINT *)
(* and a file system that may refuse a report.                             *)
(***************************************************************************)
EXTENDS LanScope

CONSTANTS
  Timeout,        \* the probe timeout, in ticks
  VerifyTimeout,  \* the limit on ssh-keygen, in ticks
  McpPaths,       \* number of paths a probe asks for (MCP_PATHS)
  Trickle,        \* may a remote host send its answer in pieces?
  Horizon         \* bound on the clock while an answer trickles in

ASSUME RunAssumption ==
  /\ Timeout \in Nat \ {0}
  /\ VerifyTimeout \in Nat
  /\ McpPaths \in Nat \ {0}
  /\ Trickle \in BOOLEAN
  /\ Horizon \in Nat
  /\ \A c \in Call : /\ c.expires_at \in Nat
                     /\ c.wellFormed => c.targets # << >> /\ c.ports # << >>

VARIABLES
  clock,        \* wall clock and monotonic clock, in ticks
  started,      \* the clock when the probe loop began
  host, port,   \* indices of the two nested loops
  path,         \* index of the MCP path being asked for
  connections,  \* the loop's counter of probes
  results,      \* the audit's results, keyed by endpoint
  servers,      \* endpoints with a LAN-EXPOSED finding, in order
  aborted,      \* what the caller's should_abort would return
  written,      \* report files on disk
  exit,         \* exit status, -1 while the process runs
  probed,       \* history: endpoints probed, in order
  sockets,      \* history: TCP connections attempted
  committed     \* history: probes begun, or polled for, when the caller aborted

loopVars == <<started, host, port, connections, results, servers>>
history  == <<probed, sockets, committed>>
runVars  == <<clock, loopVars, path, aborted, written, exit, history>>
vars     == <<scopeVars, runVars>>

(* The variables of resolve_scope that no other step of the run assigns.   *)
scopeData == <<call, target, expanded, seen, hosts>>

Endpoint == Address \X Port

----------------------------------------------------------------------------
Init ==
  /\ call \in Call
  /\ pc = "arguments"
  /\ target = 1 /\ expanded = << >> /\ seen = {} /\ hosts = << >>
  /\ clock = 0 /\ started = 0
  /\ host = 1 /\ port = 1 /\ path = 1
  /\ connections = 0
  /\ results = << >>
  /\ servers = << >>
  /\ aborted = FALSE
  /\ written = {}
  /\ exit = -1
  /\ probed = << >>
  /\ sockets = 0
  /\ committed = 0

----------------------------------------------------------------------------
(* The gates, in the order of the code.  A gate that fails denies the run; *)
(* scope resolution, the last of them, refuses it.                         *)

Gate(here, ok, next) ==
  /\ pc = here
  /\ pc' = IF ok THEN next ELSE "denied"
  /\ UNCHANGED <<scopeData, runVars>>

CheckArguments == Gate("arguments", call.complete, "read")
ReadManifest   == Gate("read", call.readable, "policy")
LoadPolicy     == Gate("policy", call.policyOk, "parse")
LoadManifest   == Gate("parse", call.wellFormed, "expiry")
CheckExpiry    == Gate("expiry", clock < call.expires_at, "verify")

(* Mutant: a verifier that cannot run lets the manifest pass.              *)
VerifyManifestFailsOpen ==
  /\ pc = "verify"
  /\ clock' \in clock .. clock + VerifyTimeout
  /\ pc' \in {"denied", "ports"}
  /\ UNCHANGED <<scopeData, loopVars, path, aborted, written, exit, history>>

(* A good signature is still refused when the verifier is missing, fails   *)
(* or times out; a bad one never passes.                                   *)
VerifyManifest ==
  /\ pc = "verify"
  /\ clock' \in clock .. clock + VerifyTimeout
  /\ \/ pc' = "denied"
     \/ call.signed /\ pc' = "ports"
  /\ UNCHANGED <<scopeData, loopVars, path, aborted, written, exit, history>>

ResolveScope == ScopeNext /\ UNCHANGED runVars

Refuse ==
  /\ pc \in {"denied", "refused"}
  /\ pc' = "ended"
  /\ exit' = 2
  /\ UNCHANGED <<scopeData, clock, loopVars, path, aborted, written, history>>

Preview ==
  /\ pc = "scoped"
  /\ call.dryRun
  /\ pc' = "json"
  /\ UNCHANGED <<scopeData, runVars>>

----------------------------------------------------------------------------
(* The probe loop.                                                         *)

StartLoop ==
  /\ pc = "scoped"
  /\ ~ call.dryRun
  /\ started' = clock
  /\ pc' = "loop"
  /\ UNCHANGED <<scopeData, clock, host, port, connections, results, servers,
                 path, aborted, written, exit, history>>

(* Mutants: the abort switch is not read; the deadline is read once per    *)
(* host.                                                                   *)
OverBudgetDeaf      == connections >= Budget.max_total_connections
PastDeadlinePerHost == port = 1 /\ clock - started > Budget.max_runtime

OverBudget   == aborted \/ connections >= Budget.max_total_connections
PastDeadline == clock - started > Budget.max_runtime

Current == <<hosts[host], call.ports[port]>>

(* The abort switch and the counter are read first.  The clock is read     *)
(* after them, and the probe begins after that: an abort that arrives in   *)
(* between is seen only before the next probe.                             *)
PollAbort ==
  /\ pc = "loop"
  /\ host <= Len(hosts)
  /\ ~ OverBudget
  /\ pc' = "polled"
  /\ UNCHANGED <<scopeData, runVars>>

BeginProbe ==
  /\ pc = "polled"
  /\ ~ PastDeadline
  /\ pc' = "connect"
  /\ probed' = Append(probed, Current)
  /\ sockets' = sockets + 1
  /\ UNCHANGED <<scopeData, clock, loopVars, path, aborted, written, exit, committed>>

(* Mutant: running out of hosts does not end the loop.                     *)
LeaveLoopWhenStopped ==
  /\ \/ pc = "loop" /\ host <= Len(hosts) /\ OverBudget
     \/ pc = "polled" /\ PastDeadline
  /\ pc' = "json"
  /\ UNCHANGED <<scopeData, runVars>>

LeaveLoop ==
  /\ \/ pc = "loop" /\ host > Len(hosts)
     \/ pc = "loop" /\ host <= Len(hosts) /\ OverBudget
     \/ pc = "polled" /\ PastDeadline
  /\ pc' = "json"
  /\ UNCHANGED <<scopeData, runVars>>

(* Mutant: any reachable host becomes a finding.                           *)
RecordReachable(reachable, mcp) ==
  /\ connections' = connections + 1
  /\ results' = [e \in DOMAIN results \union {Current} |->
                   IF e = Current THEN [reachable |-> reachable, mcp |-> mcp]
                                  ELSE results[e]]
  /\ servers' = IF reachable THEN Append(servers, Current) ELSE servers
  /\ pc' = "pause"
  /\ UNCHANGED <<started, host, port, path, history>>

(* do_probe returned: count it, record it under its endpoint, and keep a   *)
(* finding if the host answered like an MCP server.                        *)
Record(reachable, mcp) ==
  /\ connections' = connections + 1
  /\ results' = [e \in DOMAIN results \union {Current} |->
                   IF e = Current THEN [reachable |-> reachable, mcp |-> mcp]
                                  ELSE results[e]]
  /\ servers' = IF reachable /\ mcp THEN Append(servers, Current) ELSE servers
  /\ pc' = "pause"
  /\ UNCHANGED <<started, host, port, path, history>>

(* Ask for the n-th MCP path over a connection of its own.                 *)
Request(n) ==
  /\ path' = n
  /\ sockets' = sockets + 1
  /\ pc' = "get"
  /\ UNCHANGED <<loopVars, probed, committed>>

(* Mutant: an unreachable endpoint is tried again.                         *)
ConnectRetries ==
  /\ pc = "connect"
  /\ clock' \in clock .. clock + Timeout
  /\ \/ pc' = "loop" /\ UNCHANGED <<loopVars, path, history>>
     \/ Request(1)
  /\ UNCHANGED <<scopeData, aborted, written, exit>>

Connect ==
  /\ pc = "connect"
  /\ clock' \in clock .. clock + Timeout
  /\ \/ Record(FALSE, FALSE)
     \/ Request(1)
  /\ UNCHANGED <<scopeData, aborted, written, exit>>

(* A GET connects and then waits for the answer, each under the timeout.   *)
(* What the wait brings is the choice of the remote host: an answer, none  *)
(* that can be used, a piece, or pieces for ever.                          *)
HttpAnswer ==
  /\ pc = "get"
  /\ clock' \in clock .. clock + 2 * Timeout
  /\ Record(TRUE, TRUE)
  /\ UNCHANGED <<scopeData, aborted, written, exit>>

GetFails ==
  /\ pc = "get"
  /\ clock' \in clock .. clock + 2 * Timeout
  /\ IF path < McpPaths THEN Request(path + 1) ELSE Record(TRUE, FALSE)
  /\ UNCHANGED <<scopeData, aborted, written, exit>>

(* The timeout bounds one recv, not the answer: a piece restarts it.       *)
AnswerTrickles ==
  /\ pc = "get"
  /\ Trickle
  /\ clock < Horizon
  /\ clock' \in clock + 1 .. clock + Timeout
  /\ UNCHANGED <<scopeVars, loopVars, path, aborted, written, exit, history>>

(* Nothing bounds the number of pieces: a host that goes on sending keeps  *)
(* the probe for as long as it likes.  Only a signal ends such a run.      *)
AnswerNeverEnds ==
  /\ pc = "get"
  /\ Trickle
  /\ pc' = "endless"
  /\ UNCHANGED <<scopeData, runVars>>

(* Mutant: the cooldown applies between hosts only.                        *)
PausePerHost ==
  /\ pc = "pause"
  /\ IF port < Len(call.ports)
       THEN port' = port + 1 /\ UNCHANGED <<host, clock>>
       ELSE port' = 1 /\ host' = host + 1 /\ clock' = clock + Budget.cooldown
  /\ pc' = "loop"
  /\ UNCHANGED <<scopeData, started, connections, results, servers, path,
                 aborted, written, exit, history>>

Pause ==
  /\ pc = "pause"
  /\ clock' = clock + Budget.cooldown
  /\ IF port < Len(call.ports)
       THEN port' = port + 1 /\ UNCHANGED host
       ELSE port' = 1 /\ host' = host + 1
  /\ pc' = "loop"
  /\ UNCHANGED <<scopeData, started, connections, results, servers, path,
                 aborted, written, exit, history>>

----------------------------------------------------------------------------
(* Reporting.  An OSError from write_report is not caught: the process     *)
(* ends with a traceback and status 1.                                     *)

(* Mutant: a report that could not be written is ignored.                  *)
EmitBestEffort(here, wanted, next) ==
  /\ pc = here
  /\ pc' = next
  /\ written' \in IF wanted THEN {written, written \union {here}} ELSE {written}
  /\ UNCHANGED <<scopeData, clock, loopVars, path, aborted, exit, history>>

Emit(here, wanted, next) ==
  /\ pc = here
  /\ \/ ~ wanted /\ pc' = next /\ UNCHANGED <<written, exit>>
     \/ wanted /\ pc' = next /\ written' = written \union {here} /\ UNCHANGED exit
     \/ wanted /\ pc' = "crashed" /\ exit' = 1 /\ UNCHANGED written
  /\ UNCHANGED <<scopeData, clock, loopVars, path, aborted, history>>

EmitJson  == Emit("json", call.json, "sarif")
EmitSarif == Emit("sarif", call.sarif, "exit")

(* LAN-EXPOSED is HIGH, so it blocks at every threshold but "critical".    *)
Exit ==
  /\ pc = "exit"
  /\ exit' = IF servers # << >> /\ call.failOn # "critical" THEN 1 ELSE 0
  /\ pc' = "ended"
  /\ UNCHANGED <<scopeData, clock, loopVars, path, aborted, written, history>>

----------------------------------------------------------------------------
(* The operator.  The abort switch exists only for callers that pass one;  *)
(* the command line does not.                                              *)

Probing == {"loop", "polled", "connect", "get", "endless", "pause"}

Abort ==
  /\ call.abortable
  /\ pc \in Probing
  /\ ~ aborted
  /\ aborted' = TRUE
  /\ committed' = Len(probed) + IF pc = "polled" THEN 1 ELSE 0
  /\ UNCHANGED <<scopeVars, clock, loopVars, path, written, exit, probed, sockets>>

Interrupt ==
  /\ pc \in Probing
  /\ pc' = "killed"
  /\ exit' = 130
  /\ UNCHANGED <<scopeData, clock, loopVars, path, aborted, written, history>>

Ended == {"ended", "killed", "crashed"}

Terminated == pc \in Ended /\ UNCHANGED vars

Answer == HttpAnswer \/ GetFails \/ AnswerTrickles \/ AnswerNeverEnds

Program ==
  \/ CheckArguments \/ ReadManifest \/ LoadPolicy \/ LoadManifest
  \/ CheckExpiry \/ VerifyManifest \/ ResolveScope \/ Refuse
  \/ Preview \/ StartLoop \/ PollAbort \/ BeginProbe \/ LeaveLoop
  \/ Connect \/ Answer \/ Pause
  \/ EmitJson \/ EmitSarif \/ Exit

Next == Program \/ Abort \/ Interrupt \/ Terminated

(* The process is scheduled and each of its waits returns, because it has  *)
(* a timeout; with what is the host's choice, which may be to send for     *)
(* ever.  Nobody has to abort or interrupt.                                *)
Spec == Init /\ [][Next]_vars /\ WF_vars(Program)

----------------------------------------------------------------------------
(* The types of the variables of this module.                              *)
PcValues ==
  {"arguments", "read", "policy", "parse", "expiry", "verify", "ports", "target",
   "host", "scoped", "denied", "refused", "json", "sarif", "exit"} \union Probing \union Ended

TypeOK ==
  /\ ScopeDataOK
  /\ pc \in PcValues
  /\ clock \in Nat /\ started \in Nat
  /\ host \in Nat \ {0} /\ port \in Nat \ {0} /\ path \in 1 .. McpPaths
  /\ connections \in Nat
  /\ DOMAIN results \subseteq Endpoint
  /\ \A e \in DOMAIN results : results[e] \in [reachable : BOOLEAN, mcp : BOOLEAN]
  /\ servers \in Seq(Endpoint)
  /\ aborted \in BOOLEAN
  /\ written \subseteq {"json", "sarif"}
  /\ exit \in {-1, 0, 1, 2, 130}
  /\ probed \in Seq(Endpoint)
  /\ sockets \in Nat
  /\ committed \in Nat

(* A call that passes every gate of the code, whatever their order.        *)
Authorised(c) ==
  /\ c.complete /\ c.readable /\ c.policyOk /\ c.wellFormed
  /\ c.expires_at > 0 /\ c.signed
  /\ ~ c.dryRun
  /\ Acceptable(c)

(* What such a call may probe, and how often.                              *)
Mandate(c) == IF Authorised(c) THEN ManifestHosts(c) \X Elems(c.ports) ELSE {}
Ceiling(c) == Budgets[c.invoker].max_total_connections

(* A packet leaves only for a (host, port) pair of a signed, unexpired,    *)
(* well-formed manifest whose scope fits the invoker's budgets and which   *)
(* is not a dry run; any refusal comes before the first packet (run_lan,   *)
(* gates in order, then the probe loop).                                   *)
NoPacketWithoutAuthority ==
  \A i \in 1 .. Len(probed) : probed[i] \in Mandate(call)

(* The traffic of a run is bounded by the budget of its invoker, counted   *)
(* in probes and in the TCP connections the probes may open, and the       *)
(* pacing holds: k finished probes have cost at least k cooldowns.         *)
PacedAndBounded ==
  /\ Len(probed) <= Budget.max_total_connections
  /\ sockets <= (1 + McpPaths) * Len(probed)
  /\ pc \in {"loop", "json"} /\ ~ call.dryRun =>
       clock - started >= connections * Budget.cooldown

(* The run that reports stopped for a reason: every pair of the plan was   *)
(* probed, or the caller aborted, or the deadline had passed.  The         *)
(* connection budget is never that reason, because scope resolution        *)
(* already refused what would not fit.                                     *)
CompleteUnlessStopped ==
  pc = "json" /\ ~ call.dryRun =>
    \/ Elems(probed) = ManifestHosts(call) \X Elems(call.ports)
    \/ aborted
    \/ PastDeadline

(* The findings and the audit's results tell the same story: an endpoint   *)
(* has a finding exactly when its recorded result looks like MCP, it has   *)
(* one finding only, and every endpoint probed has a result.               *)
FindingsMatchResults ==
  pc \in {"loop", "json", "sarif", "exit", "ended"} =>
    /\ Elems(servers) = {e \in DOMAIN results : results[e].mcp}
    /\ \A i, j \in 1 .. Len(servers) : servers[i] = servers[j] => i = j
    /\ DOMAIN results = Elems(probed)

(* The exit status tells a script what happened: 2 is a refusal and no     *)
(* report exists, 0 at a threshold other than critical means no probed     *)
(* endpoint looked like MCP, and every requested report is then on disk.   *)
StatusTellsOutcome ==
  pc = "ended" =>
    /\ exit = 2 => probed = << >> /\ written = {}
    /\ exit # 2 => /\ call.json => "json" \in written
                   /\ call.sarif => "sarif" \in written
    /\ exit = 0 /\ call.failOn # "critical" =>
         \A e \in DOMAIN results : ~ results[e].mcp

(* The longest a probe may last when every wait ends at its timeout.       *)
ProbeLimit == Timeout * (1 + 2 * McpPaths)

Later(t, u) == IF t > u THEN t ELSE u

(* The wall-clock budget is a ceiling up to the probe and the pause in     *)
(* progress when it runs out, and up to the moment (Horizon) at which the  *)
(* last host stops sending its answer in pieces; a run whose host never    *)
(* does is not bounded.  The loop begins within the verifier's limit of    *)
(* the manifest's expiry, so both bound how long after it a run may go on. *)
HardDeadline ==
  pc \in (Probing \ {"endless"}) \union {"json"} /\ ~ call.dryRun =>
    /\ clock <= Later(started + Budget.max_runtime, Horizon) + ProbeLimit + Budget.cooldown
    /\ started < call.expires_at + VerifyTimeout

(* After the caller aborts no further probe begins, except the one for     *)
(* which the switch had already been read when the abort arrived.          *)
AbortHalts == aborted => Len(probed) <= committed

(* "one signal ... halts everything immediately": after an abort nothing   *)
(* more is sent, not even by the probe in progress.                        *)
AbortHaltsImmediately == [][aborted => sockets' = sockets]_vars

(* "probes after this instant are refused": no probe begins at or after    *)
(* the expiry of the manifest.                                             *)
NoProbeAfterExpiry == [][probed' # probed => clock < call.expires_at]_vars

(* "a hard traffic cap": the connection budget bounds the TCP connections. *)
ConnectionsWithinBudget == sockets <= Budget.max_total_connections

(* "max wall-clock runtime": the same without the Horizon.                 *)
RuntimeIsCapped ==
  pc \in Probing \ {"endless"} /\ ~ call.dryRun =>
    clock <= started + Budget.max_runtime + ProbeLimit + Budget.cooldown

(* Every run that sent a packet and came to an end left its audit record   *)
(* on disk.                                                                *)
AuditOnDisk == pc \in Ended /\ probed # << >> => "json" \in written

(* The process comes to an end, unless a remote host goes on sending its   *)
(* answer for ever and nobody interrupts.                                  *)
Terminates == <>(pc \in Ended) \/ <>[](pc = "endless")

(* A run implements LanEngagement.                                         *)
Phase ==
  CASE pc \in Probing                   -> "engaged"
    [] pc \in {"json", "sarif", "exit"} -> "closing"
    [] pc \in Ended                     -> "over"
    [] OTHER                            -> "deciding"
Engagement ==
  INSTANCE LanEngagement
    WITH Mandate <- Mandate, phase <- Phase, log <- probed, status <- exit

(* Every step of the run is a step the abstract engagement allows.         *)
ImplementsEngagement == Engagement!Spec
=============================================================================
