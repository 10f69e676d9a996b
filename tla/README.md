# mcpscan in TLA+

TLA+ models of `mcpscan`, the local-first auditor of MCP servers in this
repository, the TLC configurations that check them, and TLAPS proofs of the
properties that matter most. Paths are relative to the repository; a file named
without a directory is under `src/mcpscan/`.

- [The system](#the-system): components, state, operations, hard behaviour
- [Modules](#modules): which module models what, and how it corresponds to the code
- [Runs](#runs): what each configuration checks, bounds, fairness
- [Where code and documentation disagree](#where-code-and-documentation-disagree)
- [Proofs](#proofs)
- [Abstractions, and what is not modelled](#abstractions)
- [Plan](#plan)

## The system

`mcpscan` is a command-line program of one thread. It keeps no state between
runs but the files it writes. What makes it hard to test is what happens around
it: files that change between two calls, an editor or a second process at work
on the same config, a crash between two system calls, remote hosts and a clock
during a network run, services that come and go, and data that is keyed,
deduplicated, sorted and compared along the way.

| Component | State it keeps | Operations | What is hard | What makes it correct |
|---|---|---|---|---|
| LAN scope (`lan/scope.py`, `lan/budgets.py`) | hosts listed, hosts seen | `resolve_scope`, `Budgets.lowered` | counting while expanding, overlapping targets, first objection wins | the decision is the one the manifest's meaning gives; the list is exactly its hosts |
| LAN run (`lan/runner.py`, `lan/probe.py`, `cli._run_lan`) | loop indices, counter of probes, results, findings, start time | gates, probe loop, reports, exit | the clock against expiry and deadline; abort, SIGINT; slow hosts; failing writes | no packet without authority; pacing and ceilings; findings, results and status agree |
| LAN authority (`lan/manifest.py`, `lan/policy.py`, `lan/verify.py`) | none | parse, date, verify | manifest, signature and signers are read at three moments; a verifier that is missing or slow | what is run is what was signed, by whom it says |
| LAN audit (`lan/audit.py`) | none | record, digest | written at the end only | see [below](#where-code-and-documentation-disagree) |
| Fixer, files (`fix.py`) | config, backup and temporary file of each path | read, plan, back up, write, replace | saves, a second fixer and crashes between any two calls | no torn config, originals recoverable |
| Fixer, command (`cli._run_scan`, `cli._apply_fixes`) | report, queue of configs, exit status | scan, discover, plan, apply, exit | paths visited twice, edits meanwhile, a config that fails in the middle, a status older than the fixes | what was reported is removed and nothing else; a second run is quiet |
| Report writer (`report/writer.py`) | content and mode of a file | open, write, chmod | crashes, other writers, readers, an existing file | private files; nothing half written is taken for whole |
| Drift (`drift/*`, `cli._run_baseline`, `_run_diff`) | snapshots: facts with stable keys | snapshot, digest, load, diff, gate | keys that collide, edited baselines, a machine that changes during the look at it | only snapshots that were taken are compared with; the gate is quiet exactly when nothing is worse |
| Scan engine (`engine.py`, `io_safe.py`, `discovery/sockets.py`) | servers with their findings | discover, read, audit, enumerate, assemble | files that vanish, grow or change mode between check and use | what nobody touches is reported exactly; nothing is reported that was not there |
| Checks (`checks/*`) | none | predicates on one declaration or file | precedence of the rules | agreement with the fixer and with trust |
| Scoring and gate (`scoring.py`, `domain.py`, `cli._exit_code`) | none | deductions, grades, threshold | three tables that must fit each other | gate and grade do not contradict each other |
| Inventory (`inventory/*`) | services met, assets | enumerate, classify, probe, sort | services that change, time out, share ports | one asset per service; names win; confidence is earned |
| Trust (`trust/*`) | none | factors, scores, relationships | a second walk and a second set of tables | it agrees with what the scan finds |
| Host adapters (`adapters/*`) | none | candidate paths, parse, strip comments | three systems, seven hosts, four syntaxes; the fixer knows one; quotes, comments and commas inside each other | what is flagged can be fixed; only comments and trailing commas are stripped |
| OSV (`enrichment/osv.py`, `engine._enrich_pinning`) | none | look up, parse the answer | requests that fail in every way, in the middle of a scan | a lookup adds to its own server and to nothing else |
| SARIF (`report/sarif.py`) | rule table, results | locate, sort, register, add | indices into a table that grows while some findings are dropped | every result points to its rule |
| Anonymizer (`tools/dogfood/anonymize.py`) | the text, counts | replace, sweep, scrub, verify | passes over one text that find what earlier ones put there | the fixture has the findings of the original and none of its secrets |
| Redaction, other renderers, ATLAS table, argument parser, `tools/dogfood/run.py` and `corpus.py` | none | see [below](#abstractions) | | |

Components meet in three ways: by calls within one command (`scan` feeds
`build_snapshot`; adapters feed checks, trust, inventory), by files (the fixer
writes what the scan reads, `baseline` writes what `diff` loads, two commands
may run at once), and by the exit status, which is what scripts see.

## Modules

`X` is modelled by `X.tla`; `MCX.tla` gives its constants small values, and
`MCX*.cfg` selects them and the properties. `XProofs.tla` extends `X` with
theorems.

### LAN engagement

- **LanBudgets** - the two ceiling tables and `Budgets.lowered`. Time is
  counted in ticks of 50 ms, so that the shipped numbers are integers.
- **LanScope** - `resolve_scope`. One action per iteration: `CheckPorts`,
  `AdmitTarget`/`RejectTarget` (validity, `agent` gating, private default,
  allow-list, empty network), `AddHost` (one host, with the host count compared
  inside the loop as in the code), `NextTarget`, `ConcludeScope` (empty list and
  the product hosts x ports). `Acceptable` says what a manifest means without
  any order; `ScopeDecision` compares the two.
- **LanRun** - extends LanScope with the process around it. `CheckArguments` to
  `VerifyManifest` are the gates in the order of the code. An iteration polls the
  callback (`PollAbort`), reads the clock and probes (`BeginProbe`), or leaves
  (`LeaveLoop`, after either). A probe is `Connect`, then up to `McpPaths` HTTP
  requests, each a connection of its own whose waits are bounded one by one:
  `HttpAnswer`, `GetFails`, `AnswerTrickles` for an answer that comes in pieces
  and `AnswerNeverEnds` for one that always has another piece to come; then
  `Pause`. `EmitJson`, `EmitSarif`, `Exit` report. `Abort` makes the
  `should_abort` callback true at any moment, between the poll and the probe
  too; `Interrupt` is SIGINT. `probed`, `sockets` and `committed` (the probes
  begun or let through by a poll when the caller aborted) are histories.
- **LanAuthority** - `cli._run_lan` from the manifest's bytes to the verdict:
  `ReadManifest`, `LoadPolicy`, `LoadManifest` (the fields in the order of their
  checks, and the exceptions that get past them), `Verify` with its reads of the
  signature and of the allowed signers, for both signature schemes. `Replace`
  exchanges a file between any two reads; `seen` remembers what was there.
  LanRun has the verdict as a gate that takes time.
- **LanEngagement** - the promise: decide first, touch only the mandate, never
  twice, never past the ceiling, status 2 means nothing was sent. LanRun
  implements it under the mapping at the end of LanRun (`Phase` from `pc`,
  `log` from `probed`, `Mandate` from the calls that pass every gate).

### Fixing configs

- **ConfigContent** - what the fixer tells apart in a text: its grants, or that
  it does not parse. **AtomicFix** - the promise: a config changes only when
  its user saves it, or in one step to that version without its unsafe grants,
  and the saved version can be restored.
- **ConfigFix** - `apply_fix_to_file` one system call at a time: `StartBackup`
  truncates, `CopyBackup` writes, `StampBackup` copies the mode; `OpenTmp`
  (mode only on creation, less the umask), `WriteTmp`, `Replace`; `WriteFails`
  and `ReplaceFails` raise. The `finally` clause follows the rename (`Tidy`) and
  an exception (`Undo`): it looks for the temporary file and, in another call,
  unlinks it (`UnlinkTmp`, `UnlinkFails`), whoever made it. `PassOver` is a config
  that `safe_read_text` refuses: the loop goes on with the next one, and `passed`
  remembers it. `Save` is a user's editor that renames a new file over the
  config, `Crash` stops a fixer anywhere.
  Files are inodes: `fd` follows the open temporary file when another process
  renames or unlinks it.
- **ConfigPaths** - where the seven hosts keep their configs on three systems
  (`Home`, `AppData`, `UserPaths`, `ProjectPaths`), and `Tour`, the order of the
  visits. **Lists** - `Sift`, the loop that keeps what passes a test, as a
  recursive function so that it can be proved about, and `SortedBy`, the stable
  `sorted(..., key=...)`; the checks, the fixer, the scan, the inventory and the
  snapshots are written with them. **FixPlan** - what is flagged in one config, what is
  removed from it, and what the text becomes, for the hosts and syntaxes the
  adapters know.
- **FixCommand** - `scan --fix` over a whole machine: `Scan` visits every
  candidate path, `Discover` collects the existing ones once each, `Plan` and
  `Apply` go through them, `ApplyFails` is an OSError nobody catches, `Finish`
  takes the exit status from the report made before. `Touch` edits, creates and
  deletes configs at any moment, `RunAgain` starts the command once more.
- **Jsonc** - the two passes of the JSONC scanner, one character per step
  (characters have names: `comma`, `slash`, ...), over texts made of lexemes, so
  that the right result can be said without scanning.

### Drift

- **Drift** - facts, snapshots, digests, `by_key`, the three directions,
  `diff_snapshots`, the baseline document. **Inventory** - classification of a
  socket (name, then answer, then port hint), skipping of known services, the
  sort. **Posture** - what `scan` and `collect_inventory` make of a machine
  (grants, one secret, sockets) and the facts of `build_snapshot`.
- **ReportFile** - `write_report`: open and truncate, two partial writes, a
  write that fails, `chmod` in the `finally` clause, a kill in between. A file
  has a front and a rest so that readers and writers can mix.
- **DriftGate** - any number of processes run `baseline` and `diff` over one
  file: `RunBaseline`, `RunDiff`, `ReadFront`, `ReadRest` (the load with its
  digest), `TakeScan`, `TakeInventory` (two looks at the machine), `Write`,
  `CloseReport`; `Change`, `Edit`, `Widen` and `Kill` are the world. `looks` and
  the `scan`, `stock` fields of a document are history.

### Scan, trust, inventory

- **Grading** - weights, scores, grades, thresholds. **ServerChecks** - the
  findings of a declaration and of an `.env` file, and the trust factors of the
  same declaration.
- **ScanWalk** - `scan`, then `trust`, over the candidate files in the two
  orders the code walks them in. `Look`, `Resolve`, `Stat`, `Read` are the
  calls of `exists` and `safe_read_text`; `Audit`, `ProfileServers`,
  `AuditEnvFile` (with its second `stat`), `ParserFails`, `Enumerate` follow.
  A file may be missing, lead out of its directory, be unreadable, too big,
  below a directory that cannot be searched (`hidden`) or a loop of links; a text
  may be whole, broken, too deeply nested for its parser or, for Continue, a YAML
  text that raises a plain `ValueError` (`odd`). What each call makes of each is
  that of Python 3.11 and 3.12: `exists()` raises of a hidden file and is false
  of a loop, `resolve()` lets a hidden file pass and raises of a loop (which 3.13
  no longer does). `Touch` changes any file at any moment. `since` remembers the
  states of each file since the start.
- **SarifLog** - the order of the findings, the source URIs, the rule table and
  the results of `report/sarif.py`, one finding after the other (`LogOf`), and
  what it is for a log to tell the findings of a report (`TellsFindings`), said
  without the loop. **OnlineScan** - `scan --online --sarif`:
  `Audit` one server up to its lookup, `Answered` and `LookupFails` for what
  becomes of it while the scan `Waits`, `Render` for the log and the exit status
  (from Grading). A lookup that raises ends the scan.
- **InventoryWalk** - the socket half of `collect_inventory` over services that
  stop and start: `Enumerate` lists the sockets without names, `ListingDenied`
  lists none, `NameNext` asks for one name, which may not be told, and both mark
  the inventory `incomplete`. Then one socket per step is classified or skipped.
  The requests made of it are one step; when some of them time out, what is heard
  is nothing or one of the `Weaker` answers of the same service (`Audible`).
  `present` is what listened when it was listed.

### Dogfood

- **Anonymize** - the passes of `anonymize.py` over one text: `Collect`,
  `ReplaceSecret` per value, `Sweep` per pattern, `ScrubHomes`,
  `AssertNoProviderSecret`. A string is a sequence of marks, among them a token
  that two patterns match in part and a key that JSON writes with escapes.

## Runs

All runs listed in `PROJECT.json` finish within two minutes on two workers.
Deadlock is checked where the process must go on until it ends (`lan_run`, `fix`,
`fix_pair`) and not where it simply stops (`CHECK_DEADLOCK FALSE`, all others).

| Run | Shows | Bounds, and why they suffice |
|---|---|---|
| `lan_run` | `ScopeDecision`, `ScopeExact`, `ScopeAuthorised`, `NoPacketWithoutAuthority`, `PacedAndBounded`, `CompleteUnlessStopped`, `FindingsMatchResults`, `StatusTellsOutcome`, `HardDeadline`, `Terminates`, `AbortHalts`, `ImplementsEngagement` | dry runs over every sequence of up to three targets from eight (overlapping, oversized, public, unparsable), one to three ports, both invokers, three policies: host, port and product limits are met exactly, missed by one and exceeded. Probes over calls that fail each gate alone, for both invokers; two hosts, two ports; the deadline (6 ticks) falls within the loop for slow hosts and after it for fast ones, and hosts may answer in pieces until tick 8 (`Horizon`), past the deadline, or never end; the caller aborts anywhere |
| `lan_authority` | `RunsWhatWasSigned` | two operators and keys, manifests unsound in each way and in two at once, signatures of each kind, six signers files; one file is replaced during the run, which lets any two of the three reads disagree |
| `fix` | `NothingInvented`, `Reversible`, `CleanWhenDone`, `ModeNeverWidened`, `ImplementsAtomicFix` | one fixer that crashes, fails, passes configs over and starts again over two configs of every content over three grants; users save between runs |
| `fix_pair` | `FixEnds` | two fixers on one config, which share the names of the backup and of the temporary file |
| `fix_command` | `RescanClean`, `FixesWhatWasReported`, `KeepsTheRest`, `SecondRunIsQuiet`, `StatusCoversWhatIsLeft`, `NoGap` | one config with every list of up to two entries and up to two servers; and all configs of a machine, on each system, with roots that are the home directory or given twice, two of them edited or deleted while the command runs; two runs, a failure anywhere in either |
| `drift` | `PublicOnlyByOthers`, `OnlyTakenBaselines`, `QuietMeansNoNewPlace`, `AlarmMeansNewPlace`, `SamePostureNoDrift` | two processes, three runs, one change, one edit; enough for a baseline, a second writer and a `diff` that overlap; a kill is free |
| `inventory` | `OneAssetPerService`, `NamedIsListed`, `OrderOnlyMattersForStacks` | three sockets at a time of seven, on three ports, two changes during the walk, every order of the listing, names and requests that fail, a denied listing |
| `scan` | `SteadyFilesAreReported`, `FindingsWereThere`, `TrustFollowsScan` | three configs in eleven or twelve states, an `.env` file in six, two changes at any moment: one file changes twice, or two change once |
| `jsonc` | `StripsExactly` | every text of up to four lexemes of fourteen, three of which leave something open |
| `online` | `OnlineOnlyAdds`, `ResultsTellFindings` | up to two servers with up to two arguments between them, every separator and kind of version, four answers and three failures of each lookup |
| `anonymize` | `FaithfulFixture` | every text of up to two strings of up to two marks, in secret, plain and no keys: a value that is part of another, that occurs twice, that a synthetic resembles |
| `drift_grants` | a sentence of the documentation that the code does not keep | next section |

**Fairness.** `ScopeSpec` and LanRun's `Spec` have weak fairness of the
program's own steps: a process that can go on is scheduled. In LanRun these
include the end of a wait in `getresponse()`, with whatever the remote host made
of it (`Answer`): each single wait has a timeout, so it ends whatever the host
does. The host is not required to come to an end of its answer: it may choose
`AnswerNeverEnds` instead, after which the program has no step left. `Terminates`
therefore says that a run ends or waits for ever in that one place. ConfigFix has
weak fairness for each fixer's `Program(f)`, DriftGate for each `Command(p)`. No
user, signal, crash, failing write or service is ever required to act. The other
modules have no fairness; their properties are safety.

Each property has a mutant of a modelled definition that breaks it, listed in
`PROJECT.json`; mutants are the operators marked `Mutant:` and are used by
nothing else.

## Where code and documentation disagree

One is a run. The configurations with a suffix check the named property as they
are; the others are reproduced by giving them the named property in place of
their own, with the constants that are mentioned.

| Statement | Property | Configuration | What the trace shows |
|---|---|---|---|
| "probes after this instant are refused" (`docs/proposals/LAN_SCANNING.md:61`) | `NoProbeAfterExpiry` | `MCLanRun.cfg`, as a PROPERTY | expiry is read once, before verification; a long run probes on |
| "a **new finding** ... is a regression" (`README.md:216`) | `NewGrantIsRegression` | `MCDriftGate_grants.cfg` (run) | two grants of one rule in one config share a key; the second one is no drift |
| "never crash a run" (`docs/SPEC.md:210-212`) | `NeverCrashes` | `MCScanWalk_crash.cfg` | deep nesting raises `RecursionError`; an `.env` file deleted before its `stat` raises `FileNotFoundError`; `exists()` raises `PermissionError` below a directory that cannot be searched, `resolve()` `RuntimeError` of a loop of links, and `yaml.safe_load` a plain `ValueError` of an impossible date, although `adapters/continue_.py:11` says "Never raises" |
| "they become findings" (`docs/SPEC.md:113-114`, `211-212`) | `SkippedBecomesFinding` | `MCScanWalk.cfg` | `parse_error` is set and read by nobody |
| "reported with an explicit `inspection_incomplete` flag" (`docs/SPEC.md:90-91`) | `DeniedListingIsFlagged` | `MCScanWalk.cfg` | the flag lives on exposed sockets; a denied listing has none |
| "a Critical secret => F" (`tests/test_engine.py:71`) | `CriticalMeansF` | `MCScanWalk.cfg` | one critical finding alone is 60 points, a D |
| "only within the immutable host budget" (`lan/scope.py:13-15`) | `ExpansionWithinBudget` | `MCLanRun.cfg` | `list(net.hosts())` comes before any count |
| "max total connections ... hard traffic cap" (`LAN_SCANNING.md:124`, `LAN_OPERATOR_GUIDE.md:23-24`) | `ConnectionsWithinBudget` | `MCLanRun.cfg` | one probe is up to three connections and counts as one |
| "halts everything immediately" (`LAN_SCANNING.md:127`) | `AbortHaltsImmediately` | `MCLanRun.cfg`, as a PROPERTY | the probe in progress goes on to its next request, and one that was let through a moment before begins |
| "max wall-clock runtime" (`LAN_SCANNING.md:125`) | `RuntimeIsCapped` | `MCLanRun.cfg` | the timeout of `probe.py:52` bounds one `recv`; a host that trickles is never cut off, however long it does |
| "Every LAN run is bound to a written record" (`lan/audit.py:3-7`) | `AuditOnDisk` | `MCLanRun.cfg` | the record is written after the loop; SIGINT leaves none |
| the results are those of the probes (`lan/audit.py:3-7`) | `FindingsMatchResults` | `MCLanRun.cfg` with `Call <- MCRepeatedPort` | a port listed twice is probed twice, `results` keeps the second, `servers` has both |
| "written atomically" (`fix.py:155`) | `NothingInvented` | `MCConfigFix_pair.cfg` | two fixers share the temporary name: one renames what the other has just truncated |
| "Reversible" (`README.md:121-122`) | `Reversible` | `MCConfigFix.cfg` with `Order <- OneFile`, `Racing = TRUE` | a save between the fixer's read and its rename is lost |
| "permissions are preserved" (`README.md:121-122`) | `ModePreserved` | `MCConfigFix.cfg` | `os.open` applies the umask to the mode it is given |
| "keeping the file's original permission bits" (`fix.py:157`) | `ModeNeverWidened` | `MCConfigFix.cfg` with `Order <- OneFile`, `UserMode <- Changed` | a temporary file left by a crash keeps its old, wider mode |
| "so a fixed config re-scans clean" (`README.md:118-120`) | `RescanClean` | `MCFixCommand.cfg` with the first, second or last conjunct of `Known` dropped | VS Code, Zed and Continue keep servers elsewhere or not in strict JSON; an entry that is no string is flagged and kept |
| "using the exact predicates the scanner flags with" (`README.md:118-120`) | `FixesWhatWasReported` | the same, without the third conjunct | `permissions.allow` is pruned in files whose adapter does not read it |
| "no brief window where it is world-readable" (`report/writer.py:19-20`) | `NoReadableWindow` | `MCDriftGate_grants.cfg` | a file that exists with looser bits is written before its `chmod` |
| "a **stable key**" (`drift/model.py:6-8`) | `MovedSecretIsNotRegression` | `MCDriftGate_grants.cfg` | the line is part of the key: a secret that moves is a new finding |
| "the same posture always yields the same facts" (`drift/snapshot.py:5-7`) | `SamePostureSameFacts` | `MCDriftGate.cfg` with `Sockets <- MCStacks`, `Start <- MCStartStacks`, `Process <- One`, `Dangerous <- MCGrants`, `MaxEdits = 0`, without `SYMMETRY` | of a dual-stack service the first that is listed gives the location |
| "Deterministic order" (`inventory/collect.py:109`) | `OrderDoesNotMatter` | `MCInventoryWalk.cfg` with `Machines <- MCTwoStacks`, `MaxMoves = 0` | the same |
| the endpoint is the service's own (`inventory/classify.py:94-97`) | `AnswerIsOwn` | `MCInventoryWalk.cfg` with `Machines <- MCTwoLoopbacks`, `MaxMoves = 0` | a service on `::1` is asked at `127.0.0.1`, where another answers |
| "dual-stack (v4+v6) binds of the same service" (`inventory/collect.py:94`) | `ProbeableIsAsked` | `MCInventoryWalk.cfg` with `Machines <- MCTwoNetworks`, `MaxMoves = 0` | a service bound to the network and to all addresses is not asked when the former is listed first |
| "It never raises: malformed or invalid input returns a ManifestError" (`lan/manifest.py:7-8`) | `LoadNeverRaises` | `MCLanAuthority_raises.cfg` | `astimezone` overflows for an instant at the edge of the calendar; deep nesting and very long integers raise from the TOML parser |
| "Returns [] on any network/parse error (fail safe - enrichment never breaks a scan)" (`enrichment/osv.py:60-61`) | `OnlineNeverBreaksScan` | `OnlineScan_breaks.cfg` | an answer that ends too early raises `http.client.IncompleteRead`, which is neither an OSError nor a ValueError |
| "only ever sends a fully-pinned coordinate" (`checks/pinning.py:41-42`) | `OnlyPinnedIsSent` | `OnlineScan_pinned.cfg` | `@1.x` begins with a digit, and anything after `==` will do |
| "Stable per-result fingerprint so GitHub tracks alerts" (`report/sarif.py:136`) | `AlertsStayApart` | `OnlineScan_alerts.cfg` | two servers of one config with one kind of finding have one fingerprint |
| "No raw secret survives" (`tools/dogfood/anonymize.py:13-14`) | `NoRawSecretSurvives` | `Anonymize_survives.cfg` | a PEM key is looked for as parsed, and the text has it with `\n` escapes |

## Proofs

The theorems hold for every value of the constants that satisfies the `ASSUME`
of the module (named `...Assumption`); TLC evaluates these on every run.

- **ListProofs** - lemmas about Lists that the other proofs cite: `Append`, `\o`,
  sequences without repetition, flattening (`FlattenHas`: nothing lost, and
  nothing twice if the parts are apart), lists of a set, `Sift` (what it keeps,
  that it keeps the order, sifting a concatenation, sifting twice) and
  `SortedBy`. That sorting is a permutation is proved by counting what comes
  before each element (`CountsAreAll`: in a strict order of a finite set the
  counts are 0, 1, 2, ... without a gap; `SortedPermutes`), and where no two
  elements have one rank the result is a function of the set (`SortedIsUnique`).
  The library's induction theorems take an operator and cannot be instantiated here; lists are
  done by the least element of a set of naturals instead, with the set of the
  good lengths where the operator would be.
- **LanRunProofs** - the scope, then the run. `ScopeInv` adds to the types the
  bookkeeping of the two loops: `seen` is the set of `hosts`, `hosts` has no
  repetition, what is listed comes from the targets before the current one or
  from the part of it already expanded, every target passed was admissible. From
  it `ScopeTypeCorrect`, `ScopeIsAuthorised`, `ScopeIsExact` and
  `ScopeDecidesRightly` (the incremental decision is the order-free one).
  `ScopeDecision` alone is not inductive: a refusal at a count says nothing of
  the targets not yet seen without it. `IInv` says what each gate that was
  passed has established (`PassedGates`), that a scope once granted is ready
  (`ScopeReady`), that nothing was sent or written before (`Untouched`), and
  that the loop indices stay inside the scope. One lemma per group of actions.
  From it `RunTypeCorrect` and `AuthorityBeforePackets`. `AbortIsObeyed` needs
  `AbortInv`: after an abort the poll cannot succeed any more, so that only a
  run already past it begins one more probe, which `committed` has counted.
  What a run spends and what its status says is on top of `IInv`. `TrafficInv`
  and `PaceInv` know which probe is not counted yet and which still has to pause
  (`TrafficIsBounded`); `TimeInv` bounds the clock at
  each point of a probe by the number of waits it has behind it
  (`DeadlineIsHard`); `CoverInv` says which pairs the two indices have passed
  and what the counter must then be, from which the connection budget cannot
  end the loop (`RunIsComplete`); `OutcomeInv` ties findings and reports to the
  status (`StatusIsTrue`). Products of two variables are kept behind lemmas
  (`OneMore`, `NextPair`, `LimitFacts`). Under `NoRepeatedPort`, `OnceInv` adds
  that what was probed is exactly what the indices have passed, so that a pair
  about to be probed is new (`EngagementIsOnce`, `FindingsAreTheResults`), and
  `RunIsAnEngagement` proves the refinement of LanEngagement, action by action.
  The hypothesis is needed and is not a check of the code: neither
  `load_manifest` nor `resolve_scope` removes a port given twice, and
  `MCRepeatedPort` is the counterexample without it.
- **LanAuthorityProofs** - `AuthorityInv`: the history has every file as it was
  and is, and what was read and let pass was there and is sound.
  `GrantedWasSigned` follows for any identities, keys, files and replacements.
- **ConfigFixProofs** - `TypeInv` (`FixTypeCorrect`) holds for any number of
  fixers and users: it needs `SharedInv`, that a fixer at work has its index in
  range and its files there. Atomicity, reversibility and a clean end
  (`FixIsAtomic`, `FixIsReversible`, `FixCleansUp`) are proved under the
  hypothesis that the fixer is alone (`Fixer = {f}`, no saves while it runs),
  which TLC shows to be necessary; `AloneInv` ties what the fixer holds in its
  variables to what the user saved, and says that every config before the
  current one is clean or was passed over. `FixRefines` proves that it implements
  AtomicFix. `ModesAreBounded` is again for any number of fixers: `ModeInv`
  keeps the bits of config, temporary file and every mode in a fixer's hands
  within those users have given. `FixKeepsTheMode` follows where users give one
  mode; where they change it, a temporary file left by a crash does widen it
  (previous section).
- **FixCommandProofs** - the whole command, for any machine, roots, and number
  of runs, edits and failures: `FixedRescansClean`, `FixIsTheReport`,
  `RestIsKept`, `RunsAreIdempotent`, `StatusIsAbout`, `FailureLeavesNoGap`. The
  first half is about contents: on a text that is `Known`, what the adapters
  read and what the fixer parses are the same lists, a path has one host (told
  from its last two names, whatever the root), pruning leaves nothing flagged
  and removes nothing else. `CommandInv` is about the configs nobody touches:
  such a config is as it was given or rewritten once, the queue is in the order
  of the tour and has every one that still gives an edit, the report has it as
  it was before this run, and no config is rewritten while an earlier one waits.
  The attempt found two overlapping cases in `RuleFor`, whose value TLA+ leaves
  open; they are now disjoint, as the `if`/`elif` of the code are.
- **DriftProofs** - `QuietDiffHasNoNewKey`: for any two snapshots, no regression
  means no finding and no exposed server under a new key. `GateTrustsOnlyTaken`:
  whatever is written, torn, mixed or edited, `diff` compares only with a
  snapshot that was taken; `GateInv` follows each document from the look at the
  machine through the two halves of the file to the reader, and uses the digest
  only at the load. `ReportsStayPrivate` uses its file part alone.
  What the gate decides is `QuietIsRight` and `AlarmIsRight`, the two directions
  of one equivalence: `diff` exits with 0 exactly if every place that is wrong
  with the machine it scanned was wrong with the machine of the baseline. The
  argument goes from the code outwards. `ScanHas`, `FactsHas` and
  `SnapshotFacts` say which facts a scan and an inventory give, in any order of
  the listing. `Tells` is what a document must say of a machine: findings stand
  under the keys of its places and under no others, a server is marked exposed
  under the keys of its exposed sockets and no others, and every fact has the
  kind its key begins with. `SnapshotTells` shows it of a snapshot; a
  hash of kinds, keys and details is enough to carry it over to a baseline whose
  summaries were reworded (`DocumentTells`). `QuietIsNoNewPlace` is then about
  any two documents that tell of two machines, and needs all three sets of
  entries: nothing removed or changed may count as a regression either.
  `VerdictInv` keeps it as the state goes on: only comparing makes a process one
  that has judged, and nothing touches what it judged until it begins anew
  (`JudgedStep`), so a killed or failed run never looks like a verdict.
  `SamePostureIsQuiet` is `SamePostureNoDrift` with two hypotheses. The probe is
  off, as in the run: with it on, a request that times out is a change of the
  asset (`SamePostureSameFacts` above). And no two sockets are bound to one
  address and port (`OneSocketPerAddress`; systems refuse the second bind unless
  both ask for `SO_REUSEPORT`): the key of an asset is its kind and location, so
  the assets of two such sockets would have one key and the last of them would
  count. The facts of two looks are then one set (`SilentInventory`,
  `QuietSnapshot`) in which the key tells the detail (`KeysTell`). Assumed
  throughout is only that `Start` holds machines and that sockets have an
  address and a port.
  The inventory is in the same module, since both read it: `ServicesAreApart`,
  `NamesAreListed`, `OrderDoesNotShow`
  for any machine, services that come and go, and answers. Assumed is that an
  address and port are one socket's and that a pid is one process's for the time
  of the walk; the code takes both for granted when it keys by port and pid.
  `WalkInv` keeps the listing apart from the machine that goes on changing
  (`ListingInv`), says which names it has by now (`NamesInv`: as
  long as there is no mark, every service that was `present` is listed and every
  name asked for so far was told), has `seen` as the services before the index, and says what is
  in `assets` of each of them: one asset of the socket that was met first, by
  the name of its process if that is known (`MetInv`, `GatheredInv`). The order
  of the listing does not show in the result because two assets of equal rank
  have one product, address and port and so are one (`RankTells`), and sorting
  what has no equal ranks depends on the set alone (`SortedIsUnique`).
- **ScanProofs** - `FindingsWereThere`, `SteadyFilesAreReported`,
  `TrustFollowsScan` (`FindingsHold`, `SteadyHolds`, `TrustHolds`) for any files,
  states and changes; assumed are that the candidates are different files and
  that no server bears the name the permissions are listed under. `ScanInv`
  says where the walk is (`PlaceInv`), what the calls made so far have told of
  the file in hand (`HandInv`, and `SteadyInv` if it was not touched: `exists`,
  `stat` and `read` then agree, and who dies there has met what `Kills` names), that each file passed and not touched has left
  exactly its rows in the report and in the factors and any other file none
  (`ReportInv`, `TrustInv`), and that what is in the report was in some state of
  its file (`ThereInv`). `SteadyFilesAreReported` alone says nothing of a file
  that is half read. `ServerRows` proves that the findings of a declaration and
  the trust factors of the same declaration come from the same tests.
  The same module has `StripIsExact` (`StripsExactly`): of a text of any length,
  made of the lexemes of Jsonc, the two passes leave exactly what is neither a
  comment nor a trailing comma. `StripInv` says where a pass may be (`Place`):
  before a lexeme, inside a string behind one of the characters where the
  scanner stops (`StopsIn`: never between a backslash and what it escapes),
  before the newline of a line comment, or behind the end; and what is written
  by then, which is what should be left of the lexemes passed and the characters
  copied of the string. `LexemeAt` finds the n-th lexeme in the characters,
  `SkipsLine` and `SkipsBlock` show that the end of a comment the scanner finds
  is the comment's own, also where the text ends first, `CommaTrails` that the
  look-ahead past blanks says of characters what `Trails` says of lexemes, and
  `LeftFits` that the second pass meets no comments and nothing newly left open.

- **OnlineProofs** - `SarifTellsFindings` is about `report_to_sarif` alone and has
  no hypothesis but that the fields of a finding are what they should be: the
  log of any report tells its findings (`TellsFindings`), for any number of
  servers and findings, any paths and secrets. `LogOfFits` goes along the list
  one finding at a time: the rules are the ids met so far, each once, an index
  is that of its rule whether the rule was just added or not, and the results
  are, one for one, the findings that are in a file (`Sift`), the dropped ones
  having no effect at all. `OrderedFits` is that the sort only permutes what a
  server has and that severities do not rise (`SortedRises`); levels are coarser
  than severities and so do not rise either. How often a finding occurs survives
  both the sort and the filter (`SortedCounts`, `SiftCounts`). The results of a
  server are then a block of the whole list (`FlattenBlocks`), and its length is
  that of the server's own list, whichever order the two filters come in
  (`SiftFlatten`).
  `ScanInv` carries this through the scan: every server passed has the findings
  of an offline scan followed by what its own lookup added, the outcomes are as
  many, and while the scan waits the index is in range. From it `LookupsAdd` and
  `ScansTell` (`OnlineOnlyAdds`, `ResultsTellFindings`), for any configs and
  thresholds, any arguments, and any way each lookup ends. The attempt found the
  model wrong in one place: a scan that had ended in a traceback could still be
  given the answer it no longer waits for. `Waits` is now a guard of both
  actions.

Only model-checked: all liveness (`Terminates`, `FixEnds`); two fixers beyond
their types and modes; Anonymize.

Out of the prover's reach: liveness under fairness and `ENABLED`; what the
library's `SelectSeq` and folds compute, which is why the loops proved about are
written with `Sift`, `SortedBy` and recursive functions; `FaithfulFixture` of Anonymize, whose
`Replaced` (`str.replace`) is a recursive operator, the only one of the project.

## Abstractions

- Texts are what the program tells apart in them. An entry of an allow-list is
  a value with the rules it matches; a config its grants or declarations; a
  secret is a line or a count; a document its facts and digest; a key the tuple
  of its parts rather than their text joined by colons.
- The digest is injective. Facts are kept per key in report order, which is what
  a stable sort by kind and key keeps.
- The severity of a finding is a function of its rule: true of all checks but
  OSV, which OnlineScan has with a severity of its own.
- The process tables, endpoint signatures and port hints are constants of
  Inventory. Requests tell the product of whoever listens at `127.0.0.1`, or
  nothing; in InventoryWalk also something weaker when the telling request timed
  out. In Posture and DriftGate a listing is never denied and has every name it
  may have, and requests are one answer.
- In Drift and Posture the configs are one allow-list and one `.env` file, read
  at one moment; ScanWalk is where reading takes several.
- A failing write or rename in the fixer goes through its `finally` clause. A
  config that cannot be read is passed over. Any other OSError, such as one of
  `shutil.copy2`, ends the process and is the same as a crash.
- Manifest, signature and policy are one flag per gate in LanRun and their
  fields in LanAuthority. There a signature is whose key signed what; the policy
  is sound or not.
- FixCommand reads a config in one step and replaces it in one step; ConfigFix
  is about what happens in between. Its findings are the tool-scope ones, which
  are those the fixer knows; others only ever add to the exit status. Every
  config in it can be read; ConfigFix and ScanWalk have those that cannot.
- ScanWalk leaves the `inspection_incomplete` mark of exposed sockets out, since
  no finding depends on it; InventoryWalk has it. `exists` and `is_file` of trust
  are one look.
- An advisory list of OSV is its worst member. A version is exact, partial, a
  range, a tag or missing.
- The anonymizer's texts are marks for words and secrets, two of its seven
  patterns, and one entropy class.

Not modelled: the renderers other than SARIF's for a scan and the ATLAS table
(formatting), redaction (pure, and no model carries the characters of a secret),
the sanitizing of remote answers (a filter on strings no property is about), the
digest of the audit record, the argument parser, the loopback guard of the
probes, `tools/dogfood/run.py` and `corpus.py` (a table of fixtures and a loop
that scans each). `discovery/probe.py` is called by no command.

## Plan

Done: LAN scope, authority and run; fixer, plan and the whole `--fix` command;
drift with its files; inventory of sockets; scan with scoring, trust, OSV and
SARIF; JSONC; paths; anonymizer.

Next, in order:

1. The asset half of `collect_inventory` over files that change, composed with
   ScanWalk's reading, and Posture over it.
2. The audit record with its results digest.
3. Symbolic links in ConfigFix.

Proofs: `Replaced` of Anonymize as a recursive function, so that the passes over
a text can be reasoned about.
