------------------------------ MODULE SarifLog ------------------------------
(***************************************************************************)
(* What a report becomes for code scanning (report/sarif.py): the findings *)
(* of each server, most severe first, as results that point into a table   *)
(* of rules built on the way.                                              *)
(*                                                                         *)
(* A place is [kind, name]: a path seen from the scanned root and the home *)
(* directory, or a network endpoint, with or without a scheme.             *)
(***************************************************************************)
EXTENDS Lists

Located(id, severity, place, line, secret) ==
  [id |-> id, severity |-> severity, place |-> place, line |-> line, secret |-> secret]

SeverityOrder == [critical |-> 0, high |-> 1, medium |-> 2, low |-> 3, info |-> 4]

(* The ids of the checks, as strings are ordered.                          *)
IdOrder ==
  <<"CRED-GIT", "CRED-PERMS", "CRED-PLAINTEXT", "EXPOSE-BIND", "LAN-EXPOSED", "PIN-KNOWN-VULN",
    "PIN-UNPINNED", "SCOPE-AUTOAPPROVE-WILDCARD", "SCOPE-DANGEROUS-ALLOW",
    "SCOPE-DANGEROUS-AUTOAPPROVE", "SCOPE-WILDCARD">>

(* sorted() is stable: where a finding stood decides last.                 *)
OrderedFindings(findings) ==
  SortedBy(findings, [f \in ToSet(findings) |->
                       <<SeverityOrder[f.severity], IndexOf(f.id, IdOrder), 0>>])

----------------------------------------------------------------------------
NoUri == << >>

(* Paths outside of the root keep their ~, or become file URIs.  GitHub    *)
(* has no use for an endpoint.                                             *)
SourceUri(place) ==
  CASE place.kind \in {"scheme", "endpoint"} -> NoUri
    [] place.kind = "under root" -> <<place.name>>
    [] place.kind = "home" -> <<"~", place.name>>
    [] place.kind = "absolute" -> <<"file://", place.name>>
    [] place.kind = "drive" -> <<"file:///", place.name>>

Level == [critical |-> "error", high |-> "error", medium |-> "warning", low |-> "note", info |-> "note"]
Band == [critical |-> "9.5", high |-> "8.0", medium |-> "5.0", low |-> "2.0", info |-> "0.0"]

Rule(finding) == [id |-> finding.id, level |-> Level[finding.severity], band |-> Band[finding.severity]]

Registered(rules, id) == \E r \in DOMAIN rules : rules[r].id = id

IndexIn(rules, id) == (CHOOSE r \in DOMAIN rules : rules[r].id = id) - 1

(* Mutant: the index is taken after the rule is added.                     *)
RuleIndexAfter(rules, finding) ==
  IF Registered(rules, finding.id) THEN IndexIn(rules, finding.id) ELSE Len(rules) + 1

RuleIndex(rules, finding) ==
  IF Registered(rules, finding.id) THEN IndexIn(rules, finding.id) ELSE Len(rules)

Result(rules, finding, uri) ==
  [ruleId |-> finding.id, ruleIndex |-> RuleIndex(rules, finding),
   level |-> Level[finding.severity], uri |-> uri, line |-> finding.line,
   fingerprint |-> <<finding.id, uri, finding.line, finding.secret>>]

Add(log, finding, uri) ==
  [rules   |-> IF Registered(log.rules, finding.id) THEN log.rules
               ELSE Append(log.rules, Rule(finding)),
   results |-> Append(log.results, Result(log.rules, finding, uri))]

EmptyLog == [rules |-> << >>, results |-> << >>]

(* A finding that is in no file is dropped, and registers no rule.         *)
LogOf(findings) ==
  LET log[n \in 0 .. Len(findings)] ==
        IF n = 0 THEN EmptyLog
        ELSE LET uri == SourceUri(findings[n].place)
             IN  IF uri = NoUri THEN log[n - 1] ELSE Add(log[n - 1], findings[n], uri)
  IN  log[Len(findings)]

ReportToSarif(servers) ==
  LogOf(FlattenSeq([s \in DOMAIN servers |-> OrderedFindings(servers[s].findings)]))

----------------------------------------------------------------------------
(* What it is for a log to tell the findings of a report: every finding in *)
(* a file is one result of its rule, level, file and line; the results are *)
(* in the order of the servers, and within one they do not become more     *)
(* severe; a result points to the rule it names; and no rule is there      *)
(* twice or for nothing.                                                   *)

InFile(findings) ==
  Sift(findings, {f \in ToSet(findings) : f.place.kind \notin {"scheme", "endpoint"}})

Tells(r, f) ==
  <<r.ruleId, r.level, r.uri, r.line>> = <<f.id, Level[f.severity], SourceUri(f.place), f.line>>

Alike(f, g) ==
  /\ f.id = g.id /\ f.line = g.line
  /\ Level[f.severity] = Level[g.severity] /\ SourceUri(f.place) = SourceUri(g.place)

LevelOrder == [error |-> 0, warning |-> 1, note |-> 2]

(* The results of the s-th server, if the findings in files are so many.   *)
ResultsOf(results, files, s) ==
  LET before == Len(FlattenSeq(SubSeq(files, 1, s - 1)))
  IN  SubSeq(results, before + 1, before + Len(files[s]))

TellsFindings(log, servers) ==
  LET files == [s \in DOMAIN servers |-> InFile(servers[s].findings)]
  IN  /\ Len(log.results) = Len(FlattenSeq(files))
      /\ \A s \in DOMAIN files :
           LET given == ResultsOf(log.results, files, s)
           IN  /\ \A f \in ToSet(files[s]) :
                    Cardinality({k \in DOMAIN given : Tells(given[k], f)})
                      = Cardinality({k \in DOMAIN files[s] : Alike(files[s][k], f)})
               /\ \A j, k \in DOMAIN given :
                    j < k => LevelOrder[given[j].level] <= LevelOrder[given[k].level]
      /\ \A r \in ToSet(log.results) :
           r.ruleIndex + 1 \in DOMAIN log.rules /\ log.rules[r.ruleIndex + 1].id = r.ruleId
      /\ \A j, k \in DOMAIN log.rules : log.rules[j].id = log.rules[k].id => j = k
      /\ \A k \in DOMAIN log.rules : \E r \in ToSet(log.results) : r.ruleIndex + 1 = k
=============================================================================
