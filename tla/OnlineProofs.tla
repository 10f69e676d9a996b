---------------------------- MODULE OnlineProofs ----------------------------
(***************************************************************************)
(* Proofs about OnlineScan and SarifLog: that a lookup adds to its own     *)
(* server what OSV answered and nothing else, and that the SARIF log of    *)
(* any report tells its findings.                                          *)
(***************************************************************************)
EXTENDS OnlineScan, ListProofs

(* The findings of any report: names and secrets are any texts.            *)
RuleId == ToSet(IdOrder)
PlaceKind == {"scheme", "endpoint", "under root", "home", "absolute", "drive"}

Finding(Text) ==
  [id : RuleId, severity : Severity, place : [kind : PlaceKind, name : Text],
   line : Nat, secret : Text]

InFiles(Text) == {f \in Finding(Text) : f.place.kind \notin {"scheme", "endpoint"}}

(* And the logs they make.                                                 *)
UriPart(Text) == Text \union {"~", "file://", "file:///"}

RuleEntry == [id : RuleId, level : DOMAIN LevelOrder, band : {Band[s] : s \in Severity}]

SarifResult(Text) ==
  [ruleId : RuleId, ruleIndex : Nat, level : DOMAIN LevelOrder,
   uri : Seq(UriPart(Text)), line : Nat,
   fingerprint : RuleId \X Seq(UriPart(Text)) \X Nat \X Text]

Logs(Text) == [rules : Seq(RuleEntry), results : Seq(SarifResult(Text))]

----------------------------------------------------------------------------
(* Where a finding is reported, and how severe it is.                      *)

LEMMA UriOfPlace ==
  ASSUME NEW Text, NEW f \in Finding(Text)
  PROVE  /\ SourceUri(f.place) \in Seq(UriPart(Text))
         /\ SourceUri(f.place) = NoUri <=> f \notin InFiles(Text)
<1>1. PICK kind \in PlaceKind, name \in Text : f.place.kind = kind /\ f.place.name = name
  BY DEF Finding
<1>2. /\ name \in UriPart(Text) /\ "~" \in UriPart(Text)
      /\ "file://" \in UriPart(Text) /\ "file:///" \in UriPart(Text)
  BY DEF UriPart
<1>3. /\ << >> \in Seq(UriPart(Text))
      /\ <<name>> \in Seq(UriPart(Text)) /\ <<name>> # << >>
      /\ <<"~", name>> \in Seq(UriPart(Text)) /\ <<"~", name>> # << >>
      /\ <<"file://", name>> \in Seq(UriPart(Text)) /\ <<"file://", name>> # << >>
      /\ <<"file:///", name>> \in Seq(UriPart(Text)) /\ <<"file:///", name>> # << >>
  BY <1>2, ShortLists
<1>4. f \in InFiles(Text) <=> kind \notin {"scheme", "endpoint"}
  BY <1>1 DEF InFiles
<1>5. CASE kind \in {"scheme", "endpoint"}
  BY <1>1, <1>3, <1>4, <1>5 DEF SourceUri, NoUri
<1>6. CASE kind = "under root"
  BY <1>1, <1>3, <1>4, <1>6 DEF SourceUri, NoUri
<1>7. CASE kind = "home"
  BY <1>1, <1>3, <1>4, <1>7 DEF SourceUri, NoUri
<1>8. CASE kind = "absolute"
  BY <1>1, <1>3, <1>4, <1>8 DEF SourceUri, NoUri
<1>9. CASE kind = "drive"
  BY <1>1, <1>3, <1>4, <1>9 DEF SourceUri, NoUri
<1>10. QED
  BY <1>5, <1>6, <1>7, <1>8, <1>9 DEF PlaceKind

(* A level is no more severe than another if the severity is not.          *)
LEMMA LevelsFollow ==
  /\ \A s \in Severity : /\ SeverityOrder[s] \in Nat /\ Level[s] \in DOMAIN LevelOrder
  /\ \A s, t \in Severity :
       SeverityOrder[s] <= SeverityOrder[t] => LevelOrder[Level[s]] <= LevelOrder[Level[t]]
<1>1. DOMAIN LevelOrder = {"error", "warning", "note"}
  BY DEF LevelOrder
<1>2. ASSUME NEW s \in Severity
      PROVE  SeverityOrder[s] \in Nat /\ Level[s] \in {"error", "warning", "note"}
  BY DEF Severity, SeverityOrder, Level
<1>3. /\ SeverityOrder["critical"] = 0 /\ SeverityOrder["high"] = 1 /\ SeverityOrder["medium"] = 2
      /\ SeverityOrder["low"] = 3 /\ SeverityOrder["info"] = 4
  BY DEF SeverityOrder
<1>4. /\ LevelOrder[Level["critical"]] = 0 /\ LevelOrder[Level["high"]] = 0
      /\ LevelOrder[Level["medium"]] = 1
      /\ LevelOrder[Level["low"]] = 2 /\ LevelOrder[Level["info"]] = 2
  BY DEF Level, LevelOrder
<1>5. ASSUME NEW s \in Severity, NEW t \in Severity, SeverityOrder[s] <= SeverityOrder[t]
      PROVE  LevelOrder[Level[s]] <= LevelOrder[Level[t]]
  BY <1>3, <1>4, <1>5 DEF Severity
<1>6. QED
  BY <1>1, <1>2, <1>5

----------------------------------------------------------------------------
(* The log, finding by finding.                                            *)

After(acc, f) ==
  IF SourceUri(f.place) = NoUri THEN acc ELSE Add(acc, f, SourceUri(f.place))

IsLogLoop(findings, f) ==
  f = [n \in 0 .. Len(findings) |-> IF n = 0 THEN EmptyLog ELSE After(f[n - 1], findings[n])]

(* There is such a function for every list ...                             *)
LEMMA LogLoopExists ==
  ASSUME NEW X, NEW s \in Seq(X)
  PROVE  \E f : IsLogLoop(s, f)
<1> DEFINE P == {r \in Seq(X) : \E f : IsLogLoop(r, f)}
<1>1. << >> \in P
  <2>1. Len(<< >>) = 0 /\ << >> \in Seq(X)
    OBVIOUS
  <2>2. IsLogLoop(<< >>, [n \in 0 .. 0 |-> EmptyLog])
    BY <2>1 DEF IsLogLoop
  <2>3. QED
    BY <2>1, <2>2
<1>2. ASSUME NEW r \in Seq(X), NEW x \in X, r \in P PROVE Append(r, x) \in P
  <2>1. PICK f : IsLogLoop(r, f)
    BY <1>2
  <2> DEFINE q == Append(r, x)
             g == [n \in 0 .. Len(r) + 1 |->
                     IF n <= Len(r) THEN f[n] ELSE After(f[Len(r)], q[Len(r) + 1])]
  <2>2. /\ q \in Seq(X) /\ Len(q) = Len(r) + 1 /\ Len(r) \in Nat
        /\ \A n \in 1 .. Len(r) : q[n] = r[n]
    OBVIOUS
  <2>3. f[0] = EmptyLog /\ \A n \in 1 .. Len(r) : f[n] = After(f[n - 1], q[n])
    BY <2>1, <2>2 DEF IsLogLoop
  <2>4. \A n \in 0 .. Len(q) : g[n] = IF n = 0 THEN EmptyLog ELSE After(g[n - 1], q[n])
    <3> HIDE DEF q
    <3>1. ASSUME NEW n \in 0 .. Len(q)
          PROVE  g[n] = IF n = 0 THEN EmptyLog ELSE After(g[n - 1], q[n])
      <4>1. CASE n = 0
        BY <2>2, <2>3, <4>1
      <4>2. CASE n \in 1 .. Len(r)
        BY <2>2, <2>3, <4>2
      <4>3. CASE n = Len(r) + 1
        BY <2>2, <4>3
      <4>4. QED
        BY <2>2, <4>1, <4>2, <4>3
    <3>2. QED
      BY <3>1
  <2>5. IsLogLoop(q, g)
    <3>1. g = [n \in 0 .. Len(q) |-> g[n]]
      BY <2>2
    <3> HIDE DEF g, q
    <3>2. QED
      BY <2>4, <3>1 DEF IsLogLoop
  <2>6. QED
    BY <2>2, <2>5
<1>3. Seq(X) \subseteq P
  <2> HIDE DEF P
  <2>1. QED
    BY <1>1, <1>2, ListInduction
<1>4. QED
  BY <1>3

(* ... and LogOf is its last value.                                        *)
LEMMA LogIsLoop ==
  ASSUME NEW X, NEW s \in Seq(X)
  PROVE  \E f : IsLogLoop(s, f) /\ LogOf(s) = f[Len(s)]
<1> DEFINE f == CHOOSE f : IsLogLoop(s, f)
<1>1. IsLogLoop(s, f)
  BY LogLoopExists
<1>2. LogOf(s) = f[Len(s)]
  BY DEF LogOf, IsLogLoop, After
<1>3. QED
  BY <1>1, <1>2

LEMMA LogLoopValues ==
  ASSUME NEW X, NEW s \in Seq(X), NEW f, IsLogLoop(s, f)
  PROVE  f[0] = EmptyLog /\ \A n \in 1 .. Len(s) : f[n] = After(f[n - 1], s[n])
<1>1. Len(s) \in Nat
  OBVIOUS
<1>2. \A n \in 0 .. Len(s) : f[n] = IF n = 0 THEN EmptyLog ELSE After(f[n - 1], s[n])
  BY DEF IsLogLoop
<1>3. QED
  BY <1>1, <1>2

LEMMA LogOfNone == LogOf(<< >>) = EmptyLog
<1>1. << >> \in Seq(Nat) /\ Len(<< >>) = 0
  OBVIOUS
<1>2. PICK f : IsLogLoop(<< >>, f) /\ LogOf(<< >>) = f[Len(<< >>)]
  BY <1>1, LogIsLoop
<1>3. QED
  BY <1>1, <1>2 DEF IsLogLoop

(* One finding more is one step more.                                      *)
LEMMA LogOfAppend ==
  ASSUME NEW X, NEW s \in Seq(X), NEW x \in X
  PROVE  LogOf(Append(s, x)) = After(LogOf(s), x)
<1>1. PICK q : q = Append(s, x)
  OBVIOUS
<1>2. /\ q \in Seq(X) /\ Len(q) = Len(s) + 1 /\ Len(s) \in Nat /\ q[Len(s) + 1] = x
      /\ \A k \in 1 .. Len(s) : q[k] = s[k]
  BY <1>1
<1>3. PICK f : IsLogLoop(s, f) /\ LogOf(s) = f[Len(s)]
  BY LogIsLoop
<1>4. PICK g : IsLogLoop(q, g) /\ LogOf(q) = g[Len(q)]
  BY <1>2, LogIsLoop
<1>5. /\ f[0] = EmptyLog /\ \A n \in 1 .. Len(s) : f[n] = After(f[n - 1], s[n])
      /\ g[0] = EmptyLog /\ \A n \in 1 .. Len(q) : g[n] = After(g[n - 1], q[n])
  BY <1>2, <1>3, <1>4, LogLoopValues
<1> DEFINE P == {k \in Nat : k <= Len(s) => f[k] = g[k]}
<1>6. 0 \in P
  BY <1>5
<1>7. ASSUME NEW k \in Nat, k \in P PROVE k + 1 \in P
  <2>1. ASSUME k + 1 <= Len(s) PROVE f[k + 1] = g[k + 1]
    <3>1. PICK n \in 1 .. Len(s) : n = k + 1 /\ n - 1 = k /\ n \in 1 .. Len(q)
      BY <1>2, <2>1
    <3>2. f[k] = g[k]
      BY <1>2, <1>7, <2>1
    <3>3. f[n] = After(f[k], s[n]) /\ g[n] = After(g[k], q[n]) /\ q[n] = s[n]
      BY <1>2, <1>5, <3>1
    <3>4. QED
      BY <3>1, <3>2, <3>3
  <2>2. QED
    BY <2>1
<1>8. Nat \subseteq P
  <2> HIDE DEF P
  <2>1. QED
    BY <1>6, <1>7, NumberInduction
<1>9. f[Len(s)] = g[Len(s)]
  BY <1>2, <1>8
<1>10. g[Len(s) + 1] = After(g[Len(s)], q[Len(s) + 1])
  <2>1. Len(s) + 1 \in 1 .. Len(q) /\ Len(s) + 1 - 1 = Len(s)
    BY <1>2
  <2>2. QED
    BY <1>5, <2>1
<1>11. QED
  BY <1>1, <1>2, <1>3, <1>4, <1>9, <1>10

(* What a log is to the findings of its results.                           *)
LogFits(Text, acc, kept) ==
  /\ acc \in Logs(Text) /\ Len(acc.results) = Len(kept)
  /\ \A i \in 1 .. Len(kept) : Tells(acc.results[i], kept[i])
  /\ \A i \in 1 .. Len(kept) :
       /\ acc.results[i].ruleIndex + 1 \in 1 .. Len(acc.rules)
       /\ acc.rules[acc.results[i].ruleIndex + 1].id = acc.results[i].ruleId
  /\ \A j, k \in 1 .. Len(acc.rules) : acc.rules[j].id = acc.rules[k].id => j = k
  /\ \A k \in 1 .. Len(acc.rules) :
       \E i \in 1 .. Len(kept) : acc.results[i].ruleIndex + 1 = k

(* A rule that is there has an index, and no other has it.                 *)
LEMMA RuleIsThere ==
  ASSUME NEW rules \in Seq(RuleEntry), NEW id, Registered(rules, id)
  PROVE  \E r \in 1 .. Len(rules) : IndexIn(rules, id) = r - 1 /\ rules[r].id = id
<1>1. DOMAIN rules = 1 .. Len(rules)
  OBVIOUS
<1> DEFINE r == CHOOSE r \in DOMAIN rules : rules[r].id = id
<1>2. r \in DOMAIN rules /\ rules[r].id = id
  BY DEF Registered
<1>3. IndexIn(rules, id) = r - 1
  BY DEF IndexIn
<1>4. QED
  BY <1>1, <1>2, <1>3

(* A result tells its finding, and its rule is in the table with it.       *)
LEMMA ResultFits ==
  ASSUME NEW Text, NEW rules \in Seq(RuleEntry), NEW f \in InFiles(Text),
         NEW after, after = IF Registered(rules, f.id) THEN rules ELSE Append(rules, Rule(f)),
         NEW r, r = Result(rules, f, SourceUri(f.place))
  PROVE  /\ r \in SarifResult(Text) /\ Tells(r, f)
         /\ after \in Seq(RuleEntry) /\ Len(rules) <= Len(after)
         /\ \A k \in 1 .. Len(rules) : after[k] = rules[k]
         /\ r.ruleIndex + 1 \in 1 .. Len(after) /\ after[r.ruleIndex + 1].id = f.id
         /\ \A k \in 1 .. Len(after) : k \in 1 .. Len(rules) \/ k = r.ruleIndex + 1
         /\ after = rules \/ \A k \in 1 .. Len(rules) : rules[k].id # f.id
<1>1. f \in Finding(Text) /\ SourceUri(f.place) \in Seq(UriPart(Text))
  BY UriOfPlace DEF InFiles
<1>2. /\ f.id \in RuleId /\ f.severity \in Severity /\ f.line \in Nat /\ f.secret \in Text
      /\ Level[f.severity] \in DOMAIN LevelOrder /\ Band[f.severity] \in {Band[s] : s \in Severity}
  BY <1>1, LevelsFollow DEF Finding
<1>3. Rule(f) \in RuleEntry /\ Rule(f).id = f.id
  BY <1>2 DEF Rule, RuleEntry
<1>4. Len(rules) \in Nat
  OBVIOUS
<1>5. PICK uri \in Seq(UriPart(Text)) : uri = SourceUri(f.place)
  BY <1>1
<1>6. PICK n : n = RuleIndex(rules, f)
  OBVIOUS
<1>7. /\ r.ruleId = f.id /\ r.ruleIndex = n /\ r.level = Level[f.severity]
      /\ r.uri = uri /\ r.line = f.line
      /\ r = [ruleId |-> f.id, ruleIndex |-> n, level |-> Level[f.severity], uri |-> uri,
              line |-> f.line, fingerprint |-> <<f.id, uri, f.line, f.secret>>]
  BY <1>5, <1>6 DEF Result
<1>8. n \in Nat => r \in SarifResult(Text)
  BY <1>2, <1>7 DEF SarifResult
<1>9. Tells(r, f)
  BY <1>5, <1>7 DEF Tells
<1>10. CASE Registered(rules, f.id)
  <2>1. PICK k \in 1 .. Len(rules) : n = k - 1 /\ rules[k].id = f.id
    BY <1>6, <1>10, RuleIsThere DEF RuleIndex
  <2>2. n \in Nat /\ n + 1 = k
    BY <1>4, <2>1
  <2>3. QED
    BY <1>4, <1>7, <1>8, <1>9, <1>10, <2>1, <2>2
<1>11. CASE ~Registered(rules, f.id)
  <2>1. n = Len(rules) /\ after = Append(rules, Rule(f))
    BY <1>6, <1>11 DEF RuleIndex
  <2>2. /\ after \in Seq(RuleEntry) /\ Len(after) = Len(rules) + 1
        /\ after[Len(rules) + 1] = Rule(f)
        /\ \A k \in 1 .. Len(rules) : after[k] = rules[k]
    BY <1>3, <2>1
  <2>3. ~\E k \in 1 .. Len(rules) : rules[k].id = f.id
    BY <1>11 DEF Registered
  <2>4. QED
    BY <1>3, <1>4, <1>7, <1>8, <1>9, <2>1, <2>2, <2>3
<1>12. QED
  BY <1>10, <1>11

(* A finding that is added fits, and what was there still does.            *)
LEMMA AddFits ==
  ASSUME NEW Text, NEW acc, NEW kept \in Seq(InFiles(Text)), LogFits(Text, acc, kept),
         NEW f \in InFiles(Text)
  PROVE  LogFits(Text, Add(acc, f, SourceUri(f.place)), Append(kept, f))
<1>1. PICK rules \in Seq(RuleEntry), results \in Seq(SarifResult(Text)) :
        acc.rules = rules /\ acc.results = results
  BY DEF LogFits, Logs
<1>2. PICK after : after = IF Registered(rules, f.id) THEN rules ELSE Append(rules, Rule(f))
  OBVIOUS
<1>3. PICK r : r = Result(rules, f, SourceUri(f.place))
  OBVIOUS
<1>4. PICK told : told = Append(results, r)
  OBVIOUS
<1>5. PICK all : all = Append(kept, f)
  OBVIOUS
<1>6. Add(acc, f, SourceUri(f.place)) = [rules |-> after, results |-> told]
  BY <1>1, <1>2, <1>3, <1>4 DEF Add
<1>7. /\ r \in SarifResult(Text) /\ Tells(r, f)
      /\ after \in Seq(RuleEntry) /\ Len(rules) <= Len(after)
      /\ \A k \in 1 .. Len(rules) : after[k] = rules[k]
      /\ r.ruleIndex + 1 \in 1 .. Len(after) /\ after[r.ruleIndex + 1].id = f.id
      /\ \A k \in 1 .. Len(after) : k \in 1 .. Len(rules) \/ k = r.ruleIndex + 1
      /\ after = rules \/ \A k \in 1 .. Len(rules) : rules[k].id # f.id
  BY <1>2, <1>3, ResultFits
<1>8. /\ told \in Seq(SarifResult(Text)) /\ Len(told) = Len(results) + 1
      /\ told[Len(results) + 1] = r /\ \A i \in 1 .. Len(results) : told[i] = results[i]
      /\ Len(results) \in Nat
  BY <1>4, <1>7
<1>9. /\ Len(all) = Len(kept) + 1 /\ all[Len(kept) + 1] = f /\ Len(kept) \in Nat
      /\ \A i \in 1 .. Len(kept) : all[i] = kept[i]
  BY <1>5
<1>10. /\ Len(results) = Len(kept)
       /\ \A i \in 1 .. Len(kept) : Tells(results[i], kept[i])
       /\ \A i \in 1 .. Len(kept) : /\ results[i].ruleIndex + 1 \in 1 .. Len(rules)
                                    /\ rules[results[i].ruleIndex + 1].id = results[i].ruleId
       /\ \A j, k \in 1 .. Len(rules) : rules[j].id = rules[k].id => j = k
       /\ \A k \in 1 .. Len(rules) :
            \E i \in 1 .. Len(kept) : results[i].ruleIndex + 1 = k
  BY <1>1 DEF LogFits
<1>11. /\ Len(rules) \in Nat /\ Len(after) \in Nat
       /\ \A k \in 1 .. Len(rules) : k \in 1 .. Len(after)
  BY <1>7
<1>12. /\ \A i \in 1 .. Len(all) : i \in 1 .. Len(kept) \/ i = Len(kept) + 1
       /\ \A i \in 1 .. Len(kept) : i \in 1 .. Len(all)
       /\ Len(kept) + 1 \in 1 .. Len(all)
  BY <1>9
<1>13. [rules |-> after, results |-> told] \in Logs(Text) /\ Len(told) = Len(all)
  BY <1>7, <1>8, <1>9, <1>10 DEF Logs
<1>14. ASSUME NEW i \in 1 .. Len(all)
       PROVE  /\ Tells(told[i], all[i])
              /\ told[i].ruleIndex + 1 \in 1 .. Len(after)
              /\ after[told[i].ruleIndex + 1].id = told[i].ruleId
  <2>1. CASE i \in 1 .. Len(kept)
    <3>1. told[i] = results[i] /\ all[i] = kept[i]
      BY <1>8, <1>9, <1>10, <2>1
    <3>2. PICK k \in 1 .. Len(rules) : k = results[i].ruleIndex + 1
      BY <1>10, <2>1
    <3>3. after[k] = rules[k] /\ k \in 1 .. Len(after) /\ rules[k].id = results[i].ruleId
      BY <1>7, <1>10, <1>11, <2>1, <3>2
    <3>4. QED
      BY <1>10, <2>1, <3>1, <3>2, <3>3
  <2>2. CASE i = Len(kept) + 1
    <3>1. told[i] = r /\ all[i] = f
      BY <1>8, <1>9, <1>10, <2>2
    <3>2. r.ruleId = f.id
      BY <1>3 DEF Result
    <3>3. QED
      BY <1>7, <3>1, <3>2
  <2>3. QED
    BY <1>12, <2>1, <2>2
<1>15. ASSUME NEW j \in 1 .. Len(after), NEW k \in 1 .. Len(after), after[j].id = after[k].id
       PROVE  j = k
  <2>1. CASE after = rules
    BY <1>10, <1>15, <2>1
  <2>2. CASE \A l \in 1 .. Len(rules) : rules[l].id # f.id
    <3>1. CASE j \in 1 .. Len(rules) /\ k \in 1 .. Len(rules)
      BY <1>7, <1>10, <1>15, <3>1
    <3>2. CASE j \notin 1 .. Len(rules)
      <4>1. after[j].id = f.id
        BY <1>7, <3>2
      <4>2. k \notin 1 .. Len(rules)
        BY <1>7, <1>15, <2>2, <4>1
      <4>3. QED
        BY <1>7, <3>2, <4>2
    <3>3. CASE k \notin 1 .. Len(rules)
      <4>1. after[k].id = f.id
        BY <1>7, <3>3
      <4>2. j \notin 1 .. Len(rules)
        BY <1>7, <1>15, <2>2, <4>1
      <4>3. QED
        BY <1>7, <3>3, <4>2
    <3>4. QED
      BY <3>1, <3>2, <3>3
  <2>3. QED
    BY <1>7, <2>1, <2>2
<1>16. ASSUME NEW k \in 1 .. Len(after)
       PROVE  \E i \in 1 .. Len(all) : told[i].ruleIndex + 1 = k
  <2>1. CASE k \in 1 .. Len(rules)
    <3>1. PICK i \in 1 .. Len(kept) : results[i].ruleIndex + 1 = k
      BY <1>10, <2>1
    <3>2. told[i] = results[i] /\ i \in 1 .. Len(all)
      BY <1>8, <1>10, <1>12
    <3>3. QED
      BY <3>1, <3>2
  <2>2. CASE k = r.ruleIndex + 1
    <3>1. told[Len(kept) + 1] = r
      BY <1>8, <1>10
    <3>2. QED
      BY <1>12, <2>2, <3>1
  <2>3. QED
    BY <1>7, <2>1, <2>2
<1>17. PICK new : new = [rules |-> after, results |-> told]
  OBVIOUS
<1>18. new.rules = after /\ new.results = told /\ new \in Logs(Text)
  BY <1>13, <1>17
<1>19. LogFits(Text, new, all)
  BY <1>13, <1>14, <1>15, <1>16, <1>18 DEF LogFits
<1>20. QED
  BY <1>5, <1>6, <1>17, <1>19

(* The log has a result for each finding in a file, in the order of the    *)
(* findings.                                                               *)
LEMMA LogOfFits ==
  ASSUME NEW Text, NEW findings \in Seq(Finding(Text))
  PROVE  LogFits(Text, LogOf(findings), Sift(findings, InFiles(Text)))
<1> DEFINE T == InFiles(Text)
           P == {s \in Seq(Finding(Text)) : LogFits(Text, LogOf(s), Sift(s, T))}
<1>1. << >> \in P
  <2>1. << >> \in Seq(Finding(Text)) /\ Len(<< >>) = 0 /\ 1 .. 0 = {}
    OBVIOUS
  <2>2. EmptyLog \in Logs(Text) /\ EmptyLog.rules = << >> /\ EmptyLog.results = << >>
    BY DEF EmptyLog, Logs
  <2>3. LogFits(Text, EmptyLog, << >>)
    BY <2>1, <2>2 DEF LogFits
  <2>4. QED
    BY <2>1, <2>3, LogOfNone, SiftEmpty
<1>2. ASSUME NEW s \in Seq(Finding(Text)), NEW x \in Finding(Text), s \in P
      PROVE  Append(s, x) \in P
  <2>1. PICK q : q = Append(s, x)
    OBVIOUS
  <2>2. q \in Seq(Finding(Text))
    BY <2>1
  <2> HIDE DEF T
  <2>3. LogOf(q) = After(LogOf(s), x)
    BY <2>1, LogOfAppend
  <2>4. Sift(q, T) = IF x \in T THEN Append(Sift(s, T), x) ELSE Sift(s, T)
    BY <2>1, SiftAppend
  <2>5. LogFits(Text, LogOf(s), Sift(s, T))
    BY <1>2
  <2>6. LogFits(Text, LogOf(q), Sift(q, T))
    <3>1. CASE x \in T
      <4>1. LogOf(q) = Add(LogOf(s), x, SourceUri(x.place))
        BY <2>3, <3>1, UriOfPlace DEF After, T
      <4>2. Sift(s, T) \in Seq(T)
        BY SiftElements, ListOf
      <4>3. LogFits(Text, Add(LogOf(s), x, SourceUri(x.place)), Append(Sift(s, T), x))
        BY <2>5, <3>1, <4>2, AddFits DEF T
      <4>4. QED
        BY <2>4, <3>1, <4>1, <4>3
    <3>2. CASE x \notin T
      <4>1. LogOf(q) = LogOf(s)
        BY <2>3, <3>2, UriOfPlace DEF After, T
      <4>2. QED
        BY <2>4, <2>5, <3>2, <4>1
    <3>3. QED
      BY <3>1, <3>2
  <2>7. QED
    BY <2>1, <2>2, <2>6
<1>3. Seq(Finding(Text)) \subseteq P
  <2> HIDE DEF P
  <2>1. QED
    BY <1>1, <1>2, ListInduction
<1>4. QED
  BY <1>3

----------------------------------------------------------------------------
(* The findings of a server, most severe first.                            *)

Ranks(findings) ==
  [f \in ToSet(findings) |-> <<SeverityOrder[f.severity], IndexOf(f.id, IdOrder), 0>>]

Severeness(Text) == [f \in Finding(Text) |-> SeverityOrder[f.severity]]

LEMMA RanksAre ==
  ASSUME NEW Text, NEW findings \in Seq(Finding(Text))
  PROVE  /\ findings \in Seq(ToSet(findings)) /\ ToSet(findings) \subseteq Finding(Text)
         /\ Ranks(findings) \in [ToSet(findings) -> Triple]
         /\ \A f \in ToSet(findings) : Ranks(findings)[f][1] = Severeness(Text)[f]
         /\ Severeness(Text) \in [Finding(Text) -> Nat]
<1>1. /\ findings \in Seq(ToSet(findings)) /\ ToSet(findings) \subseteq Finding(Text)
  BY ValuesOf, ListOf
<1>2. \A f \in Finding(Text) : SeverityOrder[f.severity] \in Nat
  BY LevelsFollow DEF Finding
<1>3. ASSUME NEW f \in Finding(Text) PROVE IndexOf(f.id, IdOrder) \in Nat
  <2>1. f.id \in ToSet(IdOrder)
    BY DEF Finding, RuleId
  <2>2. IdOrder \in Seq(ToSet(IdOrder)) /\ DOMAIN IdOrder \subseteq Nat
    <3>1. DOMAIN IdOrder = 1 .. Len(IdOrder) /\ Len(IdOrder) = 11
      BY DEF IdOrder
    <3>2. IdOrder = [i \in 1 .. 11 |-> IdOrder[i]]
      BY DEF IdOrder
    <3>3. \A i \in 1 .. 11 : IdOrder[i] \in ToSet(IdOrder)
      BY <3>1 DEF ToSet
    <3> HIDE DEF IdOrder
    <3>4. IdOrder \in [1 .. 11 -> ToSet(IdOrder)]
      BY <3>2, <3>3
    <3>5. 11 \in Nat /\ 1 .. 11 \subseteq Nat /\ DOMAIN IdOrder = 1 .. 11
      BY <3>1
    <3>6. IdOrder \in Seq(ToSet(IdOrder))
      BY <3>4, <3>5, ListFrom
    <3>7. QED
      BY <3>5, <3>6
  <2>3. QED
    BY <2>1, <2>2, IndexOfIs
<1>4. QED
  BY <1>1, <1>2, <1>3 DEF Ranks, Severeness, Triple

(* Ordering and keeping those in files: as many of each, and they do not   *)
(* become more severe.                                                     *)
LEMMA OrderedFits ==
  ASSUME NEW Text, NEW findings \in Seq(Finding(Text)),
         NEW kept, kept = Sift(OrderedFindings(findings), InFiles(Text)),
         NEW files, files = InFile(findings)
  PROVE  /\ OrderedFindings(findings) \in Seq(Finding(Text))
         /\ kept \in Seq(Finding(Text)) /\ files \in Seq(Finding(Text))
         /\ Len(kept) = Len(files)
         /\ \A T : Cardinality(Standing(kept, T)) = Cardinality(Standing(files, T))
         /\ Rises(kept, Severeness(Text))
<1> DEFINE X == ToSet(findings)
           K == InFiles(Text)
<1>1. PICK rank \in [X -> Triple] : rank = Ranks(findings)
  BY RanksAre
<1>2. PICK sorted : sorted = SortedBy(findings, rank)
  OBVIOUS
<1>3. OrderedFindings(findings) = sorted
  BY <1>1, <1>2 DEF OrderedFindings, Ranks
<1>4. findings \in Seq(X) /\ X \subseteq Finding(Text)
  BY RanksAre
<1>5. sorted \in Seq(X) /\ sorted \in Seq(Finding(Text))
  <2>1. sorted \in Seq(X) /\ ToSet(sorted) = X
    BY <1>2, <1>4, SortedHas
  <2>2. QED
    BY <1>4, <2>1, ListOf
<1>6. files = Sift(findings, K)
  <2> DEFINE F == {f \in X : f.place.kind \notin {"scheme", "endpoint"}}
  <2>1. files = Sift(findings, F)
    BY DEF InFile
  <2>2. X \cap F = X \cap K
    BY <1>4 DEF InFiles
  <2> HIDE DEF F, K
  <2>3. Sift(findings, F) = Sift(findings, K)
    BY <2>2, SiftSame
  <2>4. QED
    BY <2>1, <2>3
<1>7. kept = Sift(sorted, K)
  BY <1>3
<1> HIDE DEF K
<1>8. kept \in Seq(Finding(Text)) /\ files \in Seq(Finding(Text))
  BY <1>5, <1>6, <1>7, SiftElements
<1>9. ASSUME NEW T PROVE Cardinality(Standing(kept, T)) = Cardinality(Standing(files, T))
  <2>1. /\ Cardinality(Standing(kept, T)) = Len(Sift(kept, T))
        /\ Cardinality(Standing(files, T)) = Len(Sift(files, T))
    BY <1>8, SiftCounts
  <2>2. Sift(kept, T) = Sift(sorted, K \cap T) /\ Sift(files, T) = Sift(findings, K \cap T)
    BY <1>5, <1>6, <1>7, SiftTwice
  <2>3. /\ Cardinality(Standing(sorted, K \cap T)) = Len(Sift(sorted, K \cap T))
        /\ Cardinality(Standing(findings, K \cap T)) = Len(Sift(findings, K \cap T))
    BY <1>5, SiftCounts
  <2>4. Cardinality(Standing(sorted, K \cap T)) = Cardinality(Standing(findings, K \cap T))
    <3> HIDE DEF X
    <3>1. QED
      BY <1>2, <1>4, SortedCounts
  <2>5. QED
    BY <2>1, <2>2, <2>3, <2>4
<1>10. Len(kept) = Len(files)
  <2>1. /\ Cardinality(Standing(sorted, K)) = Len(kept)
        /\ Cardinality(Standing(findings, K)) = Len(files)
    BY <1>5, <1>6, <1>7, SiftCounts
  <2>2. Cardinality(Standing(sorted, K)) = Cardinality(Standing(findings, K))
    <3> HIDE DEF X
    <3>1. QED
      BY <1>2, <1>4, SortedCounts
  <2>3. QED
    BY <2>1, <2>2
<1>11. Rises(sorted, Severeness(Text))
  <2>1. PICK g : g = [x \in X |-> rank[x][1]]
    OBVIOUS
  <2>2. Rises(sorted, g)
    <3> HIDE DEF X
    <3>1. QED
      BY <1>2, <1>4, <2>1, SortedRises
  <2>3. \A x \in X : g[x] = Severeness(Text)[x]
    BY <1>1, <2>1, RanksAre
  <2>4. \A i \in DOMAIN sorted : sorted[i] \in X
    BY <1>5
  <2> HIDE DEF X
  <2>5. ASSUME NEW j \in DOMAIN sorted, NEW k \in DOMAIN sorted, j < k
        PROVE  Severeness(Text)[sorted[j]] <= Severeness(Text)[sorted[k]]
    <3>1. g[sorted[j]] <= g[sorted[k]]
      BY <2>2, <2>5 DEF Rises
    <3>2. /\ g[sorted[j]] = Severeness(Text)[sorted[j]]
          /\ g[sorted[k]] = Severeness(Text)[sorted[k]]
      BY <2>3, <2>4
    <3>3. QED
      BY <3>1, <3>2
  <2>6. QED
    BY <2>5 DEF Rises
<1>12. Rises(kept, Severeness(Text))
  <2>1. PICK Y : Y = Finding(Text)
    OBVIOUS
  <2>2. PICK g \in [Y -> Nat] : g = Severeness(Text)
    BY <2>1, RanksAre
  <2>3. sorted \in Seq(Y) /\ Rises(sorted, g)
    BY <1>5, <1>11, <2>1, <2>2
  <2>4. Rises(Sift(sorted, K), g)
    BY <2>3, SiftRises
  <2>5. QED
    BY <1>7, <2>2, <2>4
<1>13. QED
  BY <1>3, <1>5, <1>8, <1>9, <1>10, <1>12

----------------------------------------------------------------------------
(* The log of a report.                                                    *)

Reports(Text) == Seq([findings : Seq(Finding(Text))])

(* What the results of a server have to do with its findings.              *)
ServerTold(given, files) ==
  /\ \A f \in ToSet(files) :
       Cardinality({k \in DOMAIN given : Tells(given[k], f)})
         = Cardinality({k \in DOMAIN files : Alike(files[k], f)})
  /\ \A j, k \in DOMAIN given :
       j < k => LevelOrder[given[j].level] <= LevelOrder[given[k].level]

TablesTold(acc, files) ==
  /\ Len(acc.results) = Len(FlattenSeq(files))
  /\ \A s \in DOMAIN files : ServerTold(ResultsOf(acc.results, files, s), files[s])
  /\ \A r \in ToSet(acc.results) :
       r.ruleIndex + 1 \in DOMAIN acc.rules /\ acc.rules[r.ruleIndex + 1].id = r.ruleId
  /\ \A j, k \in DOMAIN acc.rules : acc.rules[j].id = acc.rules[k].id => j = k
  /\ \A k \in DOMAIN acc.rules : \E r \in ToSet(acc.results) : r.ruleIndex + 1 = k

(* Results that tell the ordered findings one by one tell the findings.    *)
LEMMA ServerIsTold ==
  ASSUME NEW Text, NEW findings \in Seq(Finding(Text)),
         NEW kept, kept = Sift(OrderedFindings(findings), InFiles(Text)),
         NEW given, DOMAIN given = DOMAIN kept,
         \A k \in DOMAIN kept : Tells(given[k], kept[k])
  PROVE  ServerTold(given, InFile(findings))
<1>1. PICK files : files = InFile(findings)
  OBVIOUS
<1>2. /\ kept \in Seq(Finding(Text)) /\ files \in Seq(Finding(Text))
      /\ \A T : Cardinality(Standing(kept, T)) = Cardinality(Standing(files, T))
      /\ Rises(kept, Severeness(Text))
  BY <1>1, OrderedFits
<1>3. /\ \A k \in DOMAIN kept : kept[k] \in Finding(Text)
      /\ \A k \in DOMAIN files : files[k] \in Finding(Text)
  BY <1>2
<1>4. \A k \in DOMAIN kept :
        /\ given[k].ruleId = kept[k].id /\ given[k].level = Level[kept[k].severity]
        /\ given[k].uri = SourceUri(kept[k].place) /\ given[k].line = kept[k].line
  BY DEF Tells
<1>5. ASSUME NEW f
      PROVE  Cardinality({k \in DOMAIN given : Tells(given[k], f)})
               = Cardinality({k \in DOMAIN files : Alike(files[k], f)})
  <2> DEFINE T == {g \in Finding(Text) : Alike(g, f)}
  <2>1. {k \in DOMAIN given : Tells(given[k], f)} = Standing(kept, T)
    <3>1. \A k \in DOMAIN kept : Tells(given[k], f) <=> Alike(kept[k], f)
      BY <1>4 DEF Tells, Alike
    <3>2. QED
      BY <1>3, <3>1 DEF Standing
  <2>2. {k \in DOMAIN files : Alike(files[k], f)} = Standing(files, T)
    BY <1>3 DEF Standing
  <2> HIDE DEF T
  <2>3. QED
    BY <1>2, <2>1, <2>2
<1>6. ASSUME NEW j \in DOMAIN given, NEW k \in DOMAIN given, j < k
      PROVE  LevelOrder[given[j].level] <= LevelOrder[given[k].level]
  <2>1. Severeness(Text)[kept[j]] <= Severeness(Text)[kept[k]]
    BY <1>2, <1>6 DEF Rises
  <2>2. SeverityOrder[kept[j].severity] <= SeverityOrder[kept[k].severity]
    BY <1>3, <2>1 DEF Severeness
  <2>3. kept[j].severity \in Severity /\ kept[k].severity \in Severity
    BY <1>3 DEF Finding
  <2>4. QED
    BY <1>4, <2>2, <2>3, LevelsFollow
<1>7. QED
  BY <1>1, <1>5, <1>6 DEF ServerTold

(* The SARIF log of any report tells its findings.  What is left of the    *)
(* ordered findings in the order of the servers are the results, one by    *)
(* one, and those of a server are as many as it has findings in files.     *)
THEOREM SarifTellsFindings ==
  ASSUME NEW Text, NEW report \in Reports(Text)
  PROVE  TellsFindings(ReportToSarif(report), report)
<1> DEFINE F == Finding(Text)
           K == InFiles(Text)
           L0 == [s \in DOMAIN report |-> OrderedFindings(report[s].findings)]
           M0 == [s \in DOMAIN report |-> Sift(OrderedFindings(report[s].findings), K)]
           files0 == [s \in DOMAIN report |-> InFile(report[s].findings)]
<1>1. PICK n \in Nat : Len(report) = n /\ DOMAIN report = 1 .. n
  BY DEF Reports
<1>2. \A s \in 1 .. n : report[s].findings \in Seq(F)
  <2>1. PICK S : S = [findings : Seq(F)]
    OBVIOUS
  <2>2. \A s \in 1 .. n : report[s] \in S
    <3>1. report \in Seq(S)
      BY <2>1 DEF Reports
    <3>2. QED
      BY <1>1, <3>1
  <2> HIDE DEF F
  <2>3. QED
    BY <2>1, <2>2
<1>3. \A s \in 1 .. n :
        /\ OrderedFindings(report[s].findings) \in Seq(F)
        /\ Sift(OrderedFindings(report[s].findings), K) \in Seq(F)
        /\ InFile(report[s].findings) \in Seq(F)
        /\ Len(Sift(OrderedFindings(report[s].findings), K)) = Len(InFile(report[s].findings))
  BY <1>2, OrderedFits
<1>4. PICK L \in [1 .. n -> Seq(F)] : L = L0
  BY <1>1, <1>3
<1>5. PICK M \in [1 .. n -> Seq(F)] : M = M0
  BY <1>1, <1>3
<1>6. PICK files \in [1 .. n -> Seq(F)] : files = files0
  BY <1>1, <1>3
<1>7. /\ L \in Seq(Seq(F)) /\ M \in Seq(Seq(F)) /\ files \in Seq(Seq(F))
      /\ Len(L) = n /\ Len(M) = n /\ Len(files) = n
      /\ DOMAIN L = 1 .. n /\ DOMAIN files = 1 .. n
  BY ListFrom
<1>8. \A s \in 1 .. n : /\ L[s] = OrderedFindings(report[s].findings)
                        /\ M[s] = Sift(L[s], K)
                        /\ files[s] = InFile(report[s].findings)
                        /\ Len(M[s]) = Len(files[s])
  BY <1>1, <1>3, <1>4, <1>5, <1>6
<1> HIDE DEF L0, M0, files0, F, K
<1>9. PICK all \in Seq(F) : all = FlattenSeq(L)
  BY <1>7, FlattenHas
<1>10. ReportToSarif(report) = LogOf(all)
  BY <1>4, <1>9 DEF ReportToSarif, L0
<1>11. PICK kept \in Seq(F) : kept = FlattenSeq(M)
  BY <1>7, FlattenHas
<1>12. Sift(all, K) = kept
  <2>1. M = [s \in DOMAIN L |-> Sift(L[s], K)]
    BY <1>7, <1>8
  <2>2. QED
    BY <1>7, <1>9, <1>11, <2>1, SiftFlatten
<1>13. PICK acc : acc = LogOf(all)
  OBVIOUS
<1>14. LogFits(Text, acc, kept)
  BY <1>12, <1>13, LogOfFits DEF F, K
<1>15. PICK results \in Seq(SarifResult(Text)) : acc.results = results
  BY <1>14 DEF LogFits, Logs
<1>16. PICK rules \in Seq(RuleEntry) : acc.rules = rules
  BY <1>14 DEF LogFits, Logs
<1>17. /\ Len(results) = Len(kept) /\ Len(kept) \in Nat
       /\ \A i \in 1 .. Len(kept) : Tells(results[i], kept[i])
       /\ \A i \in 1 .. Len(kept) : /\ results[i].ruleIndex + 1 \in 1 .. Len(rules)
                                    /\ rules[results[i].ruleIndex + 1].id = results[i].ruleId
       /\ \A j, k \in 1 .. Len(rules) : rules[j].id = rules[k].id => j = k
       /\ \A k \in 1 .. Len(rules) : \E i \in 1 .. Len(kept) : results[i].ruleIndex + 1 = k
  BY <1>14, <1>15, <1>16 DEF LogFits
<1>18. \A m \in 0 .. n : Len(UpFront(M, m)) = Len(UpFront(files, m)) /\ UpFront(M, m) \in Seq(F)
  <2>1. \A m \in 0 .. n : Len(UpFront(M, m)) = Len(UpFront(files, m))
    <3>1. AsLong(M, files)
      BY <1>7, <1>8 DEF AsLong
    <3>2. \A m \in 0 .. Len(M) : Len(UpFront(M, m)) = Len(UpFront(files, m))
      BY <1>7, <3>1, FlattenLengths
    <3>3. QED
      BY <1>7, <3>2
  <2>2. QED
    BY <1>7, <2>1, UpFrontGrows
<1>19. Len(results) = Len(FlattenSeq(files))
  <2>1. UpFront(M, n) = FlattenSeq(M) /\ UpFront(files, n) = FlattenSeq(files)
    BY <1>7, UpFrontGrows
  <2>2. QED
    BY <1>11, <1>17, <1>18, <2>1
<1>20. ASSUME NEW s \in 1 .. n PROVE ServerTold(ResultsOf(results, files, s), files[s])
  <2>1. s - 1 \in 0 .. n
    BY <1>1
  <2>2. PICK b \in Nat : b = Len(UpFront(files, s - 1)) /\ b = Len(UpFront(M, s - 1))
    BY <1>18, <2>1
  <2>3. PICK here \in Seq(F) : here = M[s] /\ Len(here) = Len(files[s])
    BY <1>8
  <2>4. \A k \in 1 .. Len(here) : b + k \in 1 .. Len(kept) /\ kept[b + k] = here[k]
    <3>1. s \in 1 .. Len(M) /\ M \in Seq(Seq(F))
      BY <1>7
    <3>2. \A k \in 1 .. Len(M[s]) :
            /\ Len(UpFront(M, s - 1)) + k \in 1 .. Len(FlattenSeq(M))
            /\ FlattenSeq(M)[Len(UpFront(M, s - 1)) + k] = M[s][k]
      BY <3>1, FlattenBlocks
    <3>3. QED
      BY <1>11, <2>2, <2>3, <3>2
  <2>5. PICK given : given = ResultsOf(results, files, s)
    OBVIOUS
  <2>6. given = SubSeq(results, b + 1, b + Len(here))
    BY <2>2, <2>3, <2>5 DEF ResultsOf, UpFront
  <2>7. Len(here) \in Nat /\ DOMAIN here = 1 .. Len(here)
    OBVIOUS
  <2>8. DOMAIN given = DOMAIN here /\ \A k \in DOMAIN here : given[k] = results[b + k]
    BY <1>17, <2>4, <2>6, <2>7, Piece
  <2>9. \A k \in DOMAIN here : Tells(given[k], here[k])
    BY <1>17, <2>4, <2>7, <2>8
  <2>10. here = Sift(OrderedFindings(report[s].findings), InFiles(Text))
    BY <1>8, <2>3 DEF K
  <2>11. report[s].findings \in Seq(Finding(Text))
    BY <1>2 DEF F
  <2>12. ServerTold(given, InFile(report[s].findings))
    BY <2>8, <2>9, <2>10, <2>11, ServerIsTold
  <2>13. QED
    BY <1>8, <2>5, <2>12
<1>21. ASSUME NEW r \in ToSet(results)
       PROVE  r.ruleIndex + 1 \in DOMAIN rules /\ rules[r.ruleIndex + 1].id = r.ruleId
  <2>1. PICK i \in 1 .. Len(kept) : results[i] = r
    BY <1>17, ValuesOf
  <2>2. QED
    BY <1>17, <2>1
<1>22. DOMAIN rules = 1 .. Len(rules)
  OBVIOUS
<1>23. ASSUME NEW k \in DOMAIN rules PROVE \E r \in ToSet(results) : r.ruleIndex + 1 = k
  <2>1. PICK i \in 1 .. Len(kept) : results[i].ruleIndex + 1 = k
    BY <1>17, <1>22
  <2>2. results[i] \in ToSet(results)
    BY <1>17 DEF ToSet
  <2>3. QED
    BY <2>1, <2>2
<1>24. \A j, k \in DOMAIN rules : rules[j].id = rules[k].id => j = k
  BY <1>17, <1>22
<1>25. files = [s \in DOMAIN report |-> InFile(report[s].findings)]
  BY <1>6 DEF files0
<1>26. \A s \in DOMAIN files : ServerTold(ResultsOf(results, files, s), files[s])
  BY <1>7, <1>20
<1>27. TellsFindings(acc, report)
  <2>1. TablesTold(acc, files)
    BY <1>15, <1>16, <1>19, <1>21, <1>23, <1>24, <1>26 DEF TablesTold
  <2>2. TablesTold(acc, [s \in DOMAIN report |-> InFile(report[s].findings)])
    BY <1>25, <2>1
  <2>3. QED
    BY <2>2 DEF TellsFindings, TablesTold, ServerTold
<1>28. QED
  BY <1>10, <1>13, <1>27

----------------------------------------------------------------------------
(* The scan.                                                               *)

ScanText == {".mcp.json", "0.0.0.0:80", "a secret", ""}
ScanPlace == [kind : PlaceKind, name : ScanText]

Outcome == Answer \union Failure \union {"none"}

(* What a server is reported with, by where the config is.                 *)
CheckedIn(p, decl) ==
  [k \in 1 .. decl.secrets |-> Located("CRED-PLAINTEXT", "critical", p, 0, "a secret")]
    \o IF Unpinned(decl) THEN <<Located("PIN-UNPINNED", "medium", p, 0, "")>> ELSE << >>

AnsweredIn(p, result) ==
  IF result \in {"high", "critical"} THEN <<Located("PIN-KNOWN-VULN", result, p, 0, "")>>
  ELSE << >>

LEMMA ScannedAs ==
  /\ \A decl : Checked(decl) = CheckedIn(place, decl)
  /\ \A answer \in Answer : KnownVuln(answer) = AnsweredIn(place, answer)
  /\ \A result \in Outcome \ Answer : AnsweredIn(place, result) = << >>
<1>1. \A decl : Checked(decl) = CheckedIn(place, decl)
  BY DEF Checked, CheckServerPinning, CheckedIn
<1>2. \A answer \in Answer : KnownVuln(answer) = AnsweredIn(place, answer)
  BY DEF KnownVuln, AnsweredIn
<1>3. \A result \in Outcome \ Answer : AnsweredIn(place, result) = << >>
  BY DEF Outcome, Failure, Answer, AnsweredIn
<1>4. QED
  BY <1>1, <1>2, <1>3

LEMMA IdsOfScan ==
  /\ "CRED-PLAINTEXT" \in RuleId /\ "EXPOSE-BIND" \in RuleId
  /\ "PIN-KNOWN-VULN" \in RuleId /\ "PIN-UNPINNED" \in RuleId
<1>1. DOMAIN IdOrder = 1 .. 11
  BY DEF IdOrder
<1>2. /\ IdOrder[3] = "CRED-PLAINTEXT" /\ IdOrder[4] = "EXPOSE-BIND"
      /\ IdOrder[6] = "PIN-KNOWN-VULN" /\ IdOrder[7] = "PIN-UNPINNED"
  BY DEF IdOrder
<1>3. 3 \in 1 .. 11 /\ 4 \in 1 .. 11 /\ 6 \in 1 .. 11 /\ 7 \in 1 .. 11
  OBVIOUS
<1>4. QED
  BY <1>1, <1>2, <1>3 DEF RuleId, ToSet

(* A finding of the scan.                                                  *)
LEMMA LocatedIs ==
  ASSUME NEW id \in RuleId, NEW severity \in Severity, NEW p \in ScanPlace,
         NEW secret \in ScanText
  PROVE  /\ Located(id, severity, p, 0, secret) \in Finding(ScanText)
         /\ Located(id, severity, p, 0, secret).id = id
BY DEF Located, Finding, ScanPlace

(* The findings of the checks, and those of a lookup.                      *)
LEMMA FindingsOfScan ==
  ASSUME NEW p \in ScanPlace
  PROVE  /\ \A decl \in Declared :
              /\ CheckedIn(p, decl) \in Seq(Finding(ScanText))
              /\ \A f \in ToSet(CheckedIn(p, decl)) : f.id # "PIN-KNOWN-VULN"
         /\ \A result :
              /\ AnsweredIn(p, result) \in Seq(Finding(ScanText))
              /\ \A f \in ToSet(AnsweredIn(p, result)) : f.id = "PIN-KNOWN-VULN"
<1>1. "a secret" \in ScanText /\ "" \in ScanText
  BY DEF ScanText
<1>2. "critical" \in Severity /\ "medium" \in Severity /\ "high" \in Severity
  BY DEF Severity
<1>3. ASSUME NEW decl \in Declared
      PROVE  /\ CheckedIn(p, decl) \in Seq(Finding(ScanText))
             /\ \A f \in ToSet(CheckedIn(p, decl)) : f.id # "PIN-KNOWN-VULN"
  <2> DEFINE X == {f \in Finding(ScanText) : f.id # "PIN-KNOWN-VULN"}
  <2>1. /\ Located("CRED-PLAINTEXT", "critical", p, 0, "a secret") \in X
        /\ Located("PIN-UNPINNED", "medium", p, 0, "") \in X
    BY <1>1, <1>2, IdsOfScan, LocatedIs
  <2>2. decl.secrets \in Nat
    BY DEF Declared
  <2>3. PICK x \in X : x = Located("CRED-PLAINTEXT", "critical", p, 0, "a secret")
    BY <2>1
  <2>4. PICK y \in X : y = Located("PIN-UNPINNED", "medium", p, 0, "")
    BY <2>1
  <2>5. PICK s : s = [k \in 1 .. decl.secrets |-> x]
    OBVIOUS
  <2>6. PICK t : t = IF Unpinned(decl) THEN <<y>> ELSE << >>
    OBVIOUS
  <2>7. CheckedIn(p, decl) = s \o t
    BY <2>3, <2>4, <2>5, <2>6 DEF CheckedIn
  <2> HIDE DEF X
  <2>8. s \in Seq(X)
    BY <2>2, <2>5, ListFrom
  <2>9. t \in Seq(X)
    BY <2>6, ShortLists
  <2>10. PICK q \in Seq(X) : q = s \o t
    BY <2>8, <2>9, ConcatHas
  <2>11. ToSet(q) \subseteq X
    BY ValuesOf
  <2>12. q \in Seq(Finding(ScanText))
    BY <2>11, ListOf DEF X
  <2>13. QED
    BY <2>7, <2>10, <2>11, <2>12 DEF X
<1>4. ASSUME NEW result
      PROVE  /\ AnsweredIn(p, result) \in Seq(Finding(ScanText))
             /\ \A f \in ToSet(AnsweredIn(p, result)) : f.id = "PIN-KNOWN-VULN"
  <2> DEFINE X == {f \in Finding(ScanText) : f.id = "PIN-KNOWN-VULN"}
  <2>1. CASE result \in {"high", "critical"}
    <3>1. PICK x \in X : x = Located("PIN-KNOWN-VULN", result, p, 0, "")
      <4>1. result \in Severity
        BY <1>2, <2>1
      <4>2. Located("PIN-KNOWN-VULN", result, p, 0, "") \in X
        BY <1>1, <4>1, IdsOfScan, LocatedIs
      <4>3. QED
        BY <4>2
    <3>2. AnsweredIn(p, result) = <<x>>
      BY <2>1, <3>1 DEF AnsweredIn
    <3> HIDE DEF X
    <3>3. PICK q \in Seq(X) : q = <<x>>
      BY ShortLists
    <3>4. ToSet(q) \subseteq X
      BY ValuesOf
    <3>5. q \in Seq(Finding(ScanText))
      BY <3>4, ListOf DEF X
    <3>6. QED
      BY <3>2, <3>3, <3>4, <3>5 DEF X
  <2>2. CASE result \notin {"high", "critical"}
    <3>1. AnsweredIn(p, result) = << >> /\ << >> \in Seq(Finding(ScanText))
      BY <2>2 DEF AnsweredIn
    <3>2. QED
      BY <3>1, NothingHas
  <2>3. QED
    BY <2>1, <2>2
<1>5. QED
  BY <1>3, <1>4

(* The sockets are servers of the report.                                  *)
LEMMA SocketsAreReported ==
  ASSUME exposed \in Sockets
  PROVE  SocketServers \in Reports(ScanText)
<1> DEFINE p == [kind |-> "endpoint", name |-> "0.0.0.0:80"]
           f == Located("EXPOSE-BIND", "critical", p, 0, "")
<1>1. p \in ScanPlace /\ "" \in ScanText /\ "critical" \in Severity
  BY DEF ScanPlace, PlaceKind, ScanText, Severity
<1>2. f \in Finding(ScanText)
  <2> HIDE DEF p
  <2>1. QED
    BY <1>1, IdsOfScan, LocatedIs
<1>3. PICK R : R = [findings : Seq(Finding(ScanText))]
  OBVIOUS
<1> HIDE DEF f
<1>4. [findings |-> <<f>>] \in R
  BY <1>2, <1>3, ShortLists
<1>5. CASE exposed = << >>
  <2>1. SocketServers = << >>
    BY <1>5 DEF SocketServers
  <2>2. QED
    BY <1>3, <2>1 DEF Reports
<1>6. CASE exposed = <<p>>
  <2>1. PICK e : e = [findings |-> <<f>>]
    OBVIOUS
  <2>2. SocketServers = [i \in 1 .. 1 |-> e]
    <3>1. DOMAIN exposed = 1 .. 1 /\ \A i \in 1 .. 1 : exposed[i] = p
      BY <1>6
    <3> HIDE DEF p
    <3>2. SocketServers
            = [i \in 1 .. 1 |->
                [findings |-> <<Located("EXPOSE-BIND", "critical", exposed[i], 0, "")>>]]
      BY <3>1 DEF SocketServers
    <3>3. \A i \in 1 .. 1 :
            [findings |-> <<Located("EXPOSE-BIND", "critical", exposed[i], 0, "")>>] = e
      BY <2>1, <3>1 DEF f
    <3>4. QED
      BY <3>2, <3>3
  <2>3. [i \in 1 .. 1 |-> e] \in [1 .. 1 -> R]
    BY <1>4, <2>1
  <2>4. SocketServers \in Seq(R)
    BY <2>2, <2>3, ListFrom
  <2>5. QED
    BY <1>3, <2>4 DEF Reports
<1>7. QED
  BY <1>5, <1>6 DEF Sockets

(* What holds while the servers are audited and when the report is made.   *)
ScanTypeOK ==
  /\ place \in ScanPlace /\ config \in Seq(Declared) /\ exposed \in Sockets
  /\ outcome \in Seq(Outcome) /\ at = Len(outcome) + 1
  /\ servers \in Reports(ScanText)
  /\ exit \in {-2, -1, 0, 1}

(* The servers up to that one are reported with what their own lookup came *)
(* to, a lookup is waited for on behalf of a server of the config, and the *)
(* log of a scan that ended is that of its report.                         *)
ScanInv ==
  /\ ScanTypeOK
  /\ Len(outcome) <= Len(config) /\ Len(outcome) <= Len(servers)
  /\ \A s \in 1 .. Len(outcome) :
       servers[s].findings = CheckedIn(place, config[s]) \o AnsweredIn(place, outcome[s])
  /\ exit = -1 => Len(servers) = Len(outcome)
  /\ Waits => at <= Len(config)
  /\ Ended => Len(outcome) = Len(config) /\ log = ReportToSarif(servers)

(* A server without a lookup, or whose lookup failed.                      *)
LEMMA ReportedAs ==
  ASSUME ScanInv, at <= Len(config), NEW result \in Outcome \ Answer
  PROVE  Checked(config[at]) = CheckedIn(place, config[at]) \o AnsweredIn(place, result)
<1>1. config[at] \in Declared /\ place \in ScanPlace
  BY DEF ScanInv, ScanTypeOK
<1>2. PICK s \in Seq(Finding(ScanText)) : s = CheckedIn(place, config[at])
  BY <1>1, FindingsOfScan
<1>3. s \o << >> = s
  OBVIOUS
<1>4. QED
  BY <1>2, <1>3, ScannedAs

LEMMA ScanBegins == Init => ScanInv
<1> SUFFICES ASSUME Init PROVE ScanInv
  OBVIOUS
<1>1. /\ exposed \in Sockets /\ at = 1 /\ waiting = NoSpec /\ outcome = << >>
      /\ servers = << >> /\ exit = -1
  BY DEF Init
<1>2. place \in ScanPlace
  BY DEF Init, Places, ScanPlace, ScanText, PlaceKind
<1>3. config \in Seq(Declared)
  <2>1. PICK n \in 0 .. MaxServers : config \in [1 .. n -> Declared]
    BY DEF Init, Configs, SeqOf
  <2>2. n \in Nat
    BY <2>1, OnlineAssumption
  <2>3. QED
    BY <2>1, <2>2, ListFrom
<1>4. /\ << >> \in Seq(Outcome) /\ << >> \in Reports(ScanText) /\ Len(<< >>) = 0
      /\ 1 .. 0 = {} /\ Len(config) \in Nat
  BY <1>3 DEF Reports
<1>5. ~Ended /\ ~Waits
  BY <1>1 DEF Ended, Waits
<1>6. QED
  BY <1>1, <1>2, <1>3, <1>4, <1>5 DEF ScanInv, ScanTypeOK

(* A server more is reported.                                              *)
LEMMA ReportStep ==
  ASSUME ScanInv, exit = -1, at <= Len(config),
         NEW result \in Outcome,
         Report(CheckedIn(place, config[at]) \o AnsweredIn(place, result), result),
         UNCHANGED <<place, config, exposed, exit>>
  PROVE  ScanInv'
<1> DEFINE findings == CheckedIn(place, config[at]) \o AnsweredIn(place, result)
<1>1. PICK n \in Nat : Len(outcome) = n /\ at = n + 1 /\ Len(servers) = n
  BY DEF ScanInv, ScanTypeOK
<1>2. config[at] \in Declared /\ at \in 1 .. Len(config) /\ Len(config) \in Nat
  BY <1>1 DEF ScanInv, ScanTypeOK
<1>3. findings \in Seq(Finding(ScanText))
  BY <1>2, FindingsOfScan, ConcatHas DEF ScanInv, ScanTypeOK
<1> HIDE DEF findings
<1>4. PICK entry : entry = [findings |-> findings]
  OBVIOUS
<1>5. PICK R : R = [findings : Seq(Finding(ScanText))]
  OBVIOUS
<1>6. entry \in R /\ entry.findings = findings /\ servers \in Seq(R) /\ outcome \in Seq(Outcome)
  BY <1>3, <1>4, <1>5 DEF ScanInv, ScanTypeOK, Reports
<1>7. /\ servers' = Append(servers, entry) /\ outcome' = Append(outcome, result)
      /\ at' = at + 1 /\ waiting' = NoSpec
  BY <1>4 DEF Report, findings
<1>8. /\ servers' \in Seq(R) /\ Len(servers') = n + 1 /\ servers'[n + 1] = entry
      /\ \A s \in 1 .. n : servers'[s] = servers[s]
  BY <1>1, <1>6, <1>7
<1>9. /\ outcome' \in Seq(Outcome) /\ Len(outcome') = n + 1 /\ outcome'[n + 1] = result
      /\ \A s \in 1 .. n : outcome'[s] = outcome[s]
  BY <1>1, <1>6, <1>7
<1>10. ScanTypeOK'
  BY <1>1, <1>5, <1>7, <1>8, <1>9 DEF ScanInv, ScanTypeOK, Reports
<1>11. ASSUME NEW s \in 1 .. n + 1
       PROVE  servers'[s].findings
                = CheckedIn(place', config'[s]) \o AnsweredIn(place', outcome'[s])
  <2>1. CASE s \in 1 .. n
    BY <1>1, <1>8, <1>9, <2>1 DEF ScanInv
  <2>2. CASE s = n + 1
    BY <1>1, <1>6, <1>8, <1>9, <2>2 DEF findings
  <2>3. QED
    BY <2>1, <2>2
<1>12. ~Ended' /\ ~Waits'
  BY <1>7 DEF Ended, Waits
<1>13. QED
  BY <1>1, <1>2, <1>8, <1>9, <1>10, <1>11, <1>12 DEF ScanInv

LEMMA ScanStep == ScanInv /\ [Next]_vars => ScanInv'
<1> SUFFICES ASSUME ScanInv, [Next]_vars PROVE ScanInv'
  OBVIOUS
<1>1. CASE Audit
  <2>1. CASE ParsePackageSpec(config[at]) = NoSpec
    <3>1. /\ exit = -1 /\ at <= Len(config) /\ Report(Checked(config[at]), "none")
          /\ UNCHANGED <<place, config, exposed, exit>>
      BY <1>1, <2>1 DEF Audit
    <3>2. "none" \in Outcome \ Answer /\ "none" \in Outcome
      BY DEF Outcome, Answer
    <3>3. Checked(config[at]) = CheckedIn(place, config[at]) \o AnsweredIn(place, "none")
      BY <3>1, <3>2, ReportedAs
    <3>4. QED
      BY <3>1, <3>2, <3>3, ReportStep
  <2>2. CASE ParsePackageSpec(config[at]) # NoSpec
    <3>1. /\ exit = -1 /\ at <= Len(config)
          /\ UNCHANGED <<servers, outcome, at, place, config, exposed, log, exit>>
      BY <1>1, <2>2 DEF Audit
    <3>2. ~Ended' /\ ~Ended
      BY <3>1 DEF Ended
    <3>3. QED
      BY <3>1, <3>2 DEF ScanInv, ScanTypeOK
  <2>3. QED
    BY <2>1, <2>2
<1>2. CASE Answered
  <2>1. PICK answer \in Answer : Report(Checked(config[at]) \o KnownVuln(answer), answer)
    BY <1>2 DEF Answered
  <2>2. exit = -1 /\ at <= Len(config) /\ UNCHANGED <<place, config, exposed, exit>>
    BY <1>2 DEF Answered, Waits, ScanInv
  <2>3. /\ Checked(config[at]) = CheckedIn(place, config[at])
        /\ KnownVuln(answer) = AnsweredIn(place, answer)
    BY ScannedAs
  <2>4. answer \in Outcome
    BY DEF Outcome
  <2>5. QED
    BY <2>1, <2>2, <2>3, <2>4, ReportStep
<1>3. CASE LookupFails
  <2>1. PICK failure \in Failure :
          IF failure = "HTTPException"
          THEN exit' = -2 /\ UNCHANGED <<servers, outcome, at, waiting>>
          ELSE Report(Checked(config[at]), failure) /\ UNCHANGED exit
    BY <1>3 DEF LookupFails
  <2>2. exit = -1 /\ at <= Len(config) /\ UNCHANGED <<place, config, exposed>>
    BY <1>3 DEF LookupFails, Waits, ScanInv
  <2>3. CASE failure = "HTTPException"
    <3>1. exit' = -2 /\ UNCHANGED <<servers, outcome, at, place, config, exposed>>
      BY <2>1, <2>2, <2>3
    <3>2. ~Ended' /\ ~Waits'
      BY <3>1 DEF Ended, Waits
    <3>3. QED
      BY <3>1, <3>2 DEF ScanInv, ScanTypeOK
  <2>4. CASE failure # "HTTPException"
    <3>1. Report(Checked(config[at]), failure) /\ UNCHANGED exit
      BY <2>1, <2>4
    <3>2. failure \in Outcome \ Answer /\ failure \in Outcome
      BY DEF Outcome, Failure, Answer
    <3>3. Checked(config[at]) = CheckedIn(place, config[at]) \o AnsweredIn(place, failure)
      BY <2>2, <3>2, ReportedAs
    <3>4. QED
      BY <2>2, <3>1, <3>2, <3>3, ReportStep
  <2>5. QED
    BY <2>3, <2>4
<1>4. CASE Render
  <2>1. /\ exit = -1 /\ at > Len(config)
        /\ servers' = servers \o SocketServers
        /\ log' = ReportToSarif(servers')
        /\ exit' = ExitCode(servers', FailOn)
        /\ UNCHANGED <<at, place, config, exposed, waiting, outcome>>
    BY <1>4 DEF Render
  <2>2. PICK R : R = [findings : Seq(Finding(ScanText))]
    OBVIOUS
  <2>3. servers \in Seq(R) /\ SocketServers \in Seq(R)
    BY <2>2, SocketsAreReported DEF ScanInv, ScanTypeOK, Reports
  <2>4. /\ servers' \in Seq(R) /\ Len(servers) <= Len(servers')
        /\ Len(servers) \in Nat /\ Len(servers') \in Nat
        /\ \A s \in 1 .. Len(servers) : servers'[s] = servers[s]
    <3>1. PICK q \in Seq(R) : q = SocketServers
      BY <2>3
    <3>2. servers' = servers \o q
      BY <2>1, <3>1
    <3>3. QED
      BY <2>3, <3>2, ConcatHas
  <2>5. exit' \in {0, 1}
    BY <2>1 DEF ExitCode
  <2>6. /\ Len(outcome) = Len(config) /\ Len(servers) = Len(outcome) /\ Len(outcome) \in Nat
    BY <2>1 DEF ScanInv, ScanTypeOK
  <2>7. ScanTypeOK'
    BY <2>1, <2>2, <2>4, <2>5 DEF ScanInv, ScanTypeOK, Reports
  <2>8. ~Waits' /\ ~(exit' = -1)
    BY <2>5 DEF Waits
  <2>9. \A s \in 1 .. Len(outcome) :
          servers'[s].findings = CheckedIn(place, config[s]) \o AnsweredIn(place, outcome[s])
    BY <2>4, <2>6 DEF ScanInv
  <2>10. QED
    BY <2>1, <2>4, <2>6, <2>7, <2>8, <2>9 DEF ScanInv
<1>5. CASE UNCHANGED vars
  BY <1>5 DEF vars, ScanInv, ScanTypeOK, Waits, Ended
<1>6. QED
  BY <1>1, <1>2, <1>3, <1>4, <1>5 DEF Next

LEMMA LookupsOnlyAdd == ScanInv => OnlineOnlyAdds
<1> SUFFICES ASSUME ScanInv PROVE OnlineOnlyAdds
  OBVIOUS
<1>1. ASSUME NEW s \in DOMAIN outcome
      PROVE  LET findings == servers[s].findings
             IN  /\ Sift(findings, ToSet(findings) \ Vulns(findings)) = Checked(config[s])
                 /\ Sift(findings, Vulns(findings))
                      = IF outcome[s] \in Answer THEN KnownVuln(outcome[s]) ELSE << >>
  <2>1. s \in 1 .. Len(outcome) /\ outcome[s] \in Outcome /\ place \in ScanPlace
    BY DEF ScanInv, ScanTypeOK
  <2>2. config[s] \in Declared
    <3>1. Len(outcome) \in Nat /\ Len(config) \in Nat /\ Len(outcome) <= Len(config)
      BY DEF ScanInv, ScanTypeOK
    <3>2. s \in 1 .. Len(config)
      BY <2>1, <3>1
    <3>3. QED
      BY <3>2 DEF ScanInv, ScanTypeOK
  <2>3. PICK c \in Seq(Finding(ScanText)) :
          /\ c = CheckedIn(place, config[s]) /\ c = Checked(config[s])
          /\ \A f \in ToSet(c) : f.id # "PIN-KNOWN-VULN"
    BY <2>1, <2>2, FindingsOfScan, ScannedAs
  <2>4. PICK a \in Seq(Finding(ScanText)) :
          /\ a = AnsweredIn(place, outcome[s])
          /\ \A f \in ToSet(a) : f.id = "PIN-KNOWN-VULN"
    BY <2>1, FindingsOfScan
  <2>5. PICK q : q = c \o a
    OBVIOUS
  <2>6. servers[s].findings = q
    BY <2>1, <2>3, <2>4, <2>5 DEF ScanInv
  <2>7. ToSet(q) = ToSet(c) \union ToSet(a)
    BY <2>5, ConcatHas
  <2>8. Vulns(q) = ToSet(a) /\ ToSet(c) \cap ToSet(a) = {}
    BY <2>3, <2>4, <2>7 DEF Vulns
  <2>9. Sift(q, ToSet(q) \ Vulns(q)) = c
    <3>1. ToSet(c) \subseteq ToSet(q) \ Vulns(q) /\ ToSet(a) \cap (ToSet(q) \ Vulns(q)) = {}
      BY <2>7, <2>8
    <3>2. QED
      BY <2>5, <3>1, SiftApart
  <2>10. Sift(q, Vulns(q)) = a
    BY <2>5, <2>8, SiftBehind
  <2>11. a = IF outcome[s] \in Answer THEN KnownVuln(outcome[s]) ELSE << >>
    BY <2>1, <2>4, ScannedAs
  <2>12. QED
    BY <2>3, <2>6, <2>9, <2>10, <2>11
<1>2. Ended => Len(outcome) = Len(config)
  BY DEF ScanInv
<1>3. QED
  BY <1>1, <1>2 DEF OnlineOnlyAdds

LEMMA EndedTells == ScanInv => ResultsTellFindings
<1> SUFFICES ASSUME ScanInv, Ended PROVE TellsFindings(log, servers)
  BY DEF ResultsTellFindings
<1>1. log = ReportToSarif(servers) /\ servers \in Reports(ScanText)
  BY DEF ScanInv, ScanTypeOK
<1>2. QED
  BY <1>1, SarifTellsFindings

(* Whatever the lookups come to and in every config: each server has what  *)
(* an offline scan finds and the advisories of its own package, and a scan *)
(* that ends has reported all of them (engine.py:138-151).                 *)
THEOREM LookupsAdd == Spec => []OnlineOnlyAdds
<1>1. Init => ScanInv
  BY ScanBegins
<1>2. ScanInv /\ [Next]_vars => ScanInv'
  BY ScanStep
<1>3. ScanInv => OnlineOnlyAdds
  BY LookupsOnlyAdd
<1>4. QED
  BY <1>1, <1>2, <1>3, PTL DEF Spec

(* The SARIF log of every scan that ends tells its findings                *)
(* (sarif.py:178-217).                                                     *)
THEOREM ScansTell == Spec => []ResultsTellFindings
<1>1. Init => ScanInv
  BY ScanBegins
<1>2. ScanInv /\ [Next]_vars => ScanInv'
  BY ScanStep
<1>3. ScanInv => ResultsTellFindings
  BY EndedTells
<1>4. QED
  BY <1>1, <1>2, <1>3, PTL DEF Spec
=============================================================================
