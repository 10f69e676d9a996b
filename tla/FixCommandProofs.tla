-------------------------- MODULE FixCommandProofs --------------------------
(***************************************************************************)
(* What `scan --fix` leaves behind, for all configs, machines, edits by    *)
(* users and numbers of runs.                                              *)
(***************************************************************************)
EXTENDS FixCommand, ListProofs

----------------------------------------------------------------------------
(* What a list gives and what is left of it.                               *)

HitOf(e) == [rule |-> IF e \in Dangerous THEN "dangerous" ELSE "wildcard", entry |-> e]

(* The fixer knows the entries the scan knows, except those that are not   *)
(* strings.                                                                *)
LEMMA FlaggedIs == Flagged = (Dangerous \cup Broad) \ NonString
<1>1. \A e \in Entry : RuleFor(e) # "none" <=> e \in Dangerous \cup Broad
  BY DEF RuleFor
<1>2. QED
  BY <1>1, PlanAssumption DEF Flagged

(* The findings of a list are those of its dangerous and broad entries.    *)
LEMMA CheckGives ==
  ASSUME NEW list \in Seq(Entry)
  PROVE  /\ Check(list) \in Seq(Hit)
         /\ ToSet(Check(list)) = {HitOf(e) : e \in ToSet(list) \cap (Dangerous \cup Broad)}
<1> DEFINE flagged == Sift(list, Dangerous \cup Broad)
           found == [i \in 1 .. Len(flagged) |-> HitOf(flagged[i])]
<1>1. /\ flagged \in Seq(Entry)
      /\ ToSet(flagged) = ToSet(list) \cap (Dangerous \cup Broad)
  BY SiftElements
<1>2. /\ DOMAIN flagged = 1 .. Len(flagged) /\ Len(flagged) \in Nat
      /\ ToSet(flagged) = {flagged[i] : i \in 1 .. Len(flagged)}
  <2> HIDE DEF flagged
  <2>1. QED
    BY <1>1, ValuesOf
<1>3. Check(list) = found
  BY <1>2 DEF Check, HitOf
<1>4. \A i \in 1 .. Len(flagged) : HitOf(flagged[i]) \in Hit
  <2> HIDE DEF flagged
  <2>1. QED
    BY <1>1 DEF HitOf, Hit, Rule
<1>5. found \in Seq(Hit) /\ DOMAIN found = 1 .. Len(flagged)
  <2> HIDE DEF flagged
  <2>1. QED
    BY <1>2, <1>4
<1>6. ToSet(found) = {HitOf(e) : e \in ToSet(flagged)}
  <2> HIDE DEF flagged
  <2>1. QED
    BY <1>2, <1>5 DEF ToSet
<1>7. QED
  <2> HIDE DEF flagged, found
  <2>1. QED
    BY <1>1, <1>3, <1>5, <1>6

(* The edits of a list are those of its entries the fixer knows.           *)
LEMMA RemovalsGive ==
  ASSUME NEW list \in Seq(Entry)
  PROVE  /\ Removals(list) \in Seq(Hit)
         /\ ToSet(Removals(list)) = {HitOf(e) : e \in ToSet(list) \cap Flagged}
<1> DEFINE gone == Sift(list, Flagged)
           found == [i \in 1 .. Len(gone) |-> HitOf(gone[i])]
<1>1. gone \in Seq(Entry) /\ ToSet(gone) = ToSet(list) \cap Flagged
  BY SiftElements
<1>2. /\ DOMAIN gone = 1 .. Len(gone) /\ Len(gone) \in Nat
      /\ ToSet(gone) = {gone[i] : i \in 1 .. Len(gone)}
  <2> HIDE DEF gone
  <2>1. QED
    BY <1>1, ValuesOf
<1>3. \A i \in 1 .. Len(gone) :
        HitOf(gone[i]) = [rule |-> RuleFor(gone[i]), entry |-> gone[i]]
  <2> HIDE DEF gone
  <2>1. \A e \in Flagged : RuleFor(e) = IF e \in Dangerous THEN "dangerous" ELSE "wildcard"
    BY FlaggedIs DEF RuleFor
  <2>2. \A i \in 1 .. Len(gone) : gone[i] \in Flagged
    BY <1>1, <1>2
  <2>3. QED
    BY <2>1, <2>2 DEF HitOf
<1>4. Removals(list) = found
  BY <1>2, <1>3 DEF Removals
<1>5. \A i \in 1 .. Len(gone) : HitOf(gone[i]) \in Hit
  <2> HIDE DEF gone
  <2>1. QED
    BY <1>1 DEF HitOf, Hit, Rule
<1>6. found \in Seq(Hit) /\ DOMAIN found = 1 .. Len(gone)
  <2> HIDE DEF gone
  <2>1. QED
    BY <1>2, <1>5
<1>7. ToSet(found) = {HitOf(e) : e \in ToSet(gone)}
  <2> HIDE DEF gone
  <2>1. QED
    BY <1>2, <1>6 DEF ToSet
<1>8. QED
  <2> HIDE DEF gone, found
  <2>1. QED
    BY <1>1, <1>4, <1>6, <1>7

(* What is left of a list.                                                 *)
LEMMA KeptIs ==
  ASSUME NEW list \in Seq(Entry)
  PROVE  /\ PruneList(list).kept \in Seq(Entry)
         /\ ToSet(PruneList(list).kept) = ToSet(list) \ Flagged
         /\ PruneList(list).fixes = Removals(list)
<1>1. PruneList(list).kept = Sift(list, Entry \ Flagged) /\ PruneList(list).fixes = Removals(list)
  BY DEF PruneList
<1>2. /\ Sift(list, Entry \ Flagged) \in Seq(Entry)
      /\ ToSet(Sift(list, Entry \ Flagged)) = ToSet(list) \cap (Entry \ Flagged)
  BY SiftElements
<1>3. ToSet(list) \subseteq Entry
  BY ValuesOf
<1>4. QED
  BY <1>1, <1>2, <1>3

(* A list whose dangerous and broad entries are all strings: the scan and  *)
(* the fixer agree on it.                                                  *)
LEMMA CheckIsRemovals ==
  ASSUME NEW list \in Seq(Entry), ToSet(list) \cap NonString \cap (Dangerous \cup Broad) = {}
  PROVE  Check(list) = Removals(list)
<1>1. ToSet(list) \cap (Dangerous \cup Broad) = ToSet(list) \cap Flagged
  BY FlaggedIs
<1>2. Sift(list, Dangerous \cup Broad) = Sift(list, Flagged)
  BY <1>1, SiftSame
<1> DEFINE gone == Sift(list, Flagged)
<1>3. gone \in Seq(Entry) /\ ToSet(gone) = ToSet(list) \cap Flagged
  BY SiftElements
<1>4. /\ DOMAIN gone = 1 .. Len(gone)
      /\ ToSet(gone) = {gone[i] : i \in 1 .. Len(gone)}
  <2> HIDE DEF gone
  <2>1. QED
    BY <1>3, ValuesOf
<1>5. \A i \in DOMAIN gone :
        RuleFor(gone[i]) = IF gone[i] \in Dangerous THEN "dangerous" ELSE "wildcard"
  <2> HIDE DEF gone
  <2>1. \A i \in DOMAIN gone : gone[i] \in Dangerous \cup Broad
    BY <1>3, <1>4, FlaggedIs
  <2>2. QED
    BY <2>1 DEF RuleFor
<1>6. QED
  BY <1>2, <1>5 DEF Check, Removals

----------------------------------------------------------------------------
(* What a text gives and what is left of it.                               *)

LEMMA NoHits ==
  ASSUME NEW found
  PROVE  Hits(found) = {} <=> /\ ToSet(found.allow) = {}
                              /\ \A i \in DOMAIN found.servers : ToSet(found.servers[i]) = {}
BY DEF Hits

LEMMA NothingIsFound == ASSUME NEW t PROVE Hits(Nothing(t)) = {}
BY NothingHas, NoHits DEF Nothing

(* A rewritten text is a text: the same but for the lists.                 *)
LEMMA RewrittenIs ==
  ASSUME NEW t \in Text, t.syntax = "json"
  PROVE  /\ Rewritten(t) \in Text
         /\ Rewritten(t).syntax = "json" /\ Rewritten(t).section = t.section
         /\ Rewritten(t).allow = PruneList(t.allow).kept
         /\ DOMAIN Rewritten(t).servers = DOMAIN t.servers
         /\ Len(Rewritten(t).servers) = Len(t.servers)
         /\ \A i \in DOMAIN t.servers : Rewritten(t).servers[i] = PruneServers(t, i).kept
<1> DEFINE servers == [i \in DOMAIN t.servers |-> PruneServers(t, i).kept]
<1>1. /\ t.allow \in Seq(Entry) /\ t.servers \in Seq(Seq(Entry)) /\ t.section \in Section
      /\ t.syntax \in Syntax
      /\ t = [syntax |-> t.syntax, allow |-> t.allow, section |-> t.section, servers |-> t.servers]
  BY DEF Text
<1>2. PruneList(t.allow).kept \in Seq(Entry)
  BY <1>1, KeptIs
<1>3. ASSUME NEW i \in DOMAIN t.servers PROVE PruneServers(t, i).kept \in Seq(Entry)
  <2>1. t.servers[i] \in Seq(Entry)
    BY <1>1
  <2>2. PruneList(t.servers[i]).kept \in Seq(Entry)
    BY <2>1, KeptIs
  <2>3. QED
    BY <2>1, <2>2 DEF PruneServers
<1>4. DOMAIN t.servers = 1 .. Len(t.servers) /\ Len(t.servers) \in Nat
  BY <1>1
<1>5. /\ servers \in Seq(Seq(Entry))
      /\ DOMAIN servers = DOMAIN t.servers /\ Len(servers) = Len(t.servers)
  BY <1>3, <1>4
<1>6. Rewritten(t) = [syntax |-> t.syntax, allow |-> PruneList(t.allow).kept,
                      section |-> t.section, servers |-> servers]
  <2>1. Rewritten(t) = [t EXCEPT !.allow = PruneList(t.allow).kept, !.servers = servers]
    BY <1>1 DEF Rewritten
  <2> HIDE DEF servers
  <2>2. QED
    BY <1>1, <2>1
<1>7. \A i \in DOMAIN t.servers : servers[i] = PruneServers(t, i).kept
  OBVIOUS
<1>8. QED
  <2> HIDE DEF servers
  <2>1. QED
    BY <1>1, <1>2, <1>5, <1>6, <1>7 DEF Text

LEMMA RewrittenIsText == \A t \in Text : Rewritten(t) \in Text
BY RewrittenIs DEF Rewritten

(* One list, as the fixer treats it.                                       *)
LEMMA OneServer ==
  ASSUME NEW t \in Text, t.syntax = "json", NEW i \in DOMAIN t.servers
  PROVE  /\ t.servers[i] \in Seq(Entry)
         /\ PruneServers(t, i) = IF t.section = "mcpServers" THEN PruneList(t.servers[i])
                                 ELSE [kept |-> t.servers[i], fixes |-> << >>]
         /\ Edits(t).servers[i] = PruneServers(t, i).fixes
         /\ DOMAIN Edits(t).servers = DOMAIN t.servers
         /\ Edits(t).allow = Removals(t.allow)
<1>1. t.servers \in Seq(Seq(Entry)) /\ t.allow \in Seq(Entry)
  BY DEF Text
<1>2. t.servers[i] \in Seq(Entry)
  BY <1>1
<1>3. QED
  BY <1>1, <1>2, KeptIs DEF PruneServers, Edits

(* The fixer has nothing to remove from what it has written.               *)
LEMMA FixedHasNoEdits == ASSUME NEW t \in Text PROVE Hits(Edits(Rewritten(t))) = {}
<1>1. CASE t.syntax # "json"
  <2>1. Edits(Rewritten(t)) = Nothing(t)
    BY <1>1 DEF Rewritten, Edits
  <2>2. QED
    BY <2>1, NothingIsFound
<1>2. CASE t.syntax = "json"
  <2> DEFINE u == Rewritten(t)
  <2>1. /\ u \in Text /\ u.syntax = "json" /\ u.section = t.section
        /\ u.allow = PruneList(t.allow).kept
        /\ DOMAIN u.servers = DOMAIN t.servers
        /\ \A i \in DOMAIN t.servers : u.servers[i] = PruneServers(t, i).kept
    BY <1>2, RewrittenIs
  <2> HIDE DEF u
  <2>2. /\ t.allow \in Seq(Entry) /\ t.servers \in Seq(Seq(Entry))
        /\ u.allow \in Seq(Entry) /\ u.servers \in Seq(Seq(Entry))
    BY <2>1 DEF Text
  <2>3. ASSUME NEW list \in Seq(Entry), NEW kept \in Seq(Entry), kept = PruneList(list).kept
        PROVE  ToSet(Removals(kept)) = {}
    <3>1. ToSet(kept) \cap Flagged = {}
      BY <2>3, KeptIs
    <3>2. QED
      BY <3>1, RemovalsGive
  <2>4. Edits(u).allow = Removals(u.allow) /\ DOMAIN Edits(u).servers = DOMAIN u.servers
    BY <2>1, <2>2, KeptIs DEF Edits
  <2>5. ToSet(Edits(u).allow) = {}
    BY <2>1, <2>2, <2>3, <2>4
  <2>6. ASSUME NEW i \in DOMAIN u.servers PROVE ToSet(Edits(u).servers[i]) = {}
    <3>1. /\ u.servers[i] \in Seq(Entry) /\ t.servers[i] \in Seq(Entry)
          /\ Edits(u).servers[i] = PruneServers(u, i).fixes
      BY <2>1, <2>2, OneServer
    <3>2. CASE t.section = "mcpServers"
      <4>1. PruneServers(t, i).kept = PruneList(t.servers[i]).kept
        BY <3>2 DEF PruneServers
      <4>2. PruneServers(u, i).fixes = Removals(u.servers[i])
        BY <2>1, <3>1, <3>2, KeptIs DEF PruneServers
      <4>3. QED
        BY <2>1, <2>3, <3>1, <4>1, <4>2
    <3>3. CASE t.section # "mcpServers"
      <4>1. PruneServers(u, i).fixes = << >>
        BY <2>1, <3>3 DEF PruneServers
      <4>2. QED
        BY <3>1, <4>1, NothingHas
    <3>4. QED
      BY <3>2, <3>3
  <2>7. QED
    BY <2>4, <2>5, <2>6, NoHits DEF u
<1>3. QED
  BY <1>1, <1>2

----------------------------------------------------------------------------
(* The scan and the fixer on the same text.                                *)

LEMMA HostsRead ==
  ASSUME NEW h \in Host \ {"zed", "continue"}
  PROVE  "json" \in Parses[h] /\ "mcpServers" \in Reads[h]
BY DEF Parses, Reads, Host

LEMMA NobodyReadsBroken ==
  ASSUME NEW h \in Host PROVE "broken" \notin Parses[h]
BY DEF Parses, Host

(* Where the fixer reads a config as its host does, it edits what the scan *)
(* finds.                                                                  *)
LEMMA KnownAgrees ==
  ASSUME NEW h \in Host, NEW t \in Text, Known(h, t)
  PROVE  Findings(h, t) = Edits(t)
<1>1. CASE t.syntax = "broken"
  BY <1>1, NobodyReadsBroken DEF Findings, Edits
<1>2. CASE t.syntax # "broken"
  <2>1. t.syntax = "json" /\ t.section = "mcpServers" /\ h \in Host \ {"zed", "continue"}
    BY <1>2 DEF Known
  <2>2. t.syntax \in Parses[h] /\ t.section \in Reads[h]
    BY <2>1, HostsRead
  <2>3. /\ t.allow \in Seq(Entry) /\ t.servers \in Seq(Seq(Entry))
        /\ DOMAIN t.servers = 1 .. Len(t.servers)
    BY DEF Text
  <2>4. Check(t.allow) = Removals(t.allow)
    <3>1. ToSet(t.allow) \cap NonString \cap (Dangerous \cup Broad) = {}
      BY DEF Known
    <3>2. QED
      BY <2>3, <3>1, CheckIsRemovals
  <2>5. ASSUME NEW i \in DOMAIN t.servers
        PROVE  Check(t.servers[i]) = PruneServers(t, i).fixes
    <3>1. t.servers[i] \in Seq(Entry) /\ t.servers[i] \in ToSet(t.servers)
      BY <2>3, ValuesOf
    <3>2. ToSet(t.servers[i]) \cap NonString \cap (Dangerous \cup Broad) = {}
      BY <3>1 DEF Known
    <3>3. Check(t.servers[i]) = Removals(t.servers[i])
      BY <3>1, <3>2, CheckIsRemovals
    <3>4. PruneServers(t, i).fixes = Removals(t.servers[i])
      BY <2>1, <3>1, KeptIs DEF PruneServers
    <3>5. QED
      BY <3>3, <3>4
  <2>6. Findings(h, t).allow = Removals(t.allow)
    <3>1. CASE h = "claude"
      BY <2>2, <2>4, <3>1 DEF Findings
    <3>2. CASE h # "claude"
      <4>1. Check(t.allow) = << >>
        BY <3>2 DEF Known
      <4>2. QED
        BY <2>2, <2>4, <3>2, <4>1 DEF Findings
    <3>3. QED
      BY <3>1, <3>2
  <2>7. Findings(h, t) = [allow |-> Findings(h, t).allow,
                          servers |-> [i \in DOMAIN t.servers |-> Check(t.servers[i])]]
    BY <2>2 DEF Findings
  <2>8. PruneList(t.allow).fixes = Removals(t.allow)
    BY <2>3, KeptIs
  <2>9. Edits(t) = [allow |-> Removals(t.allow),
                    servers |-> [i \in DOMAIN t.servers |-> PruneServers(t, i).fixes]]
    BY <2>1, <2>8 DEF Edits
  <2>10. QED
    BY <2>5, <2>6, <2>7, <2>9
<1>3. QED
  BY <1>1, <1>2

(* ... and it does so again after it has written it.                       *)
LEMMA KnownStays ==
  ASSUME NEW h \in Host, NEW t \in Text, Known(h, t)
  PROVE  Known(h, Rewritten(t))
<1>1. CASE t.syntax # "json"
  BY <1>1 DEF Rewritten
<1>2. CASE t.syntax = "json"
  <2> DEFINE u == Rewritten(t)
  <2>1. /\ u \in Text /\ u.syntax = "json" /\ u.section = t.section
        /\ u.allow = PruneList(t.allow).kept
        /\ DOMAIN u.servers = DOMAIN t.servers
        /\ \A i \in DOMAIN t.servers : u.servers[i] = PruneServers(t, i).kept
    BY <1>2, RewrittenIs
  <2> HIDE DEF u
  <2>2. /\ t.allow \in Seq(Entry) /\ t.servers \in Seq(Seq(Entry))
        /\ u.allow \in Seq(Entry) /\ u.servers \in Seq(Seq(Entry))
        /\ DOMAIN t.servers = 1 .. Len(t.servers)
        /\ DOMAIN u.servers = 1 .. Len(u.servers)
    BY <2>1 DEF Text
  <2>3. t.section = "mcpServers" /\ h \notin {"zed", "continue"}
    BY <1>2 DEF Known
  <2>4. ToSet(u.allow) \subseteq ToSet(t.allow)
    BY <2>1, <2>2, KeptIs
  <2>5. ASSUME NEW i \in DOMAIN t.servers PROVE ToSet(u.servers[i]) \subseteq ToSet(t.servers[i])
    <3>1. t.servers[i] \in Seq(Entry)
      BY <2>2
    <3>2. u.servers[i] = PruneList(t.servers[i]).kept
      BY <2>1, <2>3 DEF PruneServers
    <3>3. QED
      BY <3>1, <3>2, KeptIs
  <2>6. ASSUME h # "claude" PROVE Check(u.allow) = << >>
    <3>1. ToSet(Check(t.allow)) = {}
      BY <2>6, NothingHas DEF Known
    <3>2. ToSet(t.allow) \cap (Dangerous \cup Broad) = {}
      <4>1. ASSUME NEW e \in ToSet(t.allow) \cap (Dangerous \cup Broad) PROVE FALSE
        <5>1. HitOf(e) \in {HitOf(d) : d \in ToSet(t.allow) \cap (Dangerous \cup Broad)}
          OBVIOUS
        <5>2. HitOf(e) \in ToSet(Check(t.allow))
          BY <2>2, <5>1, CheckGives
        <5>3. QED
          BY <3>1, <5>2
      <4>2. QED
        BY <4>1
    <3>3. ToSet(Check(u.allow)) = {} /\ Check(u.allow) \in Seq(Hit)
      BY <2>2, <2>4, <3>2, CheckGives
    <3>4. QED
      BY <3>3, EmptyList
  <2>7. ASSUME NEW list \in {u.allow} \cup ToSet(u.servers)
        PROVE  ToSet(list) \cap NonString \cap (Dangerous \cup Broad) = {}
    <3>1. CASE list = u.allow
      BY <2>4, <3>1 DEF Known
    <3>2. CASE list \in ToSet(u.servers)
      <4>1. PICK i \in DOMAIN u.servers : list = u.servers[i]
        BY <3>2 DEF ToSet
      <4>2. t.servers[i] \in ToSet(t.servers)
        BY <2>1, <4>1 DEF ToSet
      <4>3. ToSet(t.servers[i]) \cap NonString \cap (Dangerous \cup Broad) = {}
        BY <4>2 DEF Known
      <4>4. QED
        BY <2>1, <2>5, <4>1, <4>3
    <3>3. QED
      BY <3>1, <3>2
  <2>8. QED
    BY <2>1, <2>3, <2>6, <2>7 DEF Known, u
<1>3. QED
  BY <1>1, <1>2

(* So a config of which nothing is left to edit has no finding.            *)
LEMMA CleanIsClean ==
  ASSUME NEW h \in Host, NEW t \in Text, Known(h, t),
         NEW now \in {t, Rewritten(t)}, Hits(Edits(now)) = {}
  PROVE  Hits(Findings(h, now)) = {}
<1>1. now \in Text /\ Known(h, now)
  BY KnownStays, RewrittenIsText
<1>2. QED
  BY <1>1, KnownAgrees

(* The fixer adds no finding, whatever the host reads.                     *)
LEMMA FixOnlyRemoves ==
  ASSUME NEW h \in Host, NEW t \in Text
  PROVE  Hits(Findings(h, Rewritten(t))) \subseteq Hits(Findings(h, t))
<1>1. CASE t.syntax # "json"
  BY <1>1 DEF Rewritten
<1>2. CASE t.syntax = "json" /\ t.syntax \notin Parses[h]
  <2>1. Rewritten(t).syntax = "json"
    BY <1>2, RewrittenIs
  <2>2. Findings(h, Rewritten(t)) = Nothing(Rewritten(t))
    BY <1>2, <2>1 DEF Findings
  <2>3. QED
    BY <2>2, NothingIsFound
<1>3. CASE t.syntax = "json" /\ t.syntax \in Parses[h]
  <2> DEFINE u == Rewritten(t)
  <2>1. /\ u \in Text /\ u.syntax = "json" /\ u.section = t.section
        /\ u.allow = PruneList(t.allow).kept
        /\ DOMAIN u.servers = DOMAIN t.servers
        /\ \A i \in DOMAIN t.servers : u.servers[i] = PruneServers(t, i).kept
    BY <1>3, RewrittenIs
  <2> HIDE DEF u
  <2>2. /\ t.allow \in Seq(Entry) /\ t.servers \in Seq(Seq(Entry))
        /\ u.allow \in Seq(Entry) /\ u.servers \in Seq(Seq(Entry))
    BY <2>1 DEF Text
  <2>3. ASSUME NEW list \in Seq(Entry), NEW kept \in Seq(Entry), ToSet(kept) \subseteq ToSet(list)
        PROVE  ToSet(Check(kept)) \subseteq ToSet(Check(list))
    BY <2>3, CheckGives
  <2>4. ToSet(Check(u.allow)) \subseteq ToSet(Check(t.allow))
    <3>1. ToSet(u.allow) \subseteq ToSet(t.allow)
      BY <2>1, <2>2, KeptIs
    <3>2. QED
      BY <2>2, <2>3, <3>1
  <2>5. ASSUME NEW i \in DOMAIN t.servers
        PROVE  ToSet(Check(u.servers[i])) \subseteq ToSet(Check(t.servers[i]))
    <3>1. t.servers[i] \in Seq(Entry) /\ u.servers[i] \in Seq(Entry)
      BY <2>1, <2>2
    <3>2. ToSet(u.servers[i]) \subseteq ToSet(t.servers[i])
      BY <2>1, <3>1, KeptIs DEF PruneServers
    <3>3. QED
      BY <2>3, <3>1, <3>2
  <2>6. ToSet(Findings(h, u).allow) \subseteq ToSet(Findings(h, t).allow)
    BY <1>3, <2>1, <2>4 DEF Findings
  <2>7. /\ DOMAIN Findings(h, u).servers = DOMAIN t.servers
        /\ DOMAIN Findings(h, t).servers = DOMAIN t.servers
    BY <1>3, <2>1 DEF Findings
  <2>8. ASSUME NEW i \in DOMAIN t.servers
        PROVE  ToSet(Findings(h, u).servers[i]) \subseteq ToSet(Findings(h, t).servers[i])
    <3>1. /\ Findings(h, u).servers[i]
               = IF t.section \in Reads[h] THEN Check(u.servers[i]) ELSE << >>
          /\ Findings(h, t).servers[i]
               = IF t.section \in Reads[h] THEN Check(t.servers[i]) ELSE << >>
      BY <1>3, <2>1 DEF Findings
    <3>2. QED
      BY <2>5, <3>1
  <2>9. QED
    BY <2>6, <2>7, <2>8 DEF Hits, u
<1>4. QED
  BY <1>1, <1>2, <1>3

(* What is harmless stays, in order.                                       *)
LEMMA FixKeepsHarmless ==
  ASSUME NEW t \in Text, t.syntax = "json", NEW S, S = Entry \ (Dangerous \cup Broad)
  PROVE  /\ Sift(Rewritten(t).allow, S) = Sift(t.allow, S)
         /\ Len(Rewritten(t).servers) = Len(t.servers)
         /\ \A i \in DOMAIN t.servers : Sift(Rewritten(t).servers[i], S) = Sift(t.servers[i], S)
<1>1. (Entry \ Flagged) \cap S = S
  BY FlaggedIs
<1>2. ASSUME NEW list \in Seq(Entry) PROVE Sift(PruneList(list).kept, S) = Sift(list, S)
  <2>1. PruneList(list).kept = Sift(list, Entry \ Flagged)
    BY DEF PruneList
  <2>2. Sift(Sift(list, Entry \ Flagged), S) = Sift(list, (Entry \ Flagged) \cap S)
    BY SiftTwice
  <2>3. QED
    BY <1>1, <2>1, <2>2
<1>3. t.allow \in Seq(Entry) /\ t.servers \in Seq(Seq(Entry))
  BY DEF Text
<1>4. ASSUME NEW i \in DOMAIN t.servers
      PROVE  Sift(Rewritten(t).servers[i], S) = Sift(t.servers[i], S)
  <2>1. t.servers[i] \in Seq(Entry)
    BY <1>3
  <2>2. Rewritten(t).servers[i] = PruneServers(t, i).kept
    BY RewrittenIs
  <2>3. QED
    BY <1>2, <2>1, <2>2 DEF PruneServers
<1>5. QED
  BY <1>2, <1>3, <1>4, RewrittenIs

----------------------------------------------------------------------------
(* Every config is on the tour, under one host only: the last two names of *)
(* its path say which.                                                     *)

(* The strings: the provers do not know of a literal that it is one.       *)
Literals ==
  {"Library", "Application Support", ".config", ".claude", "settings.json", "settings.local.json",
   "Claude", "claude_desktop_config.json", ".cursor", "mcp.json", ".codeium", "windsurf",
   "mcp_config.json", "Code", "User", "globalStorage", "saoudrizwan.claude-dev", "settings",
   "cline_mcp_settings.json", "Zed", "zed", ".continue", "config.yaml", ".mcp.json", ".vscode",
   ".zed"}
Name == STRING \cup Literals

Visit == [host : Host, path : Seq(Name)]

(* The folder of a path; Last is its file.                                *)
Dir(p) == p[Len(p) - 1]

OwnPath(h, p) ==
  \/ /\ h = "claude"
     /\ \/ Last(p) \in {"settings.local.json", "claude_desktop_config.json", ".mcp.json"}
        \/ Last(p) = "settings.json" /\ Dir(p) = ".claude"
  \/ h = "cursor" /\ Last(p) = "mcp.json" /\ Dir(p) = ".cursor"
  \/ h = "windsurf" /\ Last(p) = "mcp_config.json"
  \/ h = "cline" /\ Last(p) = "cline_mcp_settings.json"
  \/ h = "vscode" /\ Last(p) = "mcp.json" /\ Dir(p) \in {"User", ".vscode"}
  \/ h = "zed" /\ Last(p) = "settings.json" /\ Dir(p) \in {"zed", "Zed", ".zed"}
  \/ h = "continue" /\ Last(p) = "config.yaml"

OwnPaths(h) == {p \in Seq(Name) : OwnPath(h, p)}
OwnVisits == {v \in Visit : OwnPath(v.host, v.path)}

LEMMA OneOwner == \A h, k, p : OwnPath(h, p) /\ OwnPath(k, p) => h = k
BY DEF OwnPath

LEMMA NamesAre ==
  /\ "Library" \in Name /\ "Application Support" \in Name
  /\ ".config" \in Name /\ ".claude" \in Name
  /\ "settings.json" \in Name /\ "settings.local.json" \in Name
  /\ "Claude" \in Name /\ "claude_desktop_config.json" \in Name
  /\ ".cursor" \in Name /\ "mcp.json" \in Name
  /\ ".codeium" \in Name /\ "windsurf" \in Name
  /\ "mcp_config.json" \in Name /\ "Code" \in Name
  /\ "User" \in Name /\ "globalStorage" \in Name
  /\ "saoudrizwan.claude-dev" \in Name /\ "settings" \in Name
  /\ "cline_mcp_settings.json" \in Name /\ "Zed" \in Name
  /\ "zed" \in Name /\ ".continue" \in Name
  /\ "config.yaml" \in Name /\ ".mcp.json" \in Name
  /\ ".vscode" \in Name /\ ".zed" \in Name
BY DEF Name, Literals

(* A path ends as the file does.                                           *)
LEMMA PathOfOne ==
  ASSUME NEW dir \in Seq(Name), NEW a \in Name
  PROVE  dir \o <<a>> \in Seq(Name) /\ Last(dir \o <<a>>) = a
BY DEF Last

LEMMA PathOfTwo ==
  ASSUME NEW dir \in Seq(Name), NEW a \in Name, NEW b \in Name
  PROVE  /\ dir \o <<a, b>> \in Seq(Name)
         /\ Last(dir \o <<a, b>>) = b /\ Dir(dir \o <<a, b>>) = a
BY DEF Last, Dir

LEMMA PathOfThree ==
  ASSUME NEW dir \in Seq(Name), NEW a \in Name, NEW b \in Name, NEW c \in Name
  PROVE  /\ dir \o <<a, b, c>> \in Seq(Name)
         /\ Last(dir \o <<a, b, c>>) = c /\ Dir(dir \o <<a, b, c>>) = b
BY DEF Last, Dir

LEMMA PathOfSix ==
  ASSUME NEW dir \in Seq(Name), NEW a \in Name, NEW b \in Name, NEW c \in Name,
         NEW d \in Name, NEW e \in Name, NEW f \in Name
  PROVE  /\ dir \o <<a, b, c, d, e, f>> \in Seq(Name)
         /\ Last(dir \o <<a, b, c, d, e, f>>) = f
BY DEF Last, Dir

LEMMA UnderOne ==
  ASSUME NEW S, NEW dir, NEW file, dir \o file \in S
  PROVE  Under(dir, <<file>>) \in Seq(S)
BY DEF Under

LEMMA UnderTwo ==
  ASSUME NEW S, NEW dir, NEW file, NEW second, dir \o file \in S, dir \o second \in S
  PROVE  Under(dir, <<file, second>>) \in Seq(S)
BY DEF Under

EnvOK(env) ==
  env \in [HOME : Seq(STRING), USERPROFILE : Seq(STRING), HOMEDRIVE : Seq(STRING),
           HOMEPATH : Seq(STRING), APPDATA : Seq(STRING)]

LEMMA Directories ==
  ASSUME NEW system, NEW env, EnvOK(env)
  PROVE  /\ Home(system, env) \in Seq(Name) /\ AppData(system, env) \in Seq(Name)
         /\ env.APPDATA \in Seq(Name)
<1>1. /\ env.HOME \in Seq(Name) /\ env.USERPROFILE \in Seq(Name)
      /\ env.HOMEDRIVE \in Seq(Name) /\ env.HOMEPATH \in Seq(Name)
      /\ env.APPDATA \in Seq(Name) /\ None \in Seq(Name)
  <2>1. \A s \in Seq(STRING) : s \in Seq(Name)
    BY DEF Name
  <2>2. None \in Seq(Name)
    BY DEF None
  <2>3. QED
    BY <2>1, <2>2 DEF EnvOK
<1>2. env.HOMEDRIVE \o env.HOMEPATH \in Seq(Name)
  BY <1>1
<1>3. Home(system, env) \in Seq(Name)
  BY <1>1, <1>2 DEF Home
<1>4. /\ Home(system, env) \o <<"Library", "Application Support">> \in Seq(Name)
      /\ Home(system, env) \o <<".config">> \in Seq(Name)
  <2>1. "Library" \in Name /\ "Application Support" \in Name /\ ".config" \in Name
    BY NamesAre
  <2>2. QED
    BY <1>3, <2>1, PathOfOne, PathOfTwo
<1>5. AppData(system, env) \in Seq(Name)
  <2>1. CASE system = "Windows"
    BY <1>1, <2>1 DEF AppData
  <2>2. CASE system # "Windows" /\ Home(system, env) = None
    BY <1>1, <2>2 DEF AppData
  <2>3. CASE system = "Darwin" /\ Home(system, env) # None
    BY <1>4, <2>3 DEF AppData
  <2>4. CASE system \notin {"Windows", "Darwin"} /\ Home(system, env) # None
    BY <1>4, <2>4 DEF AppData
  <2>5. QED
    BY <2>1, <2>2, <2>3, <2>4
<1>6. QED
  BY <1>1, <1>3, <1>5

LEMMA UserPathsAreOwn ==
  ASSUME NEW system, NEW env, EnvOK(env), NEW h \in Host
  PROVE  UserPaths(h, system, env) \in Seq(OwnPaths(h))
<1> DEFINE home == Home(system, env)
           data == AppData(system, env)
           local == env.APPDATA
<1>1. home \in Seq(Name) /\ data \in Seq(Name) /\ local \in Seq(Name)
  BY Directories
<1> HIDE DEF home, data, local
<1>2. CASE h = "claude"
  <2> DEFINE a == <<".claude", "settings.json">>
             b == <<".claude", "settings.local.json">>
             c == <<"Claude", "claude_desktop_config.json">>
  <2>1. home \o a \in OwnPaths(h) /\ home \o b \in OwnPaths(h) /\ data \o c \in OwnPaths(h)
    <3>1. home \o a \in Seq(Name) /\ OwnPath("claude", home \o a)
      <4>1. /\ ".claude" \in Name /\ "settings.json" \in Name
        BY NamesAre
      <4>2. /\ home \o a \in Seq(Name)
            /\ Last(home \o a) = "settings.json" /\ Dir(home \o a) = ".claude"
        BY <1>1, <4>1, PathOfTwo
      <4>3. QED
        BY <4>2 DEF OwnPath
    <3>2. home \o b \in Seq(Name) /\ OwnPath("claude", home \o b)
      <4>1. /\ ".claude" \in Name /\ "settings.local.json" \in Name
        BY NamesAre
      <4>2. /\ home \o b \in Seq(Name)
            /\ Last(home \o b) = "settings.local.json" /\ Dir(home \o b) = ".claude"
        BY <1>1, <4>1, PathOfTwo
      <4>3. QED
        BY <4>2 DEF OwnPath
    <3>3. data \o c \in Seq(Name) /\ OwnPath("claude", data \o c)
      <4>1. /\ "Claude" \in Name /\ "claude_desktop_config.json" \in Name
        BY NamesAre
      <4>2. /\ data \o c \in Seq(Name)
            /\ Last(data \o c) = "claude_desktop_config.json" /\ Dir(data \o c) = "Claude"
        BY <1>1, <4>1, PathOfTwo
      <4>3. QED
        BY <4>2 DEF OwnPath
    <3>4. QED
      BY <1>2, <3>1, <3>2, <3>3 DEF OwnPaths
  <2>2. UserPaths(h, system, env) = Under(home, <<a, b>>) \o Under(data, <<c>>)
    BY <1>2 DEF UserPaths, home, data
  <2> HIDE DEF a, b, c
  <2>3. Under(home, <<a, b>>) \in Seq(OwnPaths(h)) /\ Under(data, <<c>>) \in Seq(OwnPaths(h))
    BY <2>1, UnderOne, UnderTwo
  <2>4. QED
    BY <2>2, <2>3
<1>3. CASE h = "cursor"
  <2>1. home \o <<".cursor", "mcp.json">> \in OwnPaths(h)
    <3>1. ".cursor" \in Name /\ "mcp.json" \in Name
      BY NamesAre
    <3>2. /\ home \o <<".cursor", "mcp.json">> \in Seq(Name)
          /\ Last(home \o <<".cursor", "mcp.json">>) = "mcp.json"
          /\ Dir(home \o <<".cursor", "mcp.json">>) = ".cursor"
      BY <1>1, <3>1, PathOfTwo
    <3>3. OwnPath("cursor", home \o <<".cursor", "mcp.json">>)
      BY <3>2 DEF OwnPath
    <3>4. QED
      BY <1>3, <3>2, <3>3 DEF OwnPaths
  <2>2. UserPaths(h, system, env) = Under(home, <<<<".cursor", "mcp.json">>>>)
    BY <1>3 DEF UserPaths, home
  <2>3. QED
    BY <2>1, <2>2, UnderOne
<1>4. CASE h = "windsurf"
  <2>1. home \o <<".codeium", "windsurf", "mcp_config.json">> \in OwnPaths(h)
    <3>1. ".codeium" \in Name /\ "windsurf" \in Name /\ "mcp_config.json" \in Name
      BY NamesAre
    <3>2. /\ home \o <<".codeium", "windsurf", "mcp_config.json">> \in Seq(Name)
          /\ Last(home \o <<".codeium", "windsurf", "mcp_config.json">>) = "mcp_config.json"
          /\ Dir(home \o <<".codeium", "windsurf", "mcp_config.json">>) = "windsurf"
      BY <1>1, <3>1, PathOfThree
    <3>3. OwnPath("windsurf", home \o <<".codeium", "windsurf", "mcp_config.json">>)
      BY <3>2 DEF OwnPath
    <3>4. QED
      BY <1>4, <3>2, <3>3 DEF OwnPaths
  <2>2. UserPaths(h, system, env) = Under(home, <<<<".codeium", "windsurf", "mcp_config.json">>>>)
    BY <1>4 DEF UserPaths, home
  <2>3. QED
    BY <2>1, <2>2, UnderOne
<1>5. CASE h = "cline"
  <2> DEFINE a == <<"Code", "User", "globalStorage", "saoudrizwan.claude-dev",
                    "settings", "cline_mcp_settings.json">>
  <2>1. data \o a \in OwnPaths(h)
    <3>1. data \o a \in Seq(Name) /\ OwnPath("cline", data \o a)
      <4>1. /\ "Code" \in Name /\ "User" \in Name /\ "globalStorage" \in Name
            /\ "saoudrizwan.claude-dev" \in Name /\ "settings" \in Name
            /\ "cline_mcp_settings.json" \in Name
        BY NamesAre
      <4>2. /\ data \o a \in Seq(Name)
            /\ Last(data \o a) = "cline_mcp_settings.json"
        BY <1>1, <4>1, PathOfSix, SMTT(30)
      <4>3. QED
        BY <4>2 DEF OwnPath
    <3>2. QED
      BY <1>5, <3>1 DEF OwnPaths
  <2>2. UserPaths(h, system, env) = Under(data, <<a>>)
    BY <1>5 DEF UserPaths, data
  <2> HIDE DEF a
  <2>3. QED
    BY <2>1, <2>2, UnderOne
<1>6. CASE h = "vscode"
  <2>1. data \o <<"Code", "User", "mcp.json">> \in OwnPaths(h)
    <3>1. "Code" \in Name /\ "User" \in Name /\ "mcp.json" \in Name
      BY NamesAre
    <3>2. /\ data \o <<"Code", "User", "mcp.json">> \in Seq(Name)
          /\ Last(data \o <<"Code", "User", "mcp.json">>) = "mcp.json"
          /\ Dir(data \o <<"Code", "User", "mcp.json">>) = "User"
      BY <1>1, <3>1, PathOfThree
    <3>3. OwnPath("vscode", data \o <<"Code", "User", "mcp.json">>)
      BY <3>2 DEF OwnPath
    <3>4. QED
      BY <1>6, <3>2, <3>3 DEF OwnPaths
  <2>2. UserPaths(h, system, env) = Under(data, <<<<"Code", "User", "mcp.json">>>>)
    BY <1>6 DEF UserPaths, data
  <2>3. QED
    BY <2>1, <2>2, UnderOne
<1>7. CASE h = "zed"
  <2> DEFINE a == <<"Zed", "settings.json">>
             b == <<".config", "zed", "settings.json">>
  <2>1. local \o a \in OwnPaths(h) /\ home \o b \in OwnPaths(h)
    <3>1. local \o a \in Seq(Name) /\ OwnPath("zed", local \o a)
      <4>1. /\ "Zed" \in Name /\ "settings.json" \in Name
        BY NamesAre
      <4>2. /\ local \o a \in Seq(Name)
            /\ Last(local \o a) = "settings.json" /\ Dir(local \o a) = "Zed"
        BY <1>1, <4>1, PathOfTwo
      <4>3. QED
        BY <4>2 DEF OwnPath
    <3>2. home \o b \in Seq(Name) /\ OwnPath("zed", home \o b)
      <4>1. /\ ".config" \in Name /\ "zed" \in Name /\ "settings.json" \in Name
        BY NamesAre
      <4>2. /\ home \o b \in Seq(Name)
            /\ Last(home \o b) = "settings.json" /\ Dir(home \o b) = "zed"
        BY <1>1, <4>1, PathOfThree
      <4>3. QED
        BY <4>2 DEF OwnPath
    <3>3. QED
      BY <1>7, <3>1, <3>2 DEF OwnPaths
  <2>2. UserPaths(h, system, env) \in {Under(local, <<a>>), Under(home, <<b>>)}
    BY <1>7 DEF UserPaths, ZedDir, home, local
  <2> HIDE DEF a, b
  <2>3. QED
    BY <2>1, <2>2, UnderOne
<1>8. CASE h = "continue"
  <2>1. home \o <<".continue", "config.yaml">> \in OwnPaths(h)
    <3>1. ".continue" \in Name /\ "config.yaml" \in Name
      BY NamesAre
    <3>2. /\ home \o <<".continue", "config.yaml">> \in Seq(Name)
          /\ Last(home \o <<".continue", "config.yaml">>) = "config.yaml"
          /\ Dir(home \o <<".continue", "config.yaml">>) = ".continue"
      BY <1>1, <3>1, PathOfTwo
    <3>3. OwnPath("continue", home \o <<".continue", "config.yaml">>)
      BY <3>2 DEF OwnPath
    <3>4. QED
      BY <1>8, <3>2, <3>3 DEF OwnPaths
  <2>2. UserPaths(h, system, env) = Under(home, <<<<".continue", "config.yaml">>>>)
    BY <1>8 DEF UserPaths, home
  <2>3. QED
    BY <2>1, <2>2, UnderOne
<1>9. QED
  BY <1>2, <1>3, <1>4, <1>5, <1>6, <1>7, <1>8 DEF Host

LEMMA ProjectPathsAreOwn ==
  ASSUME NEW root \in Seq(Name), NEW h \in Host
  PROVE  ProjectPaths(h, root) \in Seq(OwnPaths(h))
<1>1. root \in Seq(Name) /\ \A S : \A x \in S : <<x>> \in Seq(S)
  OBVIOUS
<1>2. CASE h = "claude"
  <2>1. root \o <<".mcp.json">> \in OwnPaths(h)
    <3>1. ".mcp.json" \in Name
      BY NamesAre
    <3>2. /\ root \o <<".mcp.json">> \in Seq(Name)
          /\ Last(root \o <<".mcp.json">>) = ".mcp.json"
      BY <1>1, <3>1, PathOfOne
    <3>3. OwnPath("claude", root \o <<".mcp.json">>)
      BY <3>2 DEF OwnPath
    <3>4. QED
      BY <1>2, <3>2, <3>3 DEF OwnPaths
  <2>2. QED
    BY <1>1, <1>2, <2>1 DEF ProjectPaths
<1>3. CASE h = "cursor"
  <2>1. root \o <<".cursor", "mcp.json">> \in OwnPaths(h)
    <3>1. ".cursor" \in Name /\ "mcp.json" \in Name
      BY NamesAre
    <3>2. /\ root \o <<".cursor", "mcp.json">> \in Seq(Name)
          /\ Last(root \o <<".cursor", "mcp.json">>) = "mcp.json"
          /\ Dir(root \o <<".cursor", "mcp.json">>) = ".cursor"
      BY <1>1, <3>1, PathOfTwo
    <3>3. OwnPath("cursor", root \o <<".cursor", "mcp.json">>)
      BY <3>2 DEF OwnPath
    <3>4. QED
      BY <1>3, <3>2, <3>3 DEF OwnPaths
  <2>2. QED
    BY <1>1, <1>3, <2>1 DEF ProjectPaths
<1>4. CASE h = "vscode"
  <2>1. root \o <<".vscode", "mcp.json">> \in OwnPaths(h)
    <3>1. ".vscode" \in Name /\ "mcp.json" \in Name
      BY NamesAre
    <3>2. /\ root \o <<".vscode", "mcp.json">> \in Seq(Name)
          /\ Last(root \o <<".vscode", "mcp.json">>) = "mcp.json"
          /\ Dir(root \o <<".vscode", "mcp.json">>) = ".vscode"
      BY <1>1, <3>1, PathOfTwo
    <3>3. OwnPath("vscode", root \o <<".vscode", "mcp.json">>)
      BY <3>2 DEF OwnPath
    <3>4. QED
      BY <1>4, <3>2, <3>3 DEF OwnPaths
  <2>2. QED
    BY <1>1, <1>4, <2>1 DEF ProjectPaths
<1>5. CASE h = "zed"
  <2>1. root \o <<".zed", "settings.json">> \in OwnPaths(h)
    <3>1. ".zed" \in Name /\ "settings.json" \in Name
      BY NamesAre
    <3>2. /\ root \o <<".zed", "settings.json">> \in Seq(Name)
          /\ Last(root \o <<".zed", "settings.json">>) = "settings.json"
          /\ Dir(root \o <<".zed", "settings.json">>) = ".zed"
      BY <1>1, <3>1, PathOfTwo
    <3>3. OwnPath("zed", root \o <<".zed", "settings.json">>)
      BY <3>2 DEF OwnPath
    <3>4. QED
      BY <1>5, <3>2, <3>3 DEF OwnPaths
  <2>2. QED
    BY <1>1, <1>5, <2>1 DEF ProjectPaths
<1>6. CASE h = "continue"
  <2>1. root \o <<".continue", "config.yaml">> \in OwnPaths(h)
    <3>1. ".continue" \in Name /\ "config.yaml" \in Name
      BY NamesAre
    <3>2. /\ root \o <<".continue", "config.yaml">> \in Seq(Name)
          /\ Last(root \o <<".continue", "config.yaml">>) = "config.yaml"
          /\ Dir(root \o <<".continue", "config.yaml">>) = ".continue"
      BY <1>1, <3>1, PathOfTwo
    <3>3. OwnPath("continue", root \o <<".continue", "config.yaml">>)
      BY <3>2 DEF OwnPath
    <3>4. QED
      BY <1>6, <3>2, <3>3 DEF OwnPaths
  <2>2. QED
    BY <1>1, <1>6, <2>1 DEF ProjectPaths
<1>7. CASE h \in {"windsurf", "cline"}
  <2>1. << >> \in Seq(OwnPaths(h))
    OBVIOUS
  <2>2. QED
    BY <1>7, <2>1 DEF ProjectPaths
<1>8. QED
  BY <1>2, <1>3, <1>4, <1>5, <1>6, <1>7 DEF Host

LEMMA VisitsAreOwn ==
  ASSUME NEW h \in Host, NEW paths \in Seq(OwnPaths(h))
  PROVE  Visits(h, paths) \in Seq(OwnVisits)
<1>1. DOMAIN paths = 1 .. Len(paths) /\ Len(paths) \in Nat
      /\ \A i \in 1 .. Len(paths) : paths[i] \in OwnPaths(h)
  OBVIOUS
<1>2. \A i \in 1 .. Len(paths) : [host |-> h, path |-> paths[i]] \in OwnVisits
  BY <1>1 DEF OwnPaths, OwnVisits, Visit
<1>3. QED
  BY <1>1, <1>2 DEF Visits

LEMMA TourIsOwn ==
  ASSUME NEW system, NEW env, EnvOK(env), NEW roots \in Seq(Seq(Name))
  PROVE  Tour(system, env, roots) \in Seq(OwnVisits)
<1> DEFINE user == [h \in DOMAIN Hosts |-> Visits(Hosts[h], UserPaths(Hosts[h], system, env))]
           of(root) == [h \in DOMAIN Hosts |-> Visits(Hosts[h], ProjectPaths(Hosts[h], root))]
           projects == [r \in DOMAIN roots |-> FlattenSeq(of(roots[r]))]
<1>1. DOMAIN Hosts = 1 .. 7 /\ \A h \in 1 .. 7 : Hosts[h] \in Host
  BY DEF Hosts, Host
<1>2. FlattenSeq(user) \in Seq(OwnVisits)
  <2>1. \A h \in 1 .. 7 : Visits(Hosts[h], UserPaths(Hosts[h], system, env)) \in Seq(OwnVisits)
    BY <1>1, UserPathsAreOwn, VisitsAreOwn
  <2>2. user \in Seq(Seq(OwnVisits))
    BY <1>1, <2>1
  <2>3. QED
    BY <2>2, FlattenHas
<1>3. ASSUME NEW root \in Seq(Name) PROVE FlattenSeq(of(root)) \in Seq(OwnVisits)
  <2>1. \A h \in 1 .. 7 : Visits(Hosts[h], ProjectPaths(Hosts[h], root)) \in Seq(OwnVisits)
    BY <1>1, ProjectPathsAreOwn, VisitsAreOwn
  <2>2. of(root) \in Seq(Seq(OwnVisits))
    BY <1>1, <2>1
  <2>3. QED
    BY <2>2, FlattenHas
<1>4. FlattenSeq(projects) \in Seq(OwnVisits)
  <2>1. DOMAIN roots = 1 .. Len(roots) /\ Len(roots) \in Nat
        /\ \A r \in 1 .. Len(roots) : roots[r] \in Seq(Name)
    OBVIOUS
  <2>2. \A r \in 1 .. Len(roots) : FlattenSeq(of(roots[r])) \in Seq(OwnVisits)
    BY <1>3, <2>1
  <2>3. projects \in Seq(Seq(OwnVisits))
    <3> HIDE DEF of
    <3>1. QED
      BY <2>1, <2>2
  <2>4. QED
    <3> HIDE DEF projects
    <3>1. QED
      BY <2>3, FlattenHas
<1>5. Tour(system, env, roots) = FlattenSeq(user) \o FlattenSeq(projects)
  BY DEF Tour
<1>6. QED
  <2> HIDE DEF user, projects
  <2>1. QED
    BY <1>2, <1>4, <1>5

----------------------------------------------------------------------------
(* The inductive invariant.                                                *)

(* A config is always read by the same host, and is on the tour.           *)
TourIsReal ==
  /\ tour \in Seq(Visit)
  /\ \A i, j \in 1 .. Len(tour) : tour[i].path = tour[j].path => tour[i].host = tour[j].host
  /\ \A p \in File : \E i \in 1 .. Len(tour) : tour[i].path = p

Found == {Findings(h, t) : h \in Host, t \in Text}

TypeOK ==
  /\ disk \in [File -> Text \cup {Absent}]
  /\ given \in [File -> Text \cup {Absent}]
  /\ DOMAIN removed = File /\ DOMAIN backup = File
  /\ touched \subseteq File
  /\ pc \in {"scan", "discover", "fix", "apply", "done", "failed"}
  /\ at \in Nat /\ at >= 1
  /\ queue \in Seq(File)
  /\ report \in Seq([path : Seq(Name), found : Found])
  /\ pc = "apply" => plan.text \in Text

(* What the command does to a config that nobody else changes.             *)
Contents ==
  \A p \in Untouched :
    /\ disk[p] \in {given[p], Rewritten(given[p])}
    /\ disk[p] # given[p] => backup[p] = given[p]

(* A plan is about the config at the head of the queue, as it is.          *)
Planned ==
  pc = "apply" =>
    /\ queue # << >>
    /\ Head(queue) \in Untouched =>
         /\ plan.edits = Edits(disk[Head(queue)])
         /\ plan.text = Rewritten(disk[Head(queue)])
         /\ Hits(Edits(disk[Head(queue)])) # {}

(* The queue is in the order of the tour, and has what is still to be done *)
QueueInOrder ==
  \A p, q \in Untouched : \A i, j \in 1 .. Len(queue) :
    i < j /\ queue[i] = p /\ queue[j] = q => Position(p) < Position(q)

QueueIsComplete ==
  /\ pc \in {"scan", "done"} => queue = << >>
  /\ pc = "discover" => \A p \in Untouched : Position(p) < at <=> p \in ToSet(queue)
  /\ pc \in {"fix", "apply", "done"} =>
       \A p \in Untouched : p \in ToSet(queue) \/ Hits(Edits(disk[p])) = {}

(* What this run removed it removed from what the user wrote.              *)
RemovedOnce ==
  \A p \in Untouched : removed[p] # NoEdits =>
    /\ disk[p] = Rewritten(given[p]) /\ removed[p] = Edits(given[p])
    /\ p \notin ToSet(queue)
    /\ pc \notin {"scan", "discover"}

(* The report is about the configs as they were before this run.           *)
Before(p) == IF removed[p] = NoEdits THEN disk[p] ELSE given[p]

ReportIsTrue ==
  /\ \A p \in Untouched : \A k \in 1 .. Len(report) :
       report[k].path = p => report[k].found = Findings(HostOf(p), Before(p))
  /\ \A p \in Untouched :
       (pc = "scan" /\ Position(p) < at) \/ pc \in {"discover", "fix", "apply", "done"}
         => \E k \in 1 .. Len(report) : report[k].path = p

NoGapAtAll ==
  \A p, q \in Untouched :
    Position(p) < Position(q) /\ disk[q] # given[q] => Hits(Edits(disk[p])) = {}

StatusIsTrue ==
  exit = 0 => pc = "done" /\ \A p \in Untouched : ~Blocks(Findings(HostOf(p), disk[p]))

CommandInv ==
  /\ TourIsReal /\ TypeOK /\ Contents /\ Planned /\ QueueInOrder /\ QueueIsComplete
  /\ RemovedOnce /\ ReportIsTrue /\ NoGapAtAll /\ StatusIsTrue
----------------------------------------------------------------------------
(* The place of a config in the tour.                                      *)

LEMMA SamePlace ==
  ASSUME UNCHANGED tour
  PROVE  \A p : Position(p)' = Position(p) /\ HostOf(p)' = HostOf(p)
BY DEF Position, HostOf, SelectInSeq

LEMMA PlaceOf ==
  ASSUME TourIsReal, NEW p \in File
  PROVE  /\ Position(p) \in 1 .. Len(tour) /\ Len(tour) \in Nat
         /\ tour[Position(p)].path = p
         /\ HostOf(p) \in Host
         /\ \A i \in 1 .. Len(tour) :
              tour[i].path = p => Position(p) <= i /\ tour[i].host = HostOf(p)
<1> DEFINE I == {i \in 1 .. Len(tour) : tour[i].path = p}
<1>1. I # {} /\ I \in SUBSET Nat /\ Len(tour) \in Nat
  BY DEF TourIsReal
<1>2. PICK x \in I : \A y \in I : x <= y
  <2> HIDE DEF I
  <2>1. QED
    BY <1>1, LeastElement
<1>3. Position(p) = Min(I)
  BY <1>1 DEF Position, SelectInSeq
<1>4. Min(I) \in I /\ \A y \in I : Min(I) <= y
  <2> HIDE DEF I
  <2>1. QED
    BY <1>2 DEF Min
<1>5. Position(p) \in 1 .. Len(tour) /\ tour[Position(p)].path = p
  BY <1>3, <1>4
<1>6. tour[Position(p)].host \in Host
  <2>1. \A i \in 1 .. Len(tour) : tour[i] \in Visit
    BY DEF TourIsReal
  <2>2. tour[Position(p)] \in Visit
    BY <1>5, <2>1
  <2>3. QED
    BY <2>2 DEF Visit
<1>7. ASSUME NEW i \in 1 .. Len(tour), tour[i].path = p
      PROVE  Position(p) <= i /\ tour[i].host = HostOf(p)
  <2>1. i \in I
    BY <1>7
  <2>2. Position(p) <= i
    BY <1>3, <1>4, <2>1
  <2>3. tour[i].host = tour[Position(p)].host
    BY <1>5, <1>7 DEF TourIsReal
  <2>4. QED
    BY <2>2, <2>3 DEF HostOf
<1>8. QED
  BY <1>1, <1>5, <1>6, <1>7 DEF HostOf

(* The configs a machine begins with are on its tour.                      *)
LEMMA BeginIsReal ==
  ASSUME NEW m \in Begin, tour = Tour(m.system, m.env, m.roots), disk = m.disk
  PROVE  TourIsReal /\ disk \in [File -> Text \cup {Absent}]
<1>1. /\ EnvOK(m.env) /\ m.roots \in Seq(Seq(STRING))
      /\ m.disk \in [DOMAIN m.disk -> Text \cup {Absent}]
      /\ DOMAIN m.disk \subseteq {v.path : v \in ToSet(Tour(m.system, m.env, m.roots))}
  BY CommandAssumption DEF EnvOK
<1>2. m.roots \in Seq(Seq(Name))
  <2>1. \A s \in Seq(STRING) : s \in Seq(Name)
    BY DEF Name
  <2>2. QED
    BY <1>1, <2>1
<1>3. tour \in Seq(OwnVisits)
  BY <1>1, <1>2, TourIsOwn
<1>4. tour \in Seq(Visit)
  BY <1>3 DEF OwnVisits
<1>5. \A i \in 1 .. Len(tour) : tour[i] \in OwnVisits
  BY <1>3
<1>6. ASSUME NEW i \in 1 .. Len(tour), NEW j \in 1 .. Len(tour), tour[i].path = tour[j].path
      PROVE  tour[i].host = tour[j].host
  <2>1. OwnPath(tour[i].host, tour[i].path) /\ OwnPath(tour[j].host, tour[j].path)
    BY <1>5 DEF OwnVisits
  <2>2. QED
    BY <1>6, <2>1, OneOwner
<1>7. ASSUME NEW p \in File PROVE \E i \in 1 .. Len(tour) : tour[i].path = p
  <2>1. p \in {v.path : v \in ToSet(tour)}
    BY <1>1 DEF File
  <2>2. PICK v \in ToSet(tour) : v.path = p
    BY <2>1
  <2>3. DOMAIN tour = 1 .. Len(tour)
    BY <1>3
  <2>4. QED
    BY <2>2, <2>3 DEF ToSet
<1>8. QED
  BY <1>1, <1>4, <1>6, <1>7 DEF TourIsReal, File

----------------------------------------------------------------------------
(* The invariant holds at the beginning ...                                *)

LEMMA InitInv == Init => CommandInv
<1> SUFFICES ASSUME Init PROVE CommandInv
  OBVIOUS
<1>1. TourIsReal /\ disk \in [File -> Text \cup {Absent}]
  BY BeginIsReal DEF Init
<1>2. /\ given = disk /\ touched = {} /\ pc = "scan" /\ at = 1 /\ report = << >> /\ queue = << >>
      /\ removed = [p \in File |-> NoEdits] /\ backup = [p \in File |-> Absent] /\ exit = -1
  BY DEF Init
<1>3. /\ << >> \in Seq(File) /\ << >> \in Seq([path : Seq(Name), found : Found])
      /\ Len(<< >>) = 0
  OBVIOUS
<1>4. TypeOK
  BY <1>1, <1>2, <1>3 DEF TypeOK
<1>5. Contents /\ RemovedOnce /\ NoGapAtAll
  BY <1>2 DEF Contents, RemovedOnce, NoGapAtAll, Untouched
<1>6. Planned /\ StatusIsTrue
  BY <1>2 DEF Planned, StatusIsTrue
<1>7. QueueInOrder /\ QueueIsComplete
  BY <1>2, <1>3 DEF QueueInOrder, QueueIsComplete
<1>8. ReportIsTrue
  <2>1. \A p \in Untouched : ~ (Position(p) < at)
    BY <1>1, <1>2, PlaceOf DEF Untouched
  <2>2. QED
    BY <1>2, <1>3, <2>1 DEF ReportIsTrue
<1>9. QED
  BY <1>1, <1>4, <1>5, <1>6, <1>7, <1>8 DEF CommandInv

----------------------------------------------------------------------------
(* ... and every step keeps it.                                            *)

(* The configs, the tour and what the users wrote stay.                    *)
LEMMA Frame ==
  ASSUME CommandInv, Next
  PROVE  /\ File' = File /\ tour' = tour /\ given' = given
         /\ TourIsReal'
         /\ \A p : Position(p)' = Position(p) /\ HostOf(p)' = HostOf(p)
<1>1. tour' = tour /\ given' = given
  BY DEF Next, Touch, Scan, Discover, Plan, Apply, ApplyFails, Finish, RunAgain
<1>2. File' = File
  <2>1. CASE Touch
    BY <2>1 DEF Touch, File, CommandInv, TypeOK
  <2>2. CASE Apply
    BY <2>2 DEF Apply, File, CommandInv, TypeOK
  <2>3. CASE ~Touch /\ ~Apply
    <3>1. disk' = disk
      BY <2>3 DEF Next, Scan, Discover, Plan, ApplyFails, Finish, RunAgain
    <3>2. QED
      BY <3>1 DEF File
  <2>4. QED
    BY <2>1, <2>2, <2>3
<1>3. TourIsReal'
  BY <1>1, <1>2 DEF CommandInv, TourIsReal
<1>4. QED
  BY <1>1, <1>2, <1>3, SamePlace

(* A config nobody touched is there.                                       *)
LEMMA UntouchedIsText ==
  ASSUME TypeOK, Contents, NEW p \in Untouched
  PROVE  /\ p \in File /\ p \notin touched
         /\ given[p] \in Text /\ disk[p] \in Text /\ disk[p] # Absent
<1>1. p \in File /\ p \notin touched /\ given[p] \in Text
  BY DEF Untouched, TypeOK
<1>2. disk[p] \in Text
  BY <1>1, RewrittenIsText DEF Contents
<1>3. QED
  BY <1>1, <1>2, CommandAssumption

(* A user changes a config: from now on only that one is different.        *)
LEMMA TouchStep == ASSUME CommandInv, Touch PROVE CommandInv'
<1>1. PICK p0 \in (File \cap Volatile) \ touched :
        \E v \in Versions : /\ disk' = [disk EXCEPT ![p0] = v]
                            /\ touched' = touched \cup {p0}
  BY DEF Touch
<1>2. PICK v \in Versions : /\ disk' = [disk EXCEPT ![p0] = v]
                            /\ touched' = touched \cup {p0}
  BY <1>1
<1>3. /\ pc \notin {"done", "failed"}
      /\ UNCHANGED <<tour, given, pc, at, report, queue, plan, removed, backup, exit, run>>
  BY DEF Touch
<1>4. /\ File' = File /\ TourIsReal'
      /\ \A p : Position(p)' = Position(p) /\ HostOf(p)' = HostOf(p)
  BY Frame DEF Next
<1>5. /\ TypeOK /\ Contents /\ Planned /\ QueueInOrder /\ QueueIsComplete
      /\ RemovedOnce /\ ReportIsTrue /\ NoGapAtAll /\ StatusIsTrue
  BY DEF CommandInv
<1>6. TypeOK'
  <2>1. v \in Text \cup {Absent}
    BY CommandAssumption
  <2>2. disk' \in [File -> Text \cup {Absent}] /\ touched' \subseteq File
    BY <1>2, <1>5, <2>1 DEF TypeOK
  <2>3. QED
    BY <1>3, <1>4, <1>5, <2>2 DEF TypeOK
<1>7. \A p \in Untouched' : p \in Untouched /\ disk'[p] = disk[p]
  BY <1>2, <1>3, <1>4, <1>5 DEF Untouched, TypeOK
<1>8. Contents'
  BY <1>3, <1>5, <1>7 DEF Contents
<1>9. Planned'
  BY <1>3, <1>5, <1>7 DEF Planned
<1>10. QueueInOrder' /\ QueueIsComplete'
  <2>1. QueueInOrder'
    BY <1>3, <1>4, <1>5, <1>7 DEF QueueInOrder
  <2>2. QueueIsComplete'
    BY <1>3, <1>4, <1>5, <1>7 DEF QueueIsComplete
  <2>3. QED
    BY <2>1, <2>2
<1>11. RemovedOnce'
  BY <1>3, <1>5, <1>7 DEF RemovedOnce
<1>12. ReportIsTrue'
  <2>1. \A p \in Untouched' : Before(p)' = Before(p)
    BY <1>3, <1>7 DEF Before
  <2>2. QED
    BY <1>3, <1>4, <1>5, <1>7, <2>1 DEF ReportIsTrue
<1>13. NoGapAtAll'
  BY <1>3, <1>4, <1>5, <1>7 DEF NoGapAtAll
<1>14. StatusIsTrue'
  BY <1>3, <1>5 DEF StatusIsTrue
<1>15. QED
  BY <1>4, <1>6, <1>8, <1>9, <1>10, <1>11, <1>12, <1>13, <1>14 DEF CommandInv

(* The scan reads a config it comes to for the first time.                 *)
LEMMA ScanStep == ASSUME CommandInv, Scan PROVE CommandInv'
<1>1. /\ pc = "scan"
      /\ UNCHANGED <<tour, disk, given, touched, queue, plan, removed, backup, exit, run>>
  BY DEF Scan
<1>2. /\ File' = File /\ TourIsReal'
      /\ \A p : Position(p)' = Position(p) /\ HostOf(p)' = HostOf(p)
  BY Frame DEF Next
<1>3. /\ TourIsReal /\ TypeOK /\ Contents /\ Planned /\ QueueInOrder /\ QueueIsComplete
      /\ RemovedOnce /\ ReportIsTrue /\ NoGapAtAll /\ StatusIsTrue
  BY DEF CommandInv
<1>4. Untouched' = Untouched
  BY <1>1, <1>2 DEF Untouched
<1>5. pc' \in {"scan", "discover"} /\ queue' = << >> /\ exit # 0
  BY <1>1, <1>3 DEF Scan, QueueIsComplete, StatusIsTrue
<1>6. Contents' /\ NoGapAtAll'
  BY <1>1, <1>2, <1>3, <1>4 DEF Contents, NoGapAtAll
<1>7. Planned' /\ StatusIsTrue'
  BY <1>1, <1>5 DEF Planned, StatusIsTrue
<1>8. QueueInOrder'
  BY <1>1, <1>2, <1>3, <1>4 DEF QueueInOrder
<1>9. RemovedOnce'
  BY <1>1, <1>3, <1>4, <1>5 DEF RemovedOnce
<1>10. \A p \in Untouched : removed[p] = NoEdits
  BY <1>1, <1>3 DEF RemovedOnce
<1>11. \A p \in Untouched : Before(p) = disk[p] /\ Before(p)' = disk[p]
  BY <1>1, <1>10 DEF Before
<1>12. Len(tour) \in Nat /\ at \in Nat /\ at >= 1 /\ Len(report) \in Nat
  BY <1>3 DEF TourIsReal, TypeOK
<1>13. CASE at > Len(tour)
  <2>1. pc' = "discover" /\ at' = 1 /\ report' = report
    BY <1>12, <1>13 DEF Scan
  <2>2. TypeOK'
    BY <1>1, <1>2, <1>3, <2>1 DEF TypeOK
  <2>3. \A p \in Untouched : Position(p) < at /\ ~ (Position(p) < 1)
    <3>1. \A p \in Untouched : p \in File
      BY DEF Untouched
    <3>2. QED
      BY <1>3, <1>12, <1>13, <3>1, PlaceOf
  <2>4. QueueIsComplete'
    <3>1. \A p \in Untouched : ~ (Position(p)' < at') /\ p \notin ToSet(queue')
      BY <1>2, <1>5, <2>1, <2>3, NothingHas
    <3>2. QED
      BY <1>4, <1>5, <2>1, <3>1 DEF QueueIsComplete
  <2>5. ReportIsTrue'
    BY <1>1, <1>2, <1>3, <1>4, <1>11, <2>1, <2>3 DEF ReportIsTrue
  <2>6. QED
    BY <1>2, <1>6, <1>7, <1>8, <1>9, <2>2, <2>4, <2>5 DEF CommandInv
<1>14. CASE at <= Len(tour)
  <2> DEFINE visit == tour[at]
             text == ContentAt(visit.path)
             row == [path |-> visit.path, found |-> Findings(visit.host, text)]
  <2>1. /\ pc' = "scan" /\ at' = at + 1
        /\ report' = IF text = Absent THEN report ELSE Append(report, row)
    BY <1>1, <1>12, <1>14 DEF Scan
  <2>2. at \in 1 .. Len(tour) /\ visit.host \in Host /\ visit.path \in Seq(Name)
    <3>1. \A i \in 1 .. Len(tour) : tour[i] \in Visit
      BY <1>3 DEF TourIsReal
    <3>2. at \in 1 .. Len(tour)
      BY <1>12, <1>14
    <3>3. QED
      BY <3>1, <3>2 DEF Visit
  <2>3. text \in Text \cup {Absent}
    BY <1>3 DEF ContentAt, TypeOK
  <2>4. \A p \in Untouched :
          /\ visit.path = p => text = disk[p] /\ text # Absent /\ visit.host = HostOf(p)
          /\ Position(p) < at + 1 /\ visit.path # p => Position(p) < at
    <3>1. ASSUME NEW p \in Untouched
          PROVE  /\ visit.path = p => text = disk[p] /\ text # Absent /\ visit.host = HostOf(p)
                 /\ Position(p) < at + 1 /\ visit.path # p => Position(p) < at
      <4>1. p \in File /\ disk[p] # Absent
        BY <1>3, UntouchedIsText
      <4>2. visit.path = p => text = disk[p]
        BY <4>1 DEF ContentAt
      <4>3. /\ Position(p) \in 1 .. Len(tour) /\ tour[Position(p)].path = p
            /\ visit.path = p => visit.host = HostOf(p)
        BY <1>3, <2>2, <4>1, PlaceOf
      <4>4. visit.path # p => Position(p) # at
        BY <4>3
      <4>5. QED
        BY <1>12, <4>1, <4>2, <4>3, <4>4
    <3>2. QED
      BY <3>1
  <2> HIDE DEF visit, text
  <2>5. text # Absent => row \in [path : Seq(Name), found : Found]
    BY <2>2, <2>3 DEF Found
  <2>6. report' \in Seq([path : Seq(Name), found : Found])
    <3>1. report \in Seq([path : Seq(Name), found : Found])
      BY <1>3 DEF TypeOK
    <3> DEFINE S == [path : Seq(Name), found : Found]
    <3>2. report \in Seq(S) /\ (text # Absent => row \in S)
      BY <2>5, <3>1
    <3> HIDE DEF row, S
    <3>3. report' \in Seq(S)
      BY <2>1, <3>2
    <3>4. QED
      BY <3>3 DEF S
  <2>7. TypeOK'
    BY <1>1, <1>2, <1>3, <1>12, <2>1, <2>6 DEF TypeOK
  <2>8. QueueIsComplete'
    BY <1>5, <2>1 DEF QueueIsComplete
  <2>9. /\ \A k \in 1 .. Len(report') :
             \/ k \in 1 .. Len(report) /\ report'[k] = report[k]
             \/ text # Absent /\ report'[k] = row
        /\ \A k \in 1 .. Len(report) : k \in 1 .. Len(report') /\ report'[k] = report[k]
        /\ text # Absent => \E k \in 1 .. Len(report') : report'[k] = row
    <3>1. CASE text = Absent
      BY <2>1, <3>1
    <3>2. CASE text # Absent
      <4>1. report \in Seq([path : Seq(Name), found : Found]) /\ report' = Append(report, row)
        BY <1>3, <2>1, <3>2 DEF TypeOK
      <4> HIDE DEF row
      <4>2. Len(report') = Len(report) + 1 /\ report'[Len(report) + 1] = row
            /\ \A k \in 1 .. Len(report) : report'[k] = report[k]
        BY <4>1
      <4>3. QED
        BY <1>12, <3>2, <4>2
    <3>3. QED
      BY <3>1, <3>2
  <2>10. row.path = visit.path /\ row.found = Findings(visit.host, text)
    OBVIOUS
  <2> HIDE DEF row
  <2>11. ASSUME NEW p \in Untouched, NEW k \in 1 .. Len(report'), report'[k].path = p
         PROVE  report'[k].found = Findings(HostOf(p), disk[p])
    <3>1. CASE k \in 1 .. Len(report) /\ report'[k] = report[k]
      BY <1>3, <1>11, <2>11, <3>1 DEF ReportIsTrue
    <3>2. CASE text # Absent /\ report'[k] = row
      BY <2>4, <2>10, <2>11, <3>2
    <3>3. QED
      BY <2>9, <3>1, <3>2
  <2>12. ASSUME NEW p \in Untouched, Position(p) < at + 1
         PROVE  \E k \in 1 .. Len(report') : report'[k].path = p
    <3>1. CASE visit.path = p
      BY <2>4, <2>9, <2>10, <3>1
    <3>2. CASE visit.path # p
      <4>1. Position(p) < at
        BY <2>4, <2>12, <3>2
      <4>2. PICK k \in 1 .. Len(report) : report[k].path = p
        BY <1>1, <1>3, <4>1 DEF ReportIsTrue
      <4>3. QED
        BY <2>9, <4>2
    <3>3. QED
      BY <3>1, <3>2
  <2>13. ReportIsTrue'
    BY <1>2, <1>4, <1>11, <2>1, <2>11, <2>12 DEF ReportIsTrue
  <2>14. QED
    BY <1>2, <1>6, <1>7, <1>8, <1>9, <2>7, <2>8, <2>13 DEF CommandInv
<1>15. QED
  BY <1>12, <1>13, <1>14

(* A discovered config joins the queue, the last in the tour's order.      *)
LEMMA DiscoverStep == ASSUME CommandInv, Discover PROVE CommandInv'
<1>1. /\ pc = "discover"
      /\ UNCHANGED <<tour, disk, given, touched, report, plan, removed, backup, exit, run>>
  BY DEF Discover
<1>2. /\ File' = File /\ TourIsReal'
      /\ \A p : Position(p)' = Position(p) /\ HostOf(p)' = HostOf(p)
  BY Frame DEF Next
<1>3. /\ TourIsReal /\ TypeOK /\ Contents /\ Planned /\ QueueInOrder /\ QueueIsComplete
      /\ RemovedOnce /\ ReportIsTrue /\ NoGapAtAll /\ StatusIsTrue
  BY DEF CommandInv
<1>4. Untouched' = Untouched
  BY <1>1, <1>2 DEF Untouched
<1>5. pc' \in {"discover", "fix"} /\ exit # 0
  BY <1>1, <1>3 DEF Discover, StatusIsTrue
<1>6. Contents' /\ NoGapAtAll'
  BY <1>1, <1>2, <1>3, <1>4 DEF Contents, NoGapAtAll
<1>7. Planned' /\ StatusIsTrue'
  BY <1>1, <1>5 DEF Planned, StatusIsTrue
<1>8. \A p \in Untouched : removed[p] = NoEdits
  BY <1>1, <1>3 DEF RemovedOnce
<1>9. RemovedOnce'
  BY <1>1, <1>4, <1>8 DEF RemovedOnce
<1>10. ReportIsTrue'
  <2>1. \A p \in Untouched : Before(p)' = Before(p)
    BY <1>1 DEF Before
  <2>2. QED
    BY <1>1, <1>2, <1>3, <1>4, <1>5, <2>1 DEF ReportIsTrue
<1>11. Len(tour) \in Nat /\ at \in Nat /\ at >= 1 /\ queue \in Seq(File) /\ Len(queue) \in Nat
  BY <1>3 DEF TourIsReal, TypeOK
<1>12. CASE at > Len(tour)
  <2>1. pc' = "fix" /\ at' = at /\ queue' = queue
    BY <1>11, <1>12 DEF Discover
  <2>2. TypeOK'
    BY <1>1, <1>2, <1>3, <2>1 DEF TypeOK
  <2>3. QueueInOrder'
    BY <1>2, <1>3, <1>4, <2>1 DEF QueueInOrder
  <2>4. \A p \in Untouched : p \in ToSet(queue)
    <3>1. \A p \in Untouched : p \in File
      BY DEF Untouched
    <3>2. \A p \in Untouched : Position(p) < at
      BY <1>3, <1>11, <1>12, <3>1, PlaceOf
    <3>3. QED
      BY <1>1, <1>3, <3>2 DEF QueueIsComplete
  <2>5. QueueIsComplete'
    BY <1>4, <2>1, <2>4 DEF QueueIsComplete
  <2>6. QED
    BY <1>2, <1>6, <1>7, <1>9, <1>10, <2>2, <2>3, <2>5 DEF CommandInv
<1>13. CASE at <= Len(tour)
  <2> DEFINE q == tour[at].path
  <2>1. /\ pc' = "discover" /\ at' = at + 1
        /\ queue' = IF ContentAt(q) = Absent \/ q \in ToSet(queue) THEN queue ELSE Append(queue, q)
    BY <1>1, <1>11, <1>13 DEF Discover
  <2>2. at \in 1 .. Len(tour)
    BY <1>11, <1>13
  <2>3. \A p \in Untouched : p \in ToSet(queue) <=> Position(p) < at
    BY <1>1, <1>3 DEF QueueIsComplete
  <2>4. \A p \in Untouched :
          /\ q = p => ContentAt(q) # Absent /\ Position(p) <= at
          /\ Position(p) = at => q = p
          /\ Position(p) \in Nat
    <3>1. ASSUME NEW p \in Untouched
          PROVE  /\ q = p => ContentAt(q) # Absent /\ Position(p) <= at
                 /\ Position(p) = at => q = p
                 /\ Position(p) \in Nat
      <4>1. p \in File /\ disk[p] # Absent
        BY <1>3, UntouchedIsText
      <4>2. q = p => ContentAt(q) # Absent
        BY <4>1 DEF ContentAt
      <4>3. /\ Position(p) \in 1 .. Len(tour) /\ tour[Position(p)].path = p
            /\ q = p => Position(p) <= at
        BY <1>3, <2>2, <4>1, PlaceOf
      <4>4. QED
        BY <1>11, <4>2, <4>3
    <3>2. QED
      BY <3>1
  <2> HIDE DEF q
  <2>5. CASE ContentAt(q) = Absent \/ q \in ToSet(queue)
    <3>1. queue' = queue
      BY <2>1, <2>5
    <3>2. TypeOK'
      BY <1>1, <1>2, <1>3, <1>11, <2>1, <3>1 DEF TypeOK
    <3>3. QueueInOrder'
      BY <1>2, <1>3, <1>4, <3>1 DEF QueueInOrder
    <3>4. \A p \in Untouched : p \in ToSet(queue) <=> Position(p) < at + 1
      BY <1>11, <2>3, <2>4, <2>5
    <3>5. QueueIsComplete'
      BY <1>2, <1>4, <2>1, <3>1, <3>4 DEF QueueIsComplete
    <3>6. QED
      BY <1>2, <1>6, <1>7, <1>9, <1>10, <3>2, <3>3, <3>5 DEF CommandInv
  <2>6. CASE ContentAt(q) # Absent /\ q \notin ToSet(queue)
    <3>1. queue' = Append(queue, q) /\ q \in File
      BY <2>1, <2>6 DEF ContentAt
    <3>2. /\ queue' \in Seq(File) /\ Len(queue') = Len(queue) + 1
          /\ queue'[Len(queue) + 1] = q
          /\ \A i \in 1 .. Len(queue) : queue'[i] = queue[i]
      BY <1>11, <3>1
    <3>3. ToSet(queue') = ToSet(queue) \cup {q}
      BY <1>11, <3>1, AppendHas
    <3>4. TypeOK'
      BY <1>1, <1>2, <1>3, <1>11, <2>1, <3>2 DEF TypeOK
    <3>5. \A p \in Untouched : p \in ToSet(queue') <=> Position(p) < at + 1
      BY <1>11, <2>3, <2>4, <2>6, <3>3
    <3>6. QueueIsComplete'
      BY <1>2, <1>4, <2>1, <3>5 DEF QueueIsComplete
    <3>7. ASSUME NEW p \in Untouched, NEW r \in Untouched,
                 NEW i \in 1 .. Len(queue'), NEW j \in 1 .. Len(queue'),
                 i < j, queue'[i] = p, queue'[j] = r
          PROVE  Position(p) < Position(r)
      <4>1. i \in 1 .. Len(queue) /\ queue[i] = p
        BY <1>11, <3>2, <3>7
      <4>2. CASE j \in 1 .. Len(queue)
        BY <1>3, <3>2, <3>7, <4>1, <4>2 DEF QueueInOrder
      <4>3. CASE j = Len(queue) + 1
        <5>1. p \in ToSet(queue)
          BY <1>11, <4>1, ValuesOf
        <5>2. r = q
          BY <3>2, <3>7, <4>3
        <5>3. Position(p) < at /\ ~ (Position(r) < at)
          BY <2>3, <2>6, <5>1, <5>2
        <5>4. QED
          BY <1>11, <2>4, <5>3
      <4>4. QED
        BY <1>11, <3>2, <4>2, <4>3
    <3>8. QueueInOrder'
      BY <1>2, <1>4, <3>7 DEF QueueInOrder
    <3>9. QED
      BY <1>2, <1>6, <1>7, <1>9, <1>10, <3>4, <3>6, <3>8 DEF CommandInv
  <2>7. QED
    BY <2>5, <2>6
<1>14. QED
  BY <1>11, <1>12, <1>13

(* A queue without its head is still in order.                             *)
LEMMA TailInOrder ==
  ASSUME QueueInOrder, queue \in Seq(File), queue # << >>
  PROVE  /\ \A p, q \in Untouched : \A i, j \in 1 .. Len(Tail(queue)) :
              i < j /\ Tail(queue)[i] = p /\ Tail(queue)[j] = q => Position(p) < Position(q)
         /\ Head(queue) \in Untouched =>
              \A p \in Untouched : p \in ToSet(Tail(queue)) => Position(Head(queue)) < Position(p)
<1>1. /\ Tail(queue) \in Seq(File) /\ Len(queue) \in Nat /\ Len(queue) >= 1
      /\ Len(Tail(queue)) = Len(queue) - 1 /\ Head(queue) = queue[1]
      /\ \A i \in 1 .. Len(Tail(queue)) : Tail(queue)[i] = queue[i + 1]
  BY TailHas
<1>2. ASSUME NEW p \in Untouched, NEW q \in Untouched,
             NEW i \in 1 .. Len(Tail(queue)), NEW j \in 1 .. Len(Tail(queue)),
             i < j, Tail(queue)[i] = p, Tail(queue)[j] = q
      PROVE  Position(p) < Position(q)
  <2>1. /\ i + 1 \in 1 .. Len(queue) /\ j + 1 \in 1 .. Len(queue) /\ i + 1 < j + 1
        /\ queue[i + 1] = p /\ queue[j + 1] = q
    BY <1>1, <1>2
  <2> DEFINE i1 == i + 1
             j1 == j + 1
  <2> HIDE DEF i1, j1
  <2>2. /\ i1 \in 1 .. Len(queue) /\ j1 \in 1 .. Len(queue) /\ i1 < j1
        /\ queue[i1] = p /\ queue[j1] = q
    BY <2>1 DEF i1, j1
  <2>3. QED
    BY <2>2 DEF QueueInOrder
<1>3. ASSUME Head(queue) \in Untouched, NEW p \in Untouched, p \in ToSet(Tail(queue))
      PROVE  Position(Head(queue)) < Position(p)
  <2>1. PICK j \in 1 .. Len(Tail(queue)) : Tail(queue)[j] = p
    <3>1. DOMAIN Tail(queue) = 1 .. Len(Tail(queue))
      BY <1>1
    <3>2. QED
      BY <1>3, <3>1 DEF ToSet
  <2>2. \E k \in 1 .. Len(queue) : 1 < k /\ queue[k] = p
    <3>1. j + 1 \in 1 .. Len(queue) /\ 1 < j + 1 /\ queue[j + 1] = p
      BY <1>1, <2>1
    <3>2. QED
      BY <3>1
  <2>3. 1 \in 1 .. Len(queue)
    BY <1>1
  <2>4. QED
    BY <1>1, <1>3, <2>2, <2>3 DEF QueueInOrder
<1>4. QED
  BY <1>2, <1>3

(* A plan is made, or there is nothing to do for the head of the queue.    *)
LEMMA PlanStep == ASSUME CommandInv, Plan PROVE CommandInv'
<1>1. /\ pc = "fix" /\ queue # << >>
      /\ UNCHANGED <<tour, disk, given, touched, at, report, removed, backup, exit, run>>
  BY DEF Plan
<1>2. /\ File' = File /\ TourIsReal'
      /\ \A p : Position(p)' = Position(p) /\ HostOf(p)' = HostOf(p)
  BY Frame DEF Next
<1>3. /\ TourIsReal /\ TypeOK /\ Contents /\ Planned /\ QueueInOrder /\ QueueIsComplete
      /\ RemovedOnce /\ ReportIsTrue /\ NoGapAtAll /\ StatusIsTrue
  BY DEF CommandInv
<1>4. Untouched' = Untouched
  BY <1>1, <1>2 DEF Untouched
<1>5. pc' \in {"fix", "apply"} /\ exit # 0
  BY <1>1, <1>3 DEF Plan, StatusIsTrue
<1>6. Contents' /\ NoGapAtAll'
  BY <1>1, <1>2, <1>3, <1>4 DEF Contents, NoGapAtAll
<1>7. StatusIsTrue'
  BY <1>1, <1>5 DEF StatusIsTrue
<1>8. ReportIsTrue'
  <2>1. \A p \in Untouched : Before(p)' = Before(p)
    BY <1>1 DEF Before
  <2>2. QED
    BY <1>1, <1>2, <1>3, <1>4, <1>5, <2>1 DEF ReportIsTrue
<1>9. queue \in Seq(File)
  BY <1>3 DEF TypeOK
<1> DEFINE p0 == Head(queue)
           text == ContentAt(p0)
<1>10. p0 \in File /\ text = disk[p0] /\ text \in Text \cup {Absent}
  <2>1. p0 \in File
    BY <1>1, <1>9, TailHas
  <2> HIDE DEF p0
  <2>2. QED
    BY <1>3, <2>1 DEF ContentAt, TypeOK
<1> HIDE DEF text
<1>11. CASE text = Absent \/ Hits(Edits(text)) = {}
  <2>1. queue' = Tail(queue) /\ pc' = "fix"
    BY <1>1, <1>11 DEF Plan, text
  <2>2. /\ Tail(queue) \in Seq(File) /\ ToSet(queue) = ToSet(Tail(queue)) \union {p0}
    BY <1>1, <1>9, TailHas
  <2>3. TypeOK'
    BY <1>1, <1>2, <1>3, <2>1, <2>2 DEF TypeOK
  <2>4. QueueInOrder'
    BY <1>1, <1>2, <1>3, <1>4, <1>9, <2>1, TailInOrder DEF QueueInOrder
  <2>5. QueueIsComplete'
    <3>1. ASSUME NEW p \in Untouched
          PROVE  p \in ToSet(queue') \/ Hits(Edits(disk'[p])) = {}
      <4>1. disk[p] # Absent /\ disk'[p] = disk[p]
        BY <1>1, <1>3, UntouchedIsText
      <4>2. p \in ToSet(queue) \/ Hits(Edits(disk[p])) = {}
        BY <1>1, <1>3 DEF QueueIsComplete
      <4>3. CASE p = p0
        BY <1>10, <1>11, <4>1, <4>3
      <4>4. CASE p # p0
        BY <2>1, <2>2, <4>1, <4>2, <4>4
      <4>5. QED
        BY <4>3, <4>4
    <3>2. QED
      BY <1>4, <2>1, <3>1 DEF QueueIsComplete
  <2>6. RemovedOnce'
    BY <1>1, <1>3, <1>4, <2>1, <2>2 DEF RemovedOnce
  <2>7. Planned'
    BY <2>1 DEF Planned
  <2>8. QED
    BY <1>2, <1>6, <1>7, <1>8, <2>3, <2>4, <2>5, <2>6, <2>7 DEF CommandInv
<1>12. CASE text # Absent /\ Hits(Edits(text)) # {}
  <2>1. /\ queue' = queue /\ pc' = "apply"
        /\ plan' = [edits |-> Edits(text), text |-> Rewritten(text)]
    BY <1>1, <1>12 DEF Plan, text
  <2>2. plan'.text \in Text
    BY <1>10, <1>12, <2>1, RewrittenIsText
  <2>3. TypeOK'
    BY <1>1, <1>2, <1>3, <2>1, <2>2 DEF TypeOK
  <2>4. QueueInOrder'
    BY <1>2, <1>3, <1>4, <2>1 DEF QueueInOrder
  <2>5. QueueIsComplete'
    BY <1>1, <1>2, <1>3, <1>4, <2>1 DEF QueueIsComplete
  <2>6. RemovedOnce'
    BY <1>1, <1>3, <1>4, <2>1 DEF RemovedOnce
  <2>7. Planned'
    BY <1>1, <1>4, <1>10, <1>12, <2>1 DEF Planned
  <2>8. QED
    BY <1>2, <1>6, <1>7, <1>8, <2>3, <2>4, <2>5, <2>6, <2>7 DEF CommandInv
<1>13. QED
  BY <1>11, <1>12

(* What a failing write leaves: a backup of what is there.                 *)
LEMMA ApplyFailsStep == ASSUME CommandInv, ApplyFails PROVE CommandInv'
<1>1. /\ pc = "apply" /\ pc' = "failed" /\ exit' = 1
      /\ backup' \in {backup, [backup EXCEPT ![Head(queue)] = disk[Head(queue)]]}
      /\ UNCHANGED <<tour, disk, given, touched, at, report, queue, plan, removed, run>>
  BY DEF ApplyFails
<1>2. /\ File' = File /\ TourIsReal'
      /\ \A p : Position(p)' = Position(p) /\ HostOf(p)' = HostOf(p)
  BY Frame DEF Next
<1>3. /\ TourIsReal /\ TypeOK /\ Contents /\ Planned /\ QueueInOrder /\ QueueIsComplete
      /\ RemovedOnce /\ ReportIsTrue /\ NoGapAtAll /\ StatusIsTrue
  BY DEF CommandInv
<1>4. Untouched' = Untouched
  BY <1>1, <1>2 DEF Untouched
<1>5. TypeOK'
  <2>1. DOMAIN backup' = File
    BY <1>1, <1>3 DEF TypeOK
  <2>2. QED
    BY <1>1, <1>2, <1>3, <2>1 DEF TypeOK
<1>6. Contents'
  <2>1. ASSUME NEW p \in Untouched, disk[p] # given[p] PROVE backup'[p] = given[p]
    <3>1. backup[p] = given[p] /\ disk[p] = Rewritten(given[p]) /\ given[p] \in Text
          /\ p \in DOMAIN backup
      BY <1>3, <2>1, UntouchedIsText DEF Contents, TypeOK
    <3>2. Hits(Edits(disk[p])) = {}
      BY <3>1, FixedHasNoEdits
    <3>3. p # Head(queue)
      BY <1>1, <1>3, <3>2 DEF Planned
    <3>4. QED
      BY <1>1, <3>1, <3>3
  <2>2. QED
    BY <1>1, <1>3, <1>4, <2>1 DEF Contents
<1>7. NoGapAtAll'
  BY <1>1, <1>2, <1>3, <1>4 DEF NoGapAtAll
<1>8. Planned' /\ StatusIsTrue'
  BY <1>1 DEF Planned, StatusIsTrue
<1>9. QueueInOrder'
  BY <1>1, <1>2, <1>3, <1>4 DEF QueueInOrder
<1>10. QueueIsComplete'
  BY <1>1 DEF QueueIsComplete
<1>11. RemovedOnce'
  BY <1>1, <1>3, <1>4 DEF RemovedOnce
<1>12. ReportIsTrue'
  <2>1. \A p \in Untouched : Before(p)' = Before(p)
    BY <1>1 DEF Before
  <2>2. QED
    BY <1>1, <1>2, <1>3, <1>4, <2>1 DEF ReportIsTrue
<1>13. QED
  BY <1>2, <1>5, <1>6, <1>7, <1>8, <1>9, <1>10, <1>11, <1>12 DEF CommandInv

(* The head of the queue is rewritten: only that config is different.      *)
LEMMA ApplyStep == ASSUME CommandInv, Apply PROVE CommandInv'
<1> DEFINE p0 == Head(queue)
<1>1. /\ pc = "apply" /\ pc' = "fix" /\ queue' = Tail(queue) /\ disk[p0] # Absent
      /\ backup' = [backup EXCEPT ![p0] = disk[p0]]
      /\ disk' = [disk EXCEPT ![p0] = plan.text]
      /\ removed' = [removed EXCEPT ![p0] = plan.edits]
      /\ UNCHANGED <<tour, given, touched, at, report, plan, exit, run>>
  BY DEF Apply
<1>2. /\ File' = File /\ TourIsReal'
      /\ \A p : Position(p)' = Position(p) /\ HostOf(p)' = HostOf(p)
  BY Frame DEF Next
<1>3. /\ TourIsReal /\ TypeOK /\ Contents /\ Planned /\ QueueInOrder /\ QueueIsComplete
      /\ RemovedOnce /\ ReportIsTrue /\ NoGapAtAll /\ StatusIsTrue
  BY DEF CommandInv
<1>4. Untouched' = Untouched
  BY <1>1, <1>2 DEF Untouched
<1>5. queue # << >> /\ queue \in Seq(File)
  BY <1>1, <1>3 DEF Planned, TypeOK
<1>6. /\ p0 \in File /\ Tail(queue) \in Seq(File)
      /\ ToSet(queue) = ToSet(Tail(queue)) \union {p0}
  BY <1>5, TailHas
<1>7. TypeOK'
  <2>1. /\ disk' \in [File -> Text \cup {Absent}]
        /\ DOMAIN removed' = File /\ DOMAIN backup' = File
    BY <1>1, <1>3, <1>6 DEF TypeOK
  <2>2. QED
    BY <1>1, <1>2, <1>3, <1>6, <2>1 DEF TypeOK
(* The config that is rewritten, if nobody touched it.                     *)
<1>8. ASSUME p0 \in Untouched
      PROVE  /\ plan.edits = Edits(given[p0]) /\ plan.text = Rewritten(given[p0])
             /\ disk[p0] = given[p0] /\ given[p0] \in Text
             /\ Hits(Edits(given[p0])) # {} /\ Hits(Edits(Rewritten(given[p0]))) = {}
             /\ removed[p0] = NoEdits
             /\ p0 \notin ToSet(Tail(queue))
  <2>1. /\ plan.edits = Edits(disk[p0]) /\ plan.text = Rewritten(disk[p0])
        /\ Hits(Edits(disk[p0])) # {}
    BY <1>1, <1>3, <1>8 DEF Planned
  <2>2. given[p0] \in Text /\ disk[p0] \in {given[p0], Rewritten(given[p0])}
    BY <1>3, <1>8, UntouchedIsText DEF Contents
  <2>3. Hits(Edits(Rewritten(given[p0]))) = {}
    BY <2>2, FixedHasNoEdits
  <2>4. disk[p0] = given[p0]
    BY <2>1, <2>2, <2>3
  <2>5. removed[p0] = NoEdits
    BY <1>3, <1>6, <1>8 DEF RemovedOnce
  <2>6. p0 \notin ToSet(Tail(queue))
    <3>1. p0 \in ToSet(Tail(queue)) => Position(p0) < Position(p0)
      BY <1>3, <1>5, <1>8, TailInOrder
    <3>2. Position(p0) \in Nat
      BY <1>3, <1>6, PlaceOf
    <3>3. QED
      BY <3>1, <3>2
  <2>7. QED
    BY <2>1, <2>2, <2>3, <2>4, <2>5, <2>6
<1>9. \A p \in Untouched : p # p0 =>
        disk'[p] = disk[p] /\ removed'[p] = removed[p] /\ backup'[p] = backup[p]
  <2>1. \A p \in Untouched : p \in File
    BY DEF Untouched
  <2>2. QED
    BY <1>1, <1>3, <1>6, <2>1 DEF TypeOK
<1>10. disk'[p0] = plan.text /\ removed'[p0] = plan.edits /\ backup'[p0] = disk[p0]
  BY <1>1, <1>3, <1>6 DEF TypeOK
<1> HIDE DEF p0
<1>11. Contents'
  <2>1. ASSUME NEW p \in Untouched
        PROVE  /\ disk'[p] \in {given[p], Rewritten(given[p])}
               /\ disk'[p] # given[p] => backup'[p] = given[p]
    <3>1. CASE p = p0
      BY <1>8, <1>10, <2>1, <3>1
    <3>2. CASE p # p0
      BY <1>3, <1>9, <2>1, <3>2 DEF Contents
    <3>3. QED
      BY <3>1, <3>2
  <2>2. QED
    BY <1>1, <1>4, <2>1 DEF Contents
<1>12. \A p \in Untouched : p \in ToSet(Tail(queue)) \/ Hits(Edits(disk'[p])) = {}
  <2>1. ASSUME NEW p \in Untouched
        PROVE  p \in ToSet(Tail(queue)) \/ Hits(Edits(disk'[p])) = {}
    <3>1. CASE p = p0
      BY <1>8, <1>10, <2>1, <3>1
    <3>2. CASE p # p0
      BY <1>1, <1>3, <1>6, <1>9, <2>1, <3>2 DEF QueueIsComplete
    <3>3. QED
      BY <3>1, <3>2
  <2>2. QED
    BY <2>1
<1>13. QueueIsComplete'
  BY <1>1, <1>4, <1>12 DEF QueueIsComplete
<1>14. QueueInOrder'
  BY <1>1, <1>2, <1>3, <1>4, <1>5, TailInOrder DEF QueueInOrder
<1>15. Planned' /\ StatusIsTrue'
  BY <1>1, <1>3 DEF Planned, StatusIsTrue
<1>16. RemovedOnce'
  <2>1. ASSUME NEW p \in Untouched, removed'[p] # NoEdits
        PROVE  /\ disk'[p] = Rewritten(given[p]) /\ removed'[p] = Edits(given[p])
               /\ p \notin ToSet(Tail(queue))
    <3>1. CASE p = p0
      BY <1>8, <1>10, <2>1, <3>1
    <3>2. CASE p # p0
      BY <1>3, <1>6, <1>9, <2>1, <3>2 DEF RemovedOnce
    <3>3. QED
      BY <3>1, <3>2
  <2>2. QED
    BY <1>1, <1>4, <2>1 DEF RemovedOnce
<1>17. ReportIsTrue'
  <2>1. ASSUME NEW p \in Untouched PROVE Before(p)' = Before(p)
    <3>1. CASE p = p0
      <4>1. Hits(NoEdits) = {}
        BY NothingHas DEF Hits, NoEdits
      <4>2. removed'[p] # NoEdits
        BY <1>8, <1>10, <2>1, <3>1, <4>1
      <4>3. removed[p] = NoEdits /\ disk[p] = given[p]
        BY <1>8, <2>1, <3>1
      <4>4. QED
        BY <1>1, <4>2, <4>3 DEF Before
    <3>2. CASE p # p0
      BY <1>1, <1>9, <2>1, <3>2 DEF Before
    <3>3. QED
      BY <3>1, <3>2
  <2>2. QED
    BY <1>1, <1>2, <1>3, <1>4, <2>1 DEF ReportIsTrue
<1>18. NoGapAtAll'
  <2>1. ASSUME NEW p \in Untouched, NEW q \in Untouched,
               Position(p) < Position(q), disk'[q] # given[q]
        PROVE  Hits(Edits(disk'[p])) = {}
    <3>1. CASE p = p0
      BY <1>8, <1>10, <2>1, <3>1
    <3>2. CASE p # p0 /\ q # p0
      BY <1>3, <1>9, <2>1, <3>2 DEF NoGapAtAll
    <3>3. CASE p # p0 /\ q = p0
      <4>1. p \in ToSet(Tail(queue)) => Position(q) < Position(p)
        BY <1>3, <1>5, <2>1, <3>3, TailInOrder DEF p0
      <4>2. Position(p) \in Nat /\ Position(q) \in Nat
        <5>1. p \in File /\ q \in File
          BY DEF Untouched
        <5>2. QED
          BY <1>3, <5>1, PlaceOf
      <4>3. p \notin ToSet(Tail(queue))
        BY <2>1, <4>1, <4>2
      <4>4. QED
        BY <1>12, <4>3
    <3>4. QED
      BY <3>1, <3>2, <3>3
  <2>2. QED
    BY <1>1, <1>2, <1>4, <2>1 DEF NoGapAtAll
<1>19. QED
  BY <1>2, <1>7, <1>11, <1>13, <1>14, <1>15, <1>16, <1>17, <1>18 DEF CommandInv

(* The exit status speaks of what the configs still have.                  *)
LEMMA FinishStep == ASSUME CommandInv, Finish PROVE CommandInv'
<1>1. /\ pc = "fix" /\ pc' = "done" /\ queue = << >>
      /\ exit' = IF \E i \in DOMAIN report : Blocks(report[i].found) THEN 1 ELSE 0
      /\ UNCHANGED <<tour, disk, given, touched, at, report, queue, plan, removed, backup, run>>
  BY DEF Finish
<1>2. /\ File' = File /\ TourIsReal'
      /\ \A p : Position(p)' = Position(p) /\ HostOf(p)' = HostOf(p)
  BY Frame DEF Next
<1>3. /\ TourIsReal /\ TypeOK /\ Contents /\ Planned /\ QueueInOrder /\ QueueIsComplete
      /\ RemovedOnce /\ ReportIsTrue /\ NoGapAtAll /\ StatusIsTrue
  BY DEF CommandInv
<1>4. Untouched' = Untouched
  BY <1>1, <1>2 DEF Untouched
<1>5. TypeOK' /\ Planned'
  BY <1>1, <1>2, <1>3 DEF TypeOK, Planned
<1>6. Contents' /\ NoGapAtAll' /\ RemovedOnce'
  BY <1>1, <1>2, <1>3, <1>4 DEF Contents, NoGapAtAll, RemovedOnce
<1>7. QueueInOrder' /\ QueueIsComplete'
  BY <1>1, <1>2, <1>3, <1>4 DEF QueueInOrder, QueueIsComplete
<1>8. ReportIsTrue'
  <2>1. \A p \in Untouched : Before(p)' = Before(p)
    BY <1>1 DEF Before
  <2>2. QED
    BY <1>1, <1>2, <1>3, <1>4, <2>1 DEF ReportIsTrue
<1>9. ASSUME exit' = 0, NEW p \in Untouched PROVE ~Blocks(Findings(HostOf(p), disk[p]))
  <2>1. PICK k \in 1 .. Len(report) : report[k].path = p
    BY <1>1, <1>3 DEF ReportIsTrue
  <2>2. report[k].found = Findings(HostOf(p), Before(p))
    BY <1>3, <2>1 DEF ReportIsTrue
  <2>3. DOMAIN report = 1 .. Len(report)
    BY <1>3 DEF TypeOK
  <2>4. ~Blocks(Findings(HostOf(p), Before(p)))
    BY <1>1, <1>9, <2>1, <2>2, <2>3
  <2>5. p \in File /\ given[p] \in Text /\ HostOf(p) \in Host
    BY <1>3, UntouchedIsText, PlaceOf
  <2>6. Hits(Findings(HostOf(p), disk[p])) \subseteq Hits(Findings(HostOf(p), Before(p)))
    <3>1. CASE removed[p] = NoEdits
      BY <3>1 DEF Before
    <3>2. CASE removed[p] # NoEdits
      <4>1. disk[p] = Rewritten(given[p])
        BY <1>3, <3>2 DEF RemovedOnce
      <4>2. QED
        BY <2>5, <3>2, <4>1, FixOnlyRemoves DEF Before
    <3>3. QED
      BY <3>1, <3>2
  <2>7. QED
    BY <2>4, <2>6 DEF Blocks
<1>10. StatusIsTrue'
  BY <1>1, <1>2, <1>4, <1>9 DEF StatusIsTrue
<1>11. QED
  BY <1>2, <1>5, <1>6, <1>7, <1>8, <1>10 DEF CommandInv

(* Another run begins with what the last one left.                         *)
LEMMA RunAgainStep == ASSUME CommandInv, RunAgain PROVE CommandInv'
<1>1. /\ pc' = "scan" /\ at' = 1 /\ report' = << >> /\ queue' = << >> /\ exit' = -1
      /\ removed' = [p \in File |-> NoEdits]
      /\ UNCHANGED <<tour, disk, given, touched, backup>>
  BY DEF RunAgain
<1>2. /\ File' = File /\ TourIsReal'
      /\ \A p : Position(p)' = Position(p) /\ HostOf(p)' = HostOf(p)
  BY Frame DEF Next
<1>3. /\ TourIsReal /\ TypeOK /\ Contents /\ NoGapAtAll
  BY DEF CommandInv
<1>4. Untouched' = Untouched
  BY <1>1, <1>2 DEF Untouched
<1>5. /\ << >> \in Seq(File) /\ << >> \in Seq([path : Seq(Name), found : Found])
      /\ Len(<< >>) = 0
  OBVIOUS
<1>6. TypeOK'
  BY <1>1, <1>2, <1>3, <1>5 DEF TypeOK
<1>7. Contents' /\ NoGapAtAll'
  BY <1>1, <1>2, <1>3, <1>4 DEF Contents, NoGapAtAll
<1>8. Planned' /\ StatusIsTrue'
  BY <1>1 DEF Planned, StatusIsTrue
<1>9. RemovedOnce'
  <2>1. \A p \in Untouched : removed'[p] = NoEdits
    BY <1>1 DEF Untouched
  <2>2. QED
    BY <1>4, <2>1 DEF RemovedOnce
<1>10. QueueInOrder' /\ QueueIsComplete'
  BY <1>1, <1>5 DEF QueueInOrder, QueueIsComplete
<1>11. ReportIsTrue'
  <2>1. \A p \in Untouched : ~ (Position(p) < 1)
    BY <1>3, PlaceOf DEF Untouched
  <2>2. QED
    BY <1>1, <1>2, <1>4, <1>5, <2>1 DEF ReportIsTrue
<1>12. QED
  BY <1>2, <1>6, <1>7, <1>8, <1>9, <1>10, <1>11 DEF CommandInv

LEMMA NextInv == CommandInv /\ [Next]_vars => CommandInv'
<1> SUFFICES ASSUME CommandInv, [Next]_vars PROVE CommandInv'
  OBVIOUS
<1>1. CASE Next
  BY <1>1, TouchStep, ScanStep, DiscoverStep, PlanStep, ApplyStep, ApplyFailsStep,
     FinishStep, RunAgainStep DEF Next
<1>2. CASE UNCHANGED vars
  <2>1. /\ UNCHANGED <<tour, disk, given, touched, pc, at, report, queue, plan, removed, backup,
                       exit>>
        /\ File' = File
    BY <1>2 DEF vars, File
  <2>2. \A p : Position(p)' = Position(p) /\ HostOf(p)' = HostOf(p)
    BY <2>1, SamePlace
  <2>3. Untouched' = Untouched /\ \A p : Before(p)' = Before(p)
    BY <2>1 DEF Untouched, Before
  <2>4. TourIsReal' /\ TypeOK' /\ Contents' /\ Planned' /\ RemovedOnce'
    BY <2>1, <2>3 DEF CommandInv, TourIsReal, TypeOK, Contents, Planned, RemovedOnce
  <2>5. QueueInOrder' /\ QueueIsComplete' /\ NoGapAtAll'
    <3>1. QueueInOrder'
      BY <2>1, <2>2, <2>3 DEF CommandInv, QueueInOrder
    <3>2. QueueIsComplete'
      BY <2>1, <2>2, <2>3 DEF CommandInv, QueueIsComplete
    <3>3. NoGapAtAll'
      BY <2>1, <2>2, <2>3 DEF CommandInv, NoGapAtAll
    <3>4. QED
      BY <3>1, <3>2, <3>3
  <2>6. ReportIsTrue' /\ StatusIsTrue'
    BY <2>1, <2>2, <2>3 DEF CommandInv, ReportIsTrue, StatusIsTrue
  <2>7. QED
    BY <2>4, <2>5, <2>6 DEF CommandInv
<1>3. QED
  BY <1>1, <1>2

LEMMA CommandInvariant == Spec => []CommandInv
BY InitInv, NextInv, PTL DEF Spec

----------------------------------------------------------------------------
(* The properties.                                                         *)

LEMMA UnderstoodIs ==
  ASSUME CommandInv, NEW p \in Understood
  PROVE  /\ p \in Untouched /\ p \in File /\ given[p] \in Text /\ HostOf(p) \in Host
         /\ Known(HostOf(p), given[p])
         /\ disk[p] \in {given[p], Rewritten(given[p])}
<1>1. p \in Untouched /\ Known(HostOf(p), given[p])
  BY DEF Understood
<1>2. TourIsReal /\ TypeOK /\ Contents
  BY DEF CommandInv
<1>3. QED
  BY <1>1, <1>2, UntouchedIsText, PlaceOf DEF Contents

(* A fixed config re-scans clean, whatever host, lists and roots: nothing  *)
(* is left to edit, and on these configs the scan finds what the fixer     *)
(* edits.                                                                  *)
THEOREM FixedRescansClean == Spec => []RescanClean
<1>1. CommandInv => RescanClean
  <2>1. ASSUME CommandInv, pc = "done", NEW p \in Understood
        PROVE  Hits(Findings(HostOf(p), disk[p])) = {}
    <3>1. /\ p \in Untouched /\ given[p] \in Text /\ HostOf(p) \in Host
          /\ Known(HostOf(p), given[p])
          /\ disk[p] \in {given[p], Rewritten(given[p])}
      BY <2>1, UnderstoodIs
    <3>2. Hits(Edits(disk[p])) = {}
      BY <2>1, <3>1, NothingHas DEF CommandInv, QueueIsComplete
    <3>3. QED
      BY <3>1, <3>2, CleanIsClean
  <2>2. QED
    BY <2>1 DEF RescanClean
<1>2. QED
  BY <1>1, CommandInvariant, PTL

(* A run edits exactly the configs its scan reported something on, and in  *)
(* each exactly what every visit of the scan reported.                     *)
THEOREM FixIsTheReport == Spec => []FixesWhatWasReported
<1>1. CommandInv => FixesWhatWasReported
  <2> SUFFICES ASSUME CommandInv, pc = "done", NEW p \in Understood
               PROVE  IF removed[p] = NoEdits
                      THEN \A found \in Reported(p) : Hits(found) = {}
                      ELSE Reported(p) = {removed[p]}
    BY DEF FixesWhatWasReported
  <2>1. /\ p \in Untouched /\ given[p] \in Text /\ HostOf(p) \in Host
        /\ Known(HostOf(p), given[p])
        /\ disk[p] \in {given[p], Rewritten(given[p])}
    BY UnderstoodIs
  <2>2. DOMAIN report = 1 .. Len(report)
    BY DEF CommandInv, TypeOK
  <2>3. \A k \in 1 .. Len(report) :
          report[k].path = p => report[k].found = Findings(HostOf(p), Before(p))
    BY <2>1 DEF CommandInv, ReportIsTrue
  <2>4. \E k \in 1 .. Len(report) : report[k].path = p
    BY <2>1 DEF CommandInv, ReportIsTrue
  <2>5. Reported(p) = {Findings(HostOf(p), Before(p))}
    BY <2>2, <2>3, <2>4 DEF Reported
  <2>6. CASE removed[p] = NoEdits
    <3>1. Hits(Edits(disk[p])) = {}
      BY <2>1, NothingHas DEF CommandInv, QueueIsComplete
    <3>2. Hits(Findings(HostOf(p), disk[p])) = {}
      BY <2>1, <3>1, CleanIsClean
    <3>3. Reported(p) = {Findings(HostOf(p), disk[p])}
      BY <2>5, <2>6 DEF Before
    <3>4. QED
      BY <2>6, <3>2, <3>3
  <2>7. CASE removed[p] # NoEdits
    <3>1. removed[p] = Edits(given[p])
      BY <2>1, <2>7 DEF CommandInv, RemovedOnce
    <3>2. Findings(HostOf(p), given[p]) = Edits(given[p])
      BY <2>1, KnownAgrees
    <3>3. QED
      BY <2>5, <2>7, <3>1, <3>2 DEF Before
  <2>8. QED
    BY <2>6, <2>7
<1>2. QED
  BY <1>1, CommandInvariant, PTL

(* What is not flagged keeps its place, after any number of runs.          *)
THEOREM RestIsKept == Spec => []KeepsTheRest
<1>1. CommandInv => KeepsTheRest
  <2> DEFINE Harmless == Entry \ (Dangerous \cup Broad)
  <2>1. ASSUME CommandInv, NEW p \in Understood
        PROVE  /\ Sift(given[p].allow, Harmless) = Sift(disk[p].allow, Harmless)
               /\ Len(disk[p].servers) = Len(given[p].servers)
               /\ \A i \in DOMAIN given[p].servers :
                    Sift(given[p].servers[i], Harmless) = Sift(disk[p].servers[i], Harmless)
    <3>1. given[p] \in Text /\ disk[p] \in {given[p], Rewritten(given[p])}
      BY <2>1, UnderstoodIs
    <3>2. CASE disk[p] = given[p]
      BY <3>2
    <3>3. CASE disk[p] # given[p]
      <4>1. given[p].syntax = "json" /\ disk[p] = Rewritten(given[p])
        BY <3>1, <3>3 DEF Rewritten
      <4> HIDE DEF Harmless
      <4>2. Harmless = Entry \ (Dangerous \cup Broad)
        BY DEF Harmless
      <4>3. QED
        BY <3>1, <4>1, <4>2, FixKeepsHarmless
    <3>4. QED
      BY <3>2, <3>3
  <2>2. QED
    BY <2>1 DEF KeepsTheRest
<1>2. QED
  BY <1>1, CommandInvariant, PTL

(* A run leaves alone what an earlier one has written, and its backup.     *)
THEOREM RunsAreIdempotent == Spec => []SecondRunIsQuiet
<1>1. CommandInv => SecondRunIsQuiet
  <2>1. ASSUME CommandInv, NEW p \in Untouched, disk[p] # given[p]
        PROVE  backup[p] = given[p] /\ Hits(Edits(disk[p])) = {}
    <3>1. TypeOK /\ Contents
      BY <2>1 DEF CommandInv
    <3>2. given[p] \in Text /\ disk[p] = Rewritten(given[p]) /\ backup[p] = given[p]
      BY <2>1, <3>1, UntouchedIsText DEF Contents
    <3>3. QED
      BY <3>2, FixedHasNoEdits
  <2>2. QED
    BY <2>1 DEF SecondRunIsQuiet
<1>2. QED
  BY <1>1, CommandInvariant, PTL

(* A run that ends with 0 leaves no finding that meets --fail-on, although *)
(* its report is older than its fixes: they only take findings away.       *)
THEOREM StatusIsAbout == Spec => []StatusCoversWhatIsLeft
<1>1. CommandInv => StatusCoversWhatIsLeft
  BY DEF CommandInv, StatusIsTrue, StatusCoversWhatIsLeft
<1>2. QED
  BY <1>1, CommandInvariant, PTL

(* A run that fails leaves the configs before the one it failed on fixed   *)
(* and the ones after it as they were.                                     *)
THEOREM FailureLeavesNoGap == Spec => []NoGap
<1>1. CommandInv => NoGap
  BY DEF CommandInv, NoGapAtAll, NoGap, Understood
<1>2. QED
  BY <1>1, CommandInvariant, PTL
=============================================================================
