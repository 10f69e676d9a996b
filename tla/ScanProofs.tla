----------------------------- MODULE ScanProofs -----------------------------
(***************************************************************************)
(* What `mcpscan scan` and `mcpscan trust` say of files that change while  *)
(* they read them, for all candidates, contents, changes and sockets; and  *)
(* what the JSONC of such a file becomes before it is parsed.              *)
(***************************************************************************)
EXTENDS ScanWalk, Jsonc, ListProofs, FiniteSetTheorems

----------------------------------------------------------------------------
(* The rows of a report.                                                   *)

Fact == [id : {"CRED-PLAINTEXT", "CRED-PERMS", "SCOPE-DANGEROUS-AUTOAPPROVE",
               "SCOPE-AUTOAPPROVE-WILDCARD", "SCOPE-DANGEROUS-ALLOW", "SCOPE-WILDCARD",
               "PIN-UNPINNED", "EXPOSE-BIND"},
         severity : {"critical", "high", "medium"},
         dimension : {"credential", "tool_scope", "pinning", "exposure"}]
Id == STRING \cup {"env", "#permissions"}
Row == [id : Id, findings : Seq(Fact)]
Listed == [file : File \cup {Absent}, row : Row]
Profiled == [file : File, row : {Profile(d) : d \in Declaration}]

(* As many findings as there are secrets.                                  *)
LEMMA TimesMany ==
  ASSUME NEW X, NEW x \in X, NEW n \in Nat
  PROVE  Times(n, x) \in Seq(X) /\ Len(Times(n, x)) = n /\ \A i \in 1 .. n : Times(n, x)[i] = x
BY DEF Times

(* One finding for each entry that matches anything.                       *)
LEMMA EntryFindingsGive ==
  ASSUME NEW entries \in Seq(Entry), NEW danger, NEW wild,
         Finding(danger, "high", "tool_scope") \in Fact,
         Finding(wild, "medium", "tool_scope") \in Fact
  PROVE  /\ EntryFindings(entries, danger, wild) \in Seq(Fact)
         /\ \A x \in ToSet(EntryFindings(entries, danger, wild)) :
              x = Finding(danger, "high", "tool_scope") \/ x = Finding(wild, "medium", "tool_scope")
         /\ ToSet(EntryFindings(entries, danger, wild)) = {} <=> ToSet(entries) \ {{}} = {}
<1> DEFINE flagged == Sift(entries, Entry \ {{}})
           given == EntryFindings(entries, danger, wild)
           value(i) == IF "danger" \in flagged[i] THEN Finding(danger, "high", "tool_scope")
                                                 ELSE Finding(wild, "medium", "tool_scope")
<1>1. /\ flagged \in Seq(Entry) /\ ToSet(flagged) = ToSet(entries) \cap (Entry \ {{}})
      /\ ToSet(entries) \subseteq Entry
  BY SiftElements, ValuesOf
<1>2. given = [i \in DOMAIN flagged |-> value(i)]
  BY DEF EntryFindings
<1> HIDE DEF flagged, given
<1>3. /\ ToSet(flagged) = ToSet(entries) \ {{}}
      /\ flagged \in Seq(Entry \ {{}})
      /\ DOMAIN flagged = 1 .. Len(flagged) /\ Len(flagged) \in Nat
  BY <1>1, ListOf
<1>4. \A i \in 1 .. Len(flagged) :
        /\ value(i) \in Fact
        /\ value(i) = Finding(danger, "high", "tool_scope")
             \/ value(i) = Finding(wild, "medium", "tool_scope")
  OBVIOUS
<1> HIDE DEF value
<1>5. given \in Seq(Fact) /\ Len(given) = Len(flagged) /\ \A i \in 1 .. Len(flagged) :
             given[i] = value(i)
  BY <1>2, <1>3, <1>4
<1>6. DOMAIN given = 1 .. Len(flagged)
  BY <1>3, <1>5
<1>7. \A x \in ToSet(given) : x = Finding(danger, "high", "tool_scope")
                               \/ x = Finding(wild, "medium", "tool_scope")
  BY <1>4, <1>5, <1>6 DEF ToSet
<1>8. ToSet(given) = {} <=> ToSet(flagged) = {}
  <2>1. DOMAIN given = DOMAIN flagged
    BY <1>3, <1>6
  <2> HIDE DEF value
  <2>2. \A s : ToSet(s) = {} <=> DOMAIN s = {}
    BY DEF ToSet
  <2>3. QED
    BY <2>1, <2>2
<1>9. QED
  BY <1>3, <1>5, <1>7, <1>8 DEF given

(* The findings of a declaration, and of the grants of a config.           *)
LEMMA DeclarationFindings ==
  ASSUME NEW d \in Declaration
  PROVE  /\ CheckEnv(d) \in Seq(Fact)
         /\ CheckAutoApprove(d) \in Seq(Fact)
         /\ CheckPinning(d) \in Seq(Fact)
<1>1. /\ d.secrets \in Nat /\ d.approve \in Seq(Entry)
  BY DEF Declaration
<1>2. CheckEnv(d) \in Seq(Fact)
  <2>1. Finding("CRED-PLAINTEXT", "critical", "credential") \in Fact
    BY DEF Finding, Fact
  <2>2. QED
    BY <1>1, <2>1, TimesMany DEF CheckEnv
<1>3. CheckAutoApprove(d) \in Seq(Fact)
  <2>1. /\ Finding("SCOPE-DANGEROUS-AUTOAPPROVE", "high", "tool_scope") \in Fact
        /\ Finding("SCOPE-AUTOAPPROVE-WILDCARD", "medium", "tool_scope") \in Fact
    BY DEF Finding, Fact
  <2>2. QED
    BY <1>1, <2>1, EntryFindingsGive DEF CheckAutoApprove
<1>4. CheckPinning(d) \in Seq(Fact)
  <2>1. Finding("PIN-UNPINNED", "medium", "pinning") \in Fact
    BY DEF Finding, Fact
  <2>2. << >> \in Seq(Fact)
    OBVIOUS
  <2>3. <<Finding("PIN-UNPINNED", "medium", "pinning")>> \in Seq(Fact)
    BY <2>1
  <2>4. QED
    BY <2>2, <2>3 DEF CheckPinning
<1>5. QED
  BY <1>2, <1>3, <1>4

(* What the scan lists for one declaration.                                *)
Audited(d) == [id |-> d.name, findings |-> CheckEnv(d) \o CheckAutoApprove(d) \o CheckPinning(d)]

LEMMA AuditedIsRow == \A d \in Declaration : Audited(d) \in Row
<1> SUFFICES ASSUME NEW d \in Declaration PROVE Audited(d) \in Row
  OBVIOUS
<1>1. /\ CheckEnv(d) \in Seq(Fact) /\ CheckAutoApprove(d) \in Seq(Fact)
      /\ CheckPinning(d) \in Seq(Fact)
  BY DeclarationFindings
<1>2. CheckEnv(d) \o CheckAutoApprove(d) \o CheckPinning(d) \in Seq(Fact)
  BY <1>1
<1>3. d.name \in Id
  BY DEF Declaration, Id
<1>4. QED
  BY <1>2, <1>3 DEF Audited, Row

LEMMA NoEntries == \A danger, wild : EntryFindings(<< >>, danger, wild) = << >>
<1> SUFFICES ASSUME NEW danger, NEW wild PROVE EntryFindings(<< >>, danger, wild) = << >>
  OBVIOUS
<1> DEFINE flagged == Sift(<< >>, Entry \ {{}})
           value(i) == IF "danger" \in flagged[i] THEN Finding(danger, "high", "tool_scope")
                                                 ELSE Finding(wild, "medium", "tool_scope")
<1>1. flagged = << >> /\ DOMAIN << >> = {}
  BY SiftEmpty
<1>2. EntryFindings(<< >>, danger, wild) = [i \in DOMAIN flagged |-> value(i)]
  BY DEF EntryFindings
<1> HIDE DEF flagged, value
<1>3. [i \in {} |-> value(i)] = << >>
  OBVIOUS
<1>4. QED
  BY <1>1, <1>2, <1>3

(* A config gives one row for each of its servers and at most one more.    *)
LEMMA AuditGives ==
  ASSUME NEW c, c.servers \in Seq(Declaration), c.allow \in Seq(Entry)
  PROVE  \E A \in Seq(Row), B \in Seq(Row) :
           /\ AuditConfig(c) = A \o B
           /\ Len(A) = Len(c.servers)
           /\ \A i \in 1 .. Len(A) : A[i] = Audited(c.servers[i])
           /\ \A row \in ToSet(B) : row.id = "#permissions"
           /\ c.allow = << >> => B = << >>
<1> DEFINE A == [i \in 1 .. Len(c.servers) |-> Audited(c.servers[i])]
           found == CheckPermissions(c.allow)
           grants == [id |-> "#permissions", findings |-> found]
           B == IF found = << >> THEN << >> ELSE <<grants>>
<1>1. DOMAIN c.servers = 1 .. Len(c.servers) /\ Len(c.servers) \in Nat
  OBVIOUS
<1>2. AuditConfig(c) = A \o B
  BY <1>1 DEF AuditConfig, Audited
<1>3. \A i \in 1 .. Len(c.servers) : Audited(c.servers[i]) \in Row
  BY <1>1, AuditedIsRow
<1>4. /\ A \in Seq(Row) /\ Len(A) = Len(c.servers)
      /\ \A i \in 1 .. Len(A) : A[i] = Audited(c.servers[i])
  BY <1>1, <1>3
<1>5. found \in Seq(Fact)
  <2>1. /\ Finding("SCOPE-DANGEROUS-ALLOW", "high", "tool_scope") \in Fact
        /\ Finding("SCOPE-WILDCARD", "medium", "tool_scope") \in Fact
    BY DEF Finding, Fact
  <2>2. QED
    BY <2>1, EntryFindingsGive DEF CheckPermissions
<1>6. grants \in Row /\ grants.id = "#permissions"
  <2> HIDE DEF found
  <2>1. QED
    BY <1>5 DEF Row, Id
<1>7. B \in Seq(Row) /\ \A row \in ToSet(B) : row.id = "#permissions"
  <2> HIDE DEF found, grants
  <2>1. ToSet(<< >>) = {} /\ ToSet(<<grants>>) = {grants}
    <3>1. DOMAIN <<grants>> = {1} /\ <<grants>>[1] = grants
      OBVIOUS
    <3>2. QED
      BY <3>1, NothingHas DEF ToSet
  <2>2. << >> \in Seq(Row) /\ <<grants>> \in Seq(Row)
    BY <1>6
  <2>3. CASE found = << >>
    BY <2>1, <2>2, <2>3
  <2>4. CASE found # << >>
    BY <1>6, <2>1, <2>2, <2>4
  <2>5. QED
    BY <2>3, <2>4
<1>8. c.allow = << >> => B = << >>
  <2>1. ASSUME c.allow = << >> PROVE found = << >>
    <3>1. found = EntryFindings(<< >>, "SCOPE-DANGEROUS-ALLOW", "SCOPE-WILDCARD")
      BY <2>1 DEF CheckPermissions
    <3>2. QED
      BY <3>1, NoEntries
  <2>2. QED
    BY <2>1
<1>9. QED
  <2> HIDE DEF A, B
  <2>1. QED
    BY <1>2, <1>4, <1>7, <1>8

(* What a parser makes of a content.                                       *)
LEMMA ParsedIs ==
  ASSUME NEW s \in State
  PROVE  /\ Parsed(s) \in State
         /\ Parsed(s).servers \in Seq(Declaration) /\ Parsed(s).allow \in Seq(Entry)
         /\ s.form = "whole" => Parsed(s) = s
         /\ s.form # "whole" => Parsed(s).servers = << >> /\ Parsed(s).allow = << >>
<1>1. << >> \in Seq(Declaration) /\ << >> \in Seq(Entry)
  OBVIOUS
<1>2. QED
  BY <1>1 DEF Parsed, State

LEMMA ConfigRows == \A s \in State : AuditConfig(Parsed(s)) \in Seq(Row)
<1> SUFFICES ASSUME NEW s \in State PROVE AuditConfig(Parsed(s)) \in Seq(Row)
  OBVIOUS
<1>1. PICK A \in Seq(Row), B \in Seq(Row) : AuditConfig(Parsed(s)) = A \o B
  BY ParsedIs, AuditGives
<1>2. QED
  BY <1>1

LEMMA EnvRows == \A s, t \in State : AuditEnv(s.secrets, t.shared) \in Seq(Row)
<1> SUFFICES ASSUME NEW s \in State, NEW t \in State
             PROVE  AuditEnv(s.secrets, t.shared) \in Seq(Row)
  OBVIOUS
<1> DEFINE leaks == Times(s.secrets, Finding("CRED-PLAINTEXT", "critical", "credential"))
           rest == IF s.secrets > 0 /\ t.shared
                   THEN <<Finding("CRED-PERMS", "high", "credential")>> ELSE << >>
<1>1. leaks \in Seq(Fact)
  <2>1. Finding("CRED-PLAINTEXT", "critical", "credential") \in Fact /\ s.secrets \in Nat
    BY DEF Finding, Fact, State
  <2>2. QED
    BY <2>1, TimesMany
<1>2. rest \in Seq(Fact)
  <2>1. Finding("CRED-PERMS", "high", "credential") \in Fact
    BY DEF Finding, Fact
  <2>2. /\ <<Finding("CRED-PERMS", "high", "credential")>> \in Seq(Fact)
        /\ << >> \in Seq(Fact)
    BY <2>1
  <2>3. QED
    BY <2>2
<1>3. AuditEnv(s.secrets, t.shared) = <<[id |-> "env", findings |-> leaks \o rest]>>
  BY DEF AuditEnv
<1> HIDE DEF leaks, rest
<1>4. [id |-> "env", findings |-> leaks \o rest] \in Row
  BY <1>1, <1>2 DEF Row, Id
<1>5. QED
  BY <1>3, <1>4

LEMMA DueRows ==
  ASSUME NEW f \in File, NEW s \in State \cup {Absent}
  PROVE  Due(f, s) \in Seq(Row)
<1>1. CASE ~Readable(s)
  <2>1. Due(f, s) = << >>
    BY <1>1 DEF Due
  <2>2. QED
    BY <2>1
<1>2. CASE Readable(s) /\ f = Env
  <2>1. Due(f, s) = AuditEnv(s.secrets, s.shared) /\ s \in State
    BY <1>2 DEF Due, Readable
  <2>2. QED
    BY <2>1, EnvRows
<1>3. CASE Readable(s) /\ f # Env
  <2>1. Due(f, s) = AuditConfig(Parsed(s)) /\ s \in State
    BY <1>3 DEF Due, Readable
  <2>2. QED
    BY <2>1, ConfigRows
<1>4. QED
  BY <1>1, <1>2, <1>3

(* The rows of a file in a report.                                         *)
LEMMA FromRows ==
  ASSUME NEW g, NEW R, NEW rows \in Seq(R)
  PROVE  /\ From(g, rows) \in Seq([file : {g}, row : R])
         /\ Len(From(g, rows)) = Len(rows) /\ Len(rows) \in Nat
         /\ DOMAIN From(g, rows) = 1 .. Len(rows)
         /\ \A i \in 1 .. Len(rows) : From(g, rows)[i] = [file |-> g, row |-> rows[i]]
<1>1. DOMAIN rows = 1 .. Len(rows) /\ Len(rows) \in Nat
  OBVIOUS
<1>2. \A i \in 1 .. Len(rows) : [file |-> g, row |-> rows[i]] \in [file : {g}, row : R]
  BY <1>1
<1>3. QED
  BY <1>1, <1>2 DEF From

LEMMA FromGives ==
  ASSUME NEW F, NEW g \in F, NEW R, NEW rows \in Seq(R)
  PROVE  From(g, rows) \in Seq([file : F, row : R])
<1>1. From(g, rows) \in Seq([file : {g}, row : R])
  BY FromRows
<1>2. \A x \in [file : {g}, row : R] : x \in [file : F, row : R]
  OBVIOUS
<1>3. [file : {g}, row : R] \subseteq [file : F, row : R]
  BY <1>2
<1> DEFINE x == From(g, rows)
           Y == [file : {g}, row : R]
           X == [file : F, row : R]
<1> HIDE DEF x, Y, X
<1>4. x \in Seq(Y) /\ Y \subseteq X
  BY <1>1, <1>3 DEF x, Y, X
<1>5. x \in Seq(X)
  <2>1. ToSet(x) \subseteq X
    BY <1>4, ValuesOf
  <2>2. QED
    BY <1>4, <2>1, ListOf
<1>6. QED
  BY <1>5 DEF x, X

LEMMA FromNothing == \A g : From(g, << >>) = << >>
<1>1. DOMAIN << >> = {}
  OBVIOUS
<1>2. QED
  BY <1>1 DEF From

LEMMA FromFile ==
  ASSUME NEW g, NEW rows, NEW more, more = From(g, rows)
  PROVE  \A i \in DOMAIN more : more[i].file = g
BY DEF From

(* The entries of a file in a list, and in a list that has grown.          *)
EntriesOf(list, f) == Sift(list, {s \in ToSet(list) : s.file = f})

Grown(list, more) == list \o more

LEMMA EntriesAfter ==
  ASSUME NEW X, NEW list \in Seq(X), NEW more \in Seq(X),
         NEW g, \A i \in DOMAIN more : more[i].file = g,
         NEW f
  PROVE  /\ f = g /\ EntriesOf(list, f) = << >> => EntriesOf(Grown(list, more), f) = more
         /\ f # g => EntriesOf(Grown(list, more), f) = EntriesOf(list, f)
<1> DEFINE after == list \o more
<1> DEFINE T == {x \in X : x.file = f}
<1>1. more \in Seq(X) /\ \A i \in DOMAIN more : more[i].file = g
  OBVIOUS
<1>2. list \in Seq(X)
  OBVIOUS
<1>10. after = list \o more
  OBVIOUS
<1>3. \A x \in ToSet(more) : x \in X /\ x.file = g
  <2>1. ToSet(more) \subseteq X
    BY <1>1, ValuesOf
  <2>2. QED
    BY <1>1, <2>1 DEF ToSet
<1>4. ASSUME NEW l \in Seq(X) PROVE EntriesOf(l, f) = Sift(l, T)
  <2> DEFINE S == {s \in ToSet(l) : s.file = f}
  <2>1. ToSet(l) \subseteq X
    BY ValuesOf
  <2>2. ToSet(l) \cap S = ToSet(l) \cap T
    BY <2>1
  <2> HIDE DEF S, T
  <2>3. Sift(l, S) = Sift(l, T)
    BY <2>2, SiftSame
  <2>4. QED
    BY <2>3 DEF EntriesOf, S
<1>5. after \in Seq(X) /\ Sift(after, T) = Sift(list, T) \o Sift(more, T)
  <2> HIDE DEF T
  <2>1. list \o more \in Seq(X) /\ Sift(list \o more, T) = Sift(list, T) \o Sift(more, T)
    BY <1>1, <1>2, SiftConcat
  <2>2. QED
    BY <1>10, <2>1
<1>6. Sift(list, T) \in Seq(X)
  <2> HIDE DEF T
  <2>1. QED
    BY <1>2, SiftElements
<1>7. EntriesOf(Grown(list, more), f) = Sift(list, T) \o Sift(more, T)
  <2>1. Grown(list, more) = after
    BY DEF Grown
  <2> HIDE DEF T, after
  <2>2. EntriesOf(Grown(list, more), f) = EntriesOf(after, f)
    BY <2>1
  <2>3. EntriesOf(after, f) = Sift(after, T)
    BY <1>4, <1>5
  <2>4. QED
    BY <1>5, <2>2, <2>3
<1>8. EntriesOf(list, f) = Sift(list, T)
  BY <1>2, <1>4
<1> HIDE DEF after
<1>9. CASE f = g
  <2>1. ToSet(more) \subseteq T
    BY <1>3, <1>9
  <2> HIDE DEF T
  <2>2. Sift(more, T) = more
    BY <1>1, <2>1, SiftKeepsAll
  <2>3. QED
    BY <1>1, <1>7, <1>8, <1>9, <2>2
<1>11. CASE f # g
  <2>1. ToSet(more) \cap T = {}
    BY <1>3, <1>11
  <2> HIDE DEF T
  <2>2. Sift(more, T) \in Seq(X) /\ ToSet(Sift(more, T)) = {}
    BY <1>1, <2>1, SiftElements
  <2>3. Sift(more, T) = << >>
    BY <2>2, EmptyList
  <2>4. Sift(list, T) \o << >> = Sift(list, T)
    BY <1>6
  <2>5. QED
    BY <1>7, <1>8, <1>11, <2>3, <2>4
<1>12. QED
  BY <1>9, <1>11

LEMMA EntriesOfNothing == \A f : EntriesOf(<< >>, f) = << >>
BY SiftEmpty DEF EntriesOf

----------------------------------------------------------------------------
(* The tour.                                                               *)

Stops == [cmd : {"scan", "trust"}, file : File \cup {Absent}]
SocketStop == Len(ScanTour) + 1

LEMMA VisitGives ==
  ASSUME NEW cmd \in {"scan", "trust"}, NEW files \in Seq(File), NEW v, v = Visit(cmd, files)
  PROVE  /\ v \in Seq(Stops) /\ Len(v) = Len(files) /\ Len(files) \in Nat
         /\ \A i \in 1 .. Len(files) : v[i] = Stop(cmd, files[i]) /\ files[i] \in File
<1>1. DOMAIN files = 1 .. Len(files) /\ Len(files) \in Nat
  OBVIOUS
<1>2. \A i \in 1 .. Len(files) : files[i] \in File /\ Stop(cmd, files[i]) \in Stops
  BY <1>1 DEF Stops, Stop
<1>3. v = [i \in 1 .. Len(files) |-> Stop(cmd, files[i])]
  BY <1>1 DEF Visit
<1> HIDE DEF Stop
<1>4. QED
  BY <1>1, <1>2, <1>3

(* scan comes to every file once.                                          *)
LEMMA ScanFiles ==
  ASSUME NEW files, files = OfLevel("user") \o OfLevel("project") \o <<Env>>
  PROVE  files \in Seq(File) /\ ToSet(files) = File /\ IsInjective(files)
<1> DEFINE C == ToSet(Candidates)
           Of(l) == {c \in C : c.level = l}
<1>1. /\ Candidates \in Seq(C) /\ IsInjective(Candidates)
      /\ \A c \in C : c.level \in {"user", "project"} /\ c # Env
      /\ Env.level = "env"
  BY ScanAssumption
<1>2. File = C \cup {Env}
  BY DEF File, ToSet
<1> HIDE DEF C
<1>3. ASSUME NEW l
      PROVE  OfLevel(l) \in Seq(C) /\ ToSet(OfLevel(l)) = Of(l) /\ IsInjective(OfLevel(l))
  <2>1. OfLevel(l) = Sift(Candidates, Of(l)) /\ C \cap Of(l) = Of(l)
    BY DEF OfLevel, C
  <2> HIDE DEF Of
  <2>2. /\ Sift(Candidates, Of(l)) \in Seq(C)
        /\ ToSet(Sift(Candidates, Of(l))) = ToSet(Candidates) \cap Of(l)
        /\ IsInjective(Sift(Candidates, Of(l)))
    BY <1>1, SiftElements, SiftInjective
  <2>3. QED
    BY <2>1, <2>2 DEF C
<1>4. PICK u : u = OfLevel("user")
  OBVIOUS
<1>5. PICK p : p = OfLevel("project")
  OBVIOUS
<1>6. PICK both : both = u \o p
  OBVIOUS
<1>7. /\ u \in Seq(C) /\ ToSet(u) = Of("user") /\ IsInjective(u)
      /\ p \in Seq(C) /\ ToSet(p) = Of("project") /\ IsInjective(p)
  BY <1>3, <1>4, <1>5
<1>8. ToSet(u) \cap ToSet(p) = {} /\ ToSet(u) \cup ToSet(p) = C
  BY <1>1, <1>7
<1> HIDE DEF Of
<1>9. both \in Seq(C) /\ ToSet(both) = C /\ IsInjective(both)
  <2>1. u \o p \in Seq(C) /\ ToSet(u \o p) = ToSet(u) \cup ToSet(p)
    BY <1>7, ConcatHas
  <2>2. IsInjective(both)
    BY <1>6, <1>7, <1>8, ConcatInjective
  <2>3. QED
    BY <1>6, <1>8, <2>1, <2>2
<1>10. both \in Seq(File) /\ Env \in File
  BY <1>2, <1>9, ListOf
<1>11. /\ <<Env>> \in Seq(File) /\ ToSet(<<Env>>) = {Env} /\ IsInjective(<<Env>>)
  <2>1. DOMAIN <<Env>> = {1} /\ <<Env>>[1] = Env
    OBVIOUS
  <2>2. <<Env>> \in Seq(File)
    BY <1>10
  <2>3. QED
    BY <2>1, <2>2 DEF ToSet, IsInjective
<1>12. ToSet(both) \cap {Env} = {}
  BY <1>1, <1>9
<1>13. files = both \o <<Env>>
  BY <1>4, <1>5, <1>6
<1>14. files \in Seq(File) /\ ToSet(files) = File
  <2>1. PICK last \in Seq(File) : last = <<Env>>
    BY <1>11
  <2>2. both \o last \in Seq(File) /\ ToSet(both \o last) = ToSet(both) \cup ToSet(last)
    BY <1>10, ConcatHas
  <2>3. files = both \o last /\ ToSet(last) = {Env}
    BY <1>11, <1>13, <2>1
  <2>4. ToSet(both) \cup ToSet(last) = File
    BY <1>2, <1>9, <2>3
  <2>5. QED
    BY <2>2, <2>3, <2>4
<1>15. PICK e : e = <<Env>>
  OBVIOUS
<1>16. IsInjective(files)
  BY <1>9, <1>10, <1>11, <1>12, <1>13, <1>15, ConcatInjective
<1>17. QED
  BY <1>14, <1>16

LEMMA TourFacts ==
  /\ Tour \in Seq(Stops) /\ Len(Tour) \in Nat /\ SocketStop \in 1 .. Len(Tour)
  /\ Tour[SocketStop] = Stop("scan", Absent)
  /\ \A i \in 1 .. SocketStop - 1 : Tour[i].cmd = "scan" /\ Tour[i].file \in File
  /\ \A i \in SocketStop + 1 .. Len(Tour) : Tour[i].cmd = "trust" /\ Tour[i].file \in File \ {Env}
  /\ \A f \in File : \E i \in 1 .. SocketStop - 1 : Tour[i] = Stop("scan", f)
  /\ \A f \in File \ {Env} : \E i \in SocketStop + 1 .. Len(Tour) : Tour[i] = Stop("trust", f)
  /\ \A i, j \in 1 .. Len(Tour) : Tour[i] = Tour[j] => i = j
<1>1. PICK files : files = OfLevel("user") \o OfLevel("project") \o <<Env>>
  OBVIOUS
<1>2. files \in Seq(File) /\ ToSet(files) = File /\ IsInjective(files)
  BY <1>1, ScanFiles
<1>3. PICK v : v = Visit("scan", files)
  OBVIOUS
<1>4. PICK w : w = Visit("trust", Candidates)
  OBVIOUS
<1>5. /\ Candidates \in Seq(ToSet(Candidates)) /\ IsInjective(Candidates)
      /\ ToSet(Candidates) = File \ {Env} /\ Absent \notin File
  <2>1. File = ToSet(Candidates) \cup {Env} /\ Env \notin ToSet(Candidates)
    BY ScanAssumption DEF File, ToSet
  <2>2. QED
    BY <2>1, ScanAssumption
<1>6. Candidates \in Seq(File)
  BY <1>5, ListOf
<1>7. /\ v \in Seq(Stops) /\ Len(v) = Len(files) /\ Len(files) \in Nat
      /\ \A i \in 1 .. Len(files) : v[i] = Stop("scan", files[i]) /\ files[i] \in File
  BY <1>2, <1>3, VisitGives
<1>8. /\ w \in Seq(Stops) /\ Len(w) = Len(Candidates) /\ Len(Candidates) \in Nat
      /\ \A i \in 1 .. Len(Candidates) : w[i] = Stop("trust", Candidates[i])
  BY <1>4, <1>6, VisitGives
<1>9. Tour = v \o <<Stop("scan", Absent)>> \o w /\ ScanTour = v
  BY <1>1, <1>3, <1>4 DEF Tour, ScanTour
<1> DEFINE m == Len(files)
           n == Len(Candidates)
<1>10. Stop("scan", Absent) \in Stops
  BY DEF Stop, Stops
<1>11. PICK tour : tour = Tour
  OBVIOUS
<1>12. PICK mid : mid = v \o <<Stop("scan", Absent)>>
  OBVIOUS
<1>13. /\ <<Stop("scan", Absent)>> \in Seq(Stops) /\ Len(<<Stop("scan", Absent)>>) = 1
       /\ <<Stop("scan", Absent)>>[1] = Stop("scan", Absent)
  BY <1>10
<1>14. /\ mid \in Seq(Stops) /\ Len(mid) = m + 1 /\ mid[m + 1] = Stop("scan", Absent)
       /\ \A i \in 1 .. m : mid[i] = v[i]
  BY <1>7, <1>12, <1>13
<1>15. tour = mid \o w
  BY <1>9, <1>11, <1>12
<1>16. /\ tour \in Seq(Stops) /\ Len(tour) = m + 1 + n
       /\ \A i \in 1 .. m + 1 : tour[i] = mid[i]
       /\ \A i \in 1 .. n : tour[m + 1 + i] = w[i]
  <2>1. /\ mid \o w \in Seq(Stops) /\ Len(mid \o w) = Len(mid) + Len(w)
        /\ \A i \in 1 .. Len(mid) : (mid \o w)[i] = mid[i]
        /\ \A i \in 1 .. Len(w) : (mid \o w)[Len(mid) + i] = w[i]
    <3>1. mid \in Seq(Stops) /\ w \in Seq(Stops)
      BY <1>8, <1>14
    <3>2. QED
      BY <3>1, ConcatHas
  <2>2. Len(mid) = m + 1 /\ Len(w) = n
    BY <1>8, <1>14
  <2> HIDE DEF m, n
  <2>3. QED
    BY <1>15, <2>1, <2>2
<1>17. m \in Nat /\ n \in Nat /\ SocketStop = m + 1
  BY <1>7, <1>8, <1>9 DEF SocketStop
<1>18. \A i \in 1 .. m : tour[i] = Stop("scan", files[i]) /\ files[i] \in File
  BY <1>7, <1>14, <1>16, <1>17
<1>19. tour[m + 1] = Stop("scan", Absent)
  BY <1>14, <1>16, <1>17
<1>20. DOMAIN files = 1 .. m /\ DOMAIN Candidates = 1 .. n
  BY <1>2, <1>5
<1>21. \A i \in 1 .. n : tour[m + 1 + i] = Stop("trust", Candidates[i])
                           /\ Candidates[i] \in File \ {Env}
  BY <1>5, <1>8, <1>16, <1>20 DEF ToSet
<1> HIDE DEF m, n
<1>22. \A i \in m + 2 .. m + 1 + n :
         \E k \in 1 .. n : i = m + 1 + k
  <2> SUFFICES ASSUME NEW i \in m + 2 .. m + 1 + n PROVE \E k \in 1 .. n : i = m + 1 + k
    OBVIOUS
  <2>1. i - (m + 1) \in 1 .. n /\ i = m + 1 + (i - (m + 1))
    BY <1>17
  <2>2. QED
    BY <2>1
<1>23. \A i \in m + 2 .. m + 1 + n : tour[i].cmd = "trust" /\ tour[i].file \in File \ {Env}
  <2> SUFFICES ASSUME NEW i \in m + 2 .. m + 1 + n
               PROVE  tour[i].cmd = "trust" /\ tour[i].file \in File \ {Env}
    OBVIOUS
  <2>1. PICK k \in 1 .. n : i = m + 1 + k
    BY <1>22
  <2>2. tour[i] = Stop("trust", Candidates[k]) /\ Candidates[k] \in File \ {Env}
    BY <1>21, <2>1
  <2>3. QED
    BY <2>2 DEF Stop
<1>24. \A i \in 1 .. m : tour[i].cmd = "scan" /\ tour[i].file \in File
  <2> SUFFICES ASSUME NEW i \in 1 .. m PROVE tour[i].cmd = "scan" /\ tour[i].file \in File
    OBVIOUS
  <2>1. tour[i] = Stop("scan", files[i]) /\ files[i] \in File
    BY <1>18
  <2>2. QED
    BY <2>1 DEF Stop
<1>25. \A f \in File : \E i \in 1 .. m : tour[i] = Stop("scan", f)
  BY <1>2, <1>18, <1>20 DEF ToSet
<1>26. \A f \in File \ {Env} : \E i \in m + 2 .. m + 1 + n : tour[i] = Stop("trust", f)
  <2> SUFFICES ASSUME NEW f \in File \ {Env}
               PROVE  \E i \in m + 2 .. m + 1 + n : tour[i] = Stop("trust", f)
    OBVIOUS
  <2>1. PICK k \in 1 .. n : Candidates[k] = f
    BY <1>5, <1>20 DEF ToSet
  <2>2. tour[m + 1 + k] = Stop("trust", f) /\ m + 1 + k \in m + 2 .. m + 1 + n
    BY <1>17, <1>21, <2>1
  <2>3. QED
    BY <2>2
<1>27. ASSUME NEW i \in 1 .. m + 1 + n, NEW j \in 1 .. m + 1 + n, tour[i] = tour[j]
       PROVE  i = j
  <2>1. ASSUME NEW k \in 1 .. m + 1 + n PROVE k \in 1 .. m \/ k = m + 1 \/ k \in m + 2 .. m + 1 + n
    BY <1>17
  <2>2. CASE i \in 1 .. m /\ j \in 1 .. m
    <3>1. Stop("scan", files[i]) = Stop("scan", files[j])
      BY <1>18, <1>27, <2>2
    <3>2. files[i] = files[j]
      BY <3>1 DEF Stop
    <3>3. QED
      BY <1>2, <1>20, <2>2, <3>2 DEF IsInjective
  <2>3. CASE i \in m + 2 .. m + 1 + n /\ j \in m + 2 .. m + 1 + n
    <3>1. PICK a \in 1 .. n : i = m + 1 + a
      BY <1>22, <2>3
    <3>2. PICK b \in 1 .. n : j = m + 1 + b
      BY <1>22, <2>3
    <3>3. Stop("trust", Candidates[a]) = Stop("trust", Candidates[b])
      BY <1>21, <1>27, <3>1, <3>2
    <3>4. Candidates[a] = Candidates[b]
      BY <3>3 DEF Stop
    <3>5. a = b
      BY <1>5, <1>20, <3>4 DEF IsInjective
    <3>6. QED
      BY <3>1, <3>2, <3>5
  <2>4. /\ tour[m + 1].cmd = "scan" /\ tour[m + 1].file = Absent
    BY <1>19 DEF Stop
  <2>5. CASE i = m + 1 /\ j # m + 1
    <3>1. j \in 1 .. m \/ j \in m + 2 .. m + 1 + n
      BY <2>1, <2>5
    <3>2. tour[j].cmd = "scan" /\ tour[j].file = Absent
      BY <1>27, <2>4, <2>5
    <3>3. QED
      BY <1>5, <1>23, <1>24, <3>1, <3>2
  <2>6. CASE j = m + 1 /\ i # m + 1
    <3>1. i \in 1 .. m \/ i \in m + 2 .. m + 1 + n
      BY <2>1, <2>6
    <3>2. tour[i].cmd = "scan" /\ tour[i].file = Absent
      BY <1>27, <2>4, <2>6
    <3>3. QED
      BY <1>5, <1>23, <1>24, <3>1, <3>2
  <2>7. CASE i \in 1 .. m /\ j \in m + 2 .. m + 1 + n
    BY <1>23, <1>24, <1>27, <2>7
  <2>8. CASE j \in 1 .. m /\ i \in m + 2 .. m + 1 + n
    BY <1>23, <1>24, <1>27, <2>8
  <2>9. QED
    BY <2>1, <2>2, <2>3, <2>5, <2>6, <2>7, <2>8
<1>28. SocketStop - 1 = m /\ SocketStop + 1 = m + 2 /\ SocketStop \in 1 .. m + 1 + n
  BY <1>17
<1>29. QED
  BY <1>11, <1>16, <1>17, <1>19, <1>23, <1>24, <1>25, <1>26, <1>27, <1>28 DEF m, n

----------------------------------------------------------------------------
(* The invariant.                                                          *)

Steps == {"exists", "resolve", "stat", "read", "audit", "mode", "sockets", "done", "crashed"}

(* The stops the tour has behind it, and the files nobody has touched.     *)
Passed(cmd, f) == \E i \in 1 .. at - 1 : Tour[i] = Stop(cmd, f)
Unchanging(f) == since[f] = {disk[f]}

ProfilesDue(state) == IF Readable(state) THEN Profiles(state) ELSE << >>

TypeInv ==
  /\ disk \in [File -> State \cup {Absent}]
  /\ since \in [File -> SUBSET (State \cup {Absent})]
  /\ \A f \in File :
       IsFiniteSet(since[f]) /\ since[f] \subseteq States[f] /\ disk[f] \in since[f]
  /\ at \in 1 .. Len(Tour) + 1
  /\ step \in Steps
  /\ raw \in State \cup {Absent}
  /\ servers \in Seq(Listed) /\ profiles \in Seq(Profiled)
  /\ exit \in {-1, 0, 1} /\ (exit = -1 <=> listing = "none")

(* Which call is next at which stop, and when there is an exit status.     *)
PlaceInv ==
  /\ step = "sockets" <=> at = SocketStop
  /\ step = "done" <=> at = Len(Tour) + 1
  /\ step = "exists" => LooksFirst(Tour[at])
  /\ step = "mode" => Here = Env
  /\ step = "audit" => Here # Env
  /\ exit = -1 <=> at <= SocketStop

(* The content in hand was in the file.                                    *)
HandInv ==
  /\ step \in {"audit", "mode"} => raw \in since[Here] \ {Absent}
  /\ step \notin {"audit", "mode", "crashed"} => raw = Absent

(* What the calls made so far say of a file nobody has touched.            *)
Cleared(next, stop, state) ==
  /\ next = "resolve" /\ LooksFirst(stop)
       => state # Absent /\ state.obstacle \notin {"hidden", "loop"}
  /\ next = "stat" => state = Absent \/ state.obstacle \notin {"escapes", "loop"}
  /\ next = "read" => state # Absent /\ state.obstacle \notin {"escapes", "huge", "hidden", "loop"}
  /\ next \in {"audit", "mode"} => Readable(state)
  /\ next = "crashed" => Kills(stop, state)

SteadyInv ==
  at <= Len(Tour) /\ Here \in File /\ Unchanging(Here) => Cleared(step, Tour[at], disk[Here])

(* Of such a file the report and the profiles have what is due, from the   *)
(* moment the tour has passed it.                                          *)
Holds(list, cmd, f, due) ==
  /\ Passed(cmd, f) => EntriesOf(list, f) = From(f, due)
  /\ ~Passed(cmd, f) => EntriesOf(list, f) = << >>

ReportInv == \A f \in File : Unchanging(f) => Holds(servers, "scan", f, Due(f, disk[f]))

TrustInv ==
  \A f \in File \ {Env} : Unchanging(f) => Holds(profiles, "trust", f, ProfilesDue(disk[f]))

(* Every row of a file comes from states the file was in.                  *)
Grounded(entry) ==
  LET there == since[entry.file] \ {Absent}
  IN  \/ entry.file = Env
           /\ \E s, t \in there : entry.row \in ToSet(AuditEnv(s.secrets, t.shared))
      \/ entry.file # Env /\ \E s \in there : entry.row \in ToSet(AuditConfig(Parsed(s)))

ThereInv == \A entry \in ToSet(servers) : entry.file # Absent => Grounded(entry)

ScanInv == /\ TypeInv /\ PlaceInv /\ HandInv /\ SteadyInv
           /\ ReportInv /\ TrustInv /\ ThereInv

----------------------------------------------------------------------------
(* Where the tour is.                                                      *)

LEMMA FirstStepIs ==
  ASSUME NEW i \in 1 .. Len(Tour) + 1
  PROVE  /\ FirstStep(i) \in {"done", "sockets", "resolve", "exists"}
         /\ FirstStep(i) = "sockets" <=> i = SocketStop
         /\ FirstStep(i) = "done" <=> i = Len(Tour) + 1
         /\ FirstStep(i) = "resolve" => ~LooksFirst(Tour[i])
         /\ FirstStep(i) = "exists" => LooksFirst(Tour[i])
<1>1. Len(Tour) \in Nat /\ SocketStop \in 1 .. Len(Tour)
  BY TourFacts
<1>2. CASE i = Len(Tour) + 1
  BY <1>1, <1>2 DEF FirstStep
<1>3. CASE i = SocketStop
  <2>1. Tour[i].file = Absent
    BY <1>3, TourFacts DEF Stop
  <2>2. FirstStep(i) = "sockets"
    BY <1>1, <1>3, <2>1 DEF FirstStep
  <2>3. QED
    BY <1>1, <1>3, <2>2
<1>4. CASE i # Len(Tour) + 1 /\ i # SocketStop
  <2>1. Tour[i].file \in File /\ i <= Len(Tour)
    <3>1. i \in 1 .. SocketStop - 1 \/ i \in SocketStop + 1 .. Len(Tour)
      BY <1>1, <1>4
    <3>2. QED
      BY <1>1, <1>4, <3>1, TourFacts
  <2>2. Tour[i].file # Absent
    BY <2>1, ScanAssumption
  <2>3. /\ FirstStep(i) \in {"resolve", "exists"}
        /\ FirstStep(i) = "resolve" => ~LooksFirst(Tour[i])
        /\ FirstStep(i) = "exists" => LooksFirst(Tour[i])
    BY <1>1, <2>1, <2>2 DEF FirstStep
  <2>4. QED
    BY <1>4, <2>3
<1>5. QED
  BY <1>2, <1>3, <1>4

(* Between the ends and off the sockets, the tour is at a file.            *)
LEMMA AtFile ==
  ASSUME TypeInv, PlaceInv, step \notin {"sockets", "done"}
  PROVE  /\ at \in 1 .. Len(Tour) /\ at # SocketStop
         /\ Here \in File /\ Here # Absent /\ Tour[at] = Stop(Tour[at].cmd, Here)
         /\ Scanning <=> at < SocketStop
         /\ ~Scanning => Here # Env /\ Tour[at].cmd = "trust"
<1>1. /\ Len(Tour) \in Nat /\ SocketStop \in 1 .. Len(Tour)
      /\ at \in 1 .. Len(Tour) /\ at # SocketStop
  <2>1. at \in 1 .. Len(Tour) + 1 /\ at # SocketStop /\ at # Len(Tour) + 1
    BY DEF TypeInv, PlaceInv
  <2>2. Len(Tour) \in Nat /\ SocketStop \in 1 .. Len(Tour)
    BY TourFacts
  <2>3. QED
    BY <2>1, <2>2
<1>2. at \in 1 .. SocketStop - 1 \/ at \in SocketStop + 1 .. Len(Tour)
  BY <1>1
<1>3. Tour[at] \in Stops
  BY <1>1, TourFacts
<1>4. Tour[at] = Stop(Tour[at].cmd, Here)
  BY <1>3 DEF Stops, Stop, Here
<1>5. CASE at \in 1 .. SocketStop - 1
  <2>1. Here \in File /\ Tour[at].cmd = "scan"
    BY <1>5, TourFacts DEF Here
  <2>2. QED
    BY <1>1, <1>4, <1>5, <2>1, ScanAssumption DEF Scanning
<1>6. CASE at \in SocketStop + 1 .. Len(Tour)
  <2>1. Here \in File /\ Here # Env /\ Tour[at].cmd = "trust"
    BY <1>6, TourFacts DEF Here
  <2>2. QED
    BY <1>1, <1>4, <1>6, <2>1, ScanAssumption DEF Scanning
<1>7. QED
  BY <1>2, <1>5, <1>6

(* Going on to the next stop passes the one it was at, for the first time. *)
LEMMA PassedAfter ==
  ASSUME TypeInv, at \in 1 .. Len(Tour), at' = at + 1, NEW cmd, NEW f
  PROVE  /\ Passed(cmd, f)' <=> Passed(cmd, f) \/ Tour[at] = Stop(cmd, f)
         /\ Tour[at] = Stop(cmd, f) => ~Passed(cmd, f)
<1>1. Len(Tour) \in Nat
  BY TourFacts
<1>2. 1 .. at' - 1 = (1 .. at - 1) \cup {at}
  BY <1>1
<1>3. \A i \in 1 .. at - 1 : i \in 1 .. Len(Tour) /\ i # at
  BY <1>1
<1>4. Tour[at] = Stop(cmd, f) => ~Passed(cmd, f)
  BY <1>3, TourFacts DEF Passed
<1>5. Passed(cmd, f)' <=> \E i \in 1 .. at' - 1 : Tour[i] = Stop(cmd, f)
  BY DEF Passed
<1>6. QED
  BY <1>2, <1>4, <1>5 DEF Passed

(* A file is steady when it has been in one state only.                    *)
LEMMA SteadyIs ==
  ASSUME TypeInv, NEW f \in File
  PROVE  Steady(f) <=> Unchanging(f)
<1>1. IsFiniteSet(since[f]) /\ disk[f] \in since[f]
  BY DEF TypeInv
<1>2. ASSUME Steady(f) PROVE Unchanging(f)
  <2>1. PICK x : since[f] = {x}
    BY <1>1, <1>2, FS_Singleton DEF Steady
  <2>2. QED
    BY <1>1, <2>1 DEF Unchanging
<1>3. ASSUME Unchanging(f) PROVE Steady(f)
  <2>1. Cardinality({disk[f]}) = 1
    BY FS_Singleton
  <2>2. QED
    BY <1>3, <2>1 DEF Unchanging, Steady
<1>4. QED
  BY <1>2, <1>3

----------------------------------------------------------------------------
(* The parts of a step.                                                    *)

Files == <<disk, since>>

(* Arriving at the next stop, there is nothing in hand.                    *)
LEMMA Arrive ==
  ASSUME TypeInv, at \in 1 .. Len(Tour), MoveOn, exit' = -1 <=> at' <= SocketStop
  PROVE  /\ at' \in 1 .. Len(Tour) + 1 /\ step' \in Steps /\ raw' \in State \cup {Absent}
         /\ PlaceInv' /\ HandInv' /\ SteadyInv'
<1>1. Len(Tour) \in Nat /\ SocketStop \in 1 .. Len(Tour)
  BY TourFacts
<1>2. at' = at + 1 /\ step' = FirstStep(at') /\ raw' = Absent
  BY DEF MoveOn
<1>3. at' \in 1 .. Len(Tour) + 1
  BY <1>1, <1>2
<1>4. /\ step' \in {"done", "sockets", "resolve", "exists"}
      /\ step' = "sockets" <=> at' = SocketStop
      /\ step' = "done" <=> at' = Len(Tour) + 1
      /\ step' = "resolve" => ~LooksFirst(Tour[at'])
      /\ step' = "exists" => LooksFirst(Tour[at'])
  BY <1>2, <1>3, FirstStepIs
<1>5. PlaceInv'
  BY <1>4 DEF PlaceInv
<1>6. HandInv'
  BY <1>2, <1>4 DEF HandInv
<1>7. SteadyInv'
  <2>1. \A state : Cleared(step', Tour[at'], state)
    BY <1>4 DEF Cleared
  <2>2. QED
    BY <2>1 DEF SteadyInv
<1>8. QED
  BY <1>2, <1>3, <1>4, <1>5, <1>6, <1>7 DEF Steps

(* A file that has been passed has its rows, the others are as they were.  *)
LEMMA ListAfter ==
  ASSUME TypeInv, at \in 1 .. Len(Tour), at' = at + 1,
         NEW X, NEW list \in Seq(X), NEW more \in Seq(X),
         NEW g, \A i \in DOMAIN more : more[i].file = g,
         NEW cmd, Tour[at] = Stop(cmd, g),
         NEW f, NEW due, Holds(list, cmd, f, due), f = g => more = From(f, due)
  PROVE  /\ Passed(cmd, f)' => EntriesOf(Grown(list, more), f) = From(f, due)
         /\ ~Passed(cmd, f)' => EntriesOf(Grown(list, more), f) = << >>
<1>1. /\ Passed(cmd, f)' <=> Passed(cmd, f) \/ Tour[at] = Stop(cmd, f)
      /\ Tour[at] = Stop(cmd, f) => ~Passed(cmd, f)
  BY PassedAfter
<1>2. /\ f = g /\ EntriesOf(list, f) = << >> => EntriesOf(Grown(list, more), f) = more
      /\ f # g => EntriesOf(Grown(list, more), f) = EntriesOf(list, f)
  BY EntriesAfter
<1>3. CASE f = g
  <2>1. Passed(cmd, f)' /\ ~Passed(cmd, f)
    BY <1>1, <1>3
  <2>2. EntriesOf(list, f) = << >>
    BY <2>1 DEF Holds
  <2>3. QED
    BY <1>2, <1>3, <2>1, <2>2
<1>4. CASE f # g
  <2>1. Stop(cmd, g) # Stop(cmd, f)
    BY <1>4 DEF Stop
  <2>2. Passed(cmd, f)' <=> Passed(cmd, f)
    BY <1>1, <2>1
  <2>3. QED
    BY <1>2, <1>4, <2>2 DEF Holds
<1>5. QED
  BY <1>3, <1>4

(* A list that stays as it is holds as much, when another command passes.  *)
LEMMA HoldsAfter ==
  ASSUME TypeInv, at \in 1 .. Len(Tour), at' = at + 1, NEW list, NEW due,
         NEW cmd, NEW f, Tour[at] # Stop(cmd, f), Holds(list, cmd, f, due)
  PROVE  /\ Passed(cmd, f)' => EntriesOf(list, f) = From(f, due)
         /\ ~Passed(cmd, f)' => EntriesOf(list, f) = << >>
<1>1. Passed(cmd, f)' <=> Passed(cmd, f)
  BY PassedAfter
<1>2. QED
  BY <1>1 DEF Holds

(* What is not there to be read gives nothing.                             *)
LEMMA NothingDue ==
  ASSUME NEW f, NEW state, ~Readable(state)
  PROVE  Due(f, state) = << >> /\ ProfilesDue(state) = << >>
BY DEF Due, ProfilesDue

(* Scan passes a stop.                                                     *)
LEMMA ScanPasses ==
  ASSUME TypeInv, PlaceInv, ReportInv, TrustInv, Tour[at].cmd = "scan",
         at \in 1 .. Len(Tour), Here \in File, Tour[at] = Stop("scan", Here),
         at' = at + 1, UNCHANGED <<Files, profiles>>,
         NEW rows \in Seq(Row), servers' = servers \o From(Here, rows),
         Unchanging(Here) => rows = Due(Here, disk[Here])
  PROVE  servers' \in Seq(Listed) /\ ReportInv' /\ TrustInv'
<1>1. servers \in Seq(Listed) /\ Here \in File \cup {Absent}
  BY DEF TypeInv
<1>2. From(Here, rows) \in Seq(Listed)
  BY <1>1, FromGives DEF Listed
<1>3. servers' \in Seq(Listed)
  BY <1>1, <1>2
<1>4. ReportInv'
  <2> SUFFICES ASSUME NEW f \in File, Unchanging(f)'
               PROVE  Holds(servers, "scan", f, Due(f, disk[f]))'
    BY DEF ReportInv
  <2>1. Unchanging(f) /\ disk' = disk
    BY DEF Unchanging, Files
  <2> DEFINE due == Due(f, disk[f])
  <2>2. Holds(servers, "scan", f, due)
    BY <2>1 DEF ReportInv
  <2>3. f = Here => rows = due
    BY <2>1
  <2>5. due' = due
    BY <2>1 DEF Due, Readable
  <2> HIDE DEF due
  <2>6. /\ Passed("scan", f)' => EntriesOf(servers', f) = From(f, due)
        /\ ~Passed("scan", f)' => EntriesOf(servers', f) = << >>
    <3>1. PICK more : more = From(Here, rows)
      OBVIOUS
    <3>2. PICK g : g = Here
      OBVIOUS
    <3>3. more \in Seq(Listed) /\ \A i \in DOMAIN more : more[i].file = g
      BY <1>2, <3>1, <3>2, FromFile
    <3>4. f = g => more = From(f, due)
      BY <2>3, <3>1, <3>2
    <3>5. Tour[at] = Stop("scan", g)
      BY <3>2
    <3>6. servers' = Grown(servers, more)
      BY <3>1 DEF Grown
    <3>7. /\ Passed("scan", f)' => EntriesOf(Grown(servers, more), f) = From(f, due)
          /\ ~Passed("scan", f)' => EntriesOf(Grown(servers, more), f) = << >>
      BY <1>1, <2>2, <3>3, <3>4, <3>5, ListAfter
    <3>8. QED
      BY <3>6, <3>7
  <2>7. QED
    BY <2>5, <2>6 DEF Holds, EntriesOf, From, due
<1>5. TrustInv'
  <2> SUFFICES ASSUME NEW f \in File \ {Env}, Unchanging(f)'
               PROVE  Holds(profiles, "trust", f, ProfilesDue(disk[f]))'
    BY DEF TrustInv
  <2>1. Unchanging(f) /\ disk' = disk /\ profiles' = profiles
    BY DEF Unchanging, Files
  <2> DEFINE due == ProfilesDue(disk[f])
  <2>2. Holds(profiles, "trust", f, due)
    BY <2>1 DEF TrustInv
  <2>3. Tour[at] # Stop("trust", f)
    BY DEF Stop
  <2>4. due' = due
    BY <2>1
  <2> HIDE DEF due
  <2>5. /\ Passed("trust", f)' => EntriesOf(profiles, f) = From(f, due)
        /\ ~Passed("trust", f)' => EntriesOf(profiles, f) = << >>
    BY <2>2, <2>3, HoldsAfter
  <2>6. QED
    BY <2>1, <2>4, <2>5 DEF Holds, EntriesOf, From, due
<1>6. QED
  BY <1>3, <1>4, <1>5

(* Trust passes a stop.                                                    *)
LEMMA TrustPasses ==
  ASSUME TypeInv, PlaceInv, ReportInv, TrustInv, Tour[at].cmd = "trust",
         at \in 1 .. Len(Tour), Here \in File, Tour[at] = Stop("trust", Here),
         at' = at + 1, UNCHANGED <<Files, servers>>,
         NEW rows \in Seq({Profile(d) : d \in Declaration}),
         profiles' = profiles \o From(Here, rows),
         Unchanging(Here) => rows = ProfilesDue(disk[Here])
  PROVE  profiles' \in Seq(Profiled) /\ ReportInv' /\ TrustInv'
<1> DEFINE R == {Profile(d) : d \in Declaration}
<1>1. profiles \in Seq([file : File, row : R]) /\ rows \in Seq(R)
  BY DEF TypeInv, Profiled
<1>2. Profiled = [file : File, row : R]
  BY DEF Profiled
<1> HIDE DEF R
<1>3. From(Here, rows) \in Seq([file : File, row : R])
  BY <1>1, FromGives
<1>4. profiles' \in Seq(Profiled)
  BY <1>1, <1>2, <1>3
<1>5. TrustInv'
  <2> SUFFICES ASSUME NEW f \in File \ {Env}, Unchanging(f)'
               PROVE  Holds(profiles, "trust", f, ProfilesDue(disk[f]))'
    BY DEF TrustInv
  <2>1. Unchanging(f) /\ disk' = disk
    BY DEF Unchanging, Files
  <2> DEFINE due == ProfilesDue(disk[f])
  <2>2. Holds(profiles, "trust", f, due)
    BY <2>1 DEF TrustInv
  <2>3. f = Here => rows = due
    BY <2>1
  <2>4. due' = due
    BY <2>1
  <2> HIDE DEF due
  <2>5. /\ Passed("trust", f)' => EntriesOf(profiles', f) = From(f, due)
        /\ ~Passed("trust", f)' => EntriesOf(profiles', f) = << >>
    <3>1. PICK more : more = From(Here, rows)
      OBVIOUS
    <3>2. PICK g : g = Here
      OBVIOUS
    <3>3. PICK X : X = [file : File, row : R]
      OBVIOUS
    <3>4. profiles \in Seq(X) /\ more \in Seq(X)
      BY <1>1, <1>3, <3>1, <3>3
    <3>5. \A i \in DOMAIN more : more[i].file = g
      BY <3>1, <3>2, FromFile
    <3>6. f = g => more = From(f, due)
      BY <2>3, <3>1, <3>2
    <3>7. Tour[at] = Stop("trust", g)
      BY <3>2
    <3>8. profiles' = Grown(profiles, more)
      BY <3>1 DEF Grown
    <3>9. /\ Passed("trust", f)' => EntriesOf(Grown(profiles, more), f) = From(f, due)
          /\ ~Passed("trust", f)' => EntriesOf(Grown(profiles, more), f) = << >>
      BY <2>2, <3>4, <3>5, <3>6, <3>7, ListAfter
    <3>10. QED
      BY <3>8, <3>9
  <2>6. QED
    BY <2>4, <2>5 DEF Holds, EntriesOf, From, due
<1>6. ReportInv'
  <2> SUFFICES ASSUME NEW f \in File, Unchanging(f)'
               PROVE  Holds(servers, "scan", f, Due(f, disk[f]))'
    BY DEF ReportInv
  <2>1. Unchanging(f) /\ disk' = disk /\ servers' = servers
    BY DEF Unchanging, Files
  <2> DEFINE due == Due(f, disk[f])
  <2>2. Holds(servers, "scan", f, due)
    BY <2>1 DEF ReportInv
  <2>3. Tour[at] # Stop("scan", f)
    BY DEF Stop
  <2>4. due' = due
    BY <2>1
  <2> HIDE DEF due
  <2>5. /\ Passed("scan", f)' => EntriesOf(servers, f) = From(f, due)
        /\ ~Passed("scan", f)' => EntriesOf(servers, f) = << >>
    BY <2>2, <2>3, HoldsAfter
  <2>6. QED
    BY <2>1, <2>4, <2>5 DEF Holds, EntriesOf, From, due
<1>7. QED
  BY <1>4, <1>5, <1>6


LEMMA FromHas ==
  ASSUME NEW g, NEW R, NEW rows \in Seq(R), NEW more, more = From(g, rows)
  PROVE  \A entry \in ToSet(more) : entry.file = g /\ entry.row \in ToSet(rows)
<1>1. DOMAIN rows = 1 .. Len(rows)
  OBVIOUS
<1>2. /\ DOMAIN From(g, rows) = 1 .. Len(rows)
      /\ \A i \in 1 .. Len(rows) : From(g, rows)[i] = [file |-> g, row |-> rows[i]]
  BY FromRows
<1>3. QED
  BY <1>1, <1>2 DEF ToSet

(* What was found stays found, whatever is done to the files.              *)
LEMMA ThereGrows ==
  ASSUME TypeInv, ThereInv, \A f \in File : since[f] \subseteq since'[f],
         NEW more \in Seq(Listed), servers' = servers \o more,
         \A entry \in ToSet(more) : entry.file # Absent => Grounded(entry)'
  PROVE  ThereInv'
<1>1. servers \in Seq(Listed)
  BY DEF TypeInv
<1>2. ToSet(servers \o more) = ToSet(servers) \cup ToSet(more) /\ ToSet(servers) \subseteq Listed
  BY <1>1, ConcatHas, ValuesOf
<1>3. ToSet(servers') = ToSet(servers) \cup ToSet(more)
  BY <1>2
<1>4. ASSUME NEW entry \in ToSet(servers), entry.file # Absent PROVE Grounded(entry)'
  <2>1. Grounded(entry) /\ entry.file \in File
    BY <1>2, <1>4 DEF ThereInv, Listed
  <2>2. since[entry.file] \subseteq since'[entry.file]
    BY <2>1
  <2>3. QED
    BY <2>1, <2>2 DEF Grounded
<1>5. QED
  BY <1>3, <1>4 DEF ThereInv

LEMMA ThereStays ==
  ASSUME ThereInv, servers' = servers, since' = since
  PROVE  ThereInv'
BY DEF ThereInv, Grounded

(* A stop of the scan is left with the rows of its file.                   *)
LEMMA ScanStop ==
  ASSUME ScanInv, step \notin {"sockets", "done"}, Scanning, MoveOn,
         UNCHANGED <<disk, since, profiles, listing, exit>>,
         NEW rows \in Seq(Row), servers' = servers \o From(Here, rows),
         Unchanging(Here) => rows = Due(Here, disk[Here]),
         \A entry \in ToSet(From(Here, rows)) : Grounded(entry)
  PROVE  ScanInv'
<1>1. TypeInv /\ PlaceInv /\ ReportInv /\ TrustInv /\ ThereInv
  BY DEF ScanInv
<1>2. /\ at \in 1 .. Len(Tour) /\ at # SocketStop /\ Here \in File /\ Here # Absent
      /\ Tour[at] = Stop(Tour[at].cmd, Here) /\ at < SocketStop
  BY <1>1, AtFile
<1>3. at' = at + 1 /\ Tour[at].cmd = "scan"
  BY DEF MoveOn, Scanning
<1>4. Tour[at] = Stop("scan", Here)
  BY <1>2, <1>3
<1>5. SocketStop \in Nat
  BY TourFacts
<1>6. exit' = -1 <=> at' <= SocketStop
  BY <1>1, <1>2, <1>3, <1>5 DEF PlaceInv
<1>7. /\ at' \in 1 .. Len(Tour) + 1 /\ step' \in Steps /\ raw' \in State \cup {Absent}
      /\ PlaceInv' /\ HandInv' /\ SteadyInv'
  BY <1>1, <1>2, <1>6, Arrive
<1>8. UNCHANGED <<Files, profiles>>
  BY DEF Files
<1>9. servers' \in Seq(Listed) /\ ReportInv' /\ TrustInv'
  BY <1>1, <1>2, <1>3, <1>4, <1>8, ScanPasses
<1>10. TypeInv'
  BY <1>1, <1>7, <1>9 DEF TypeInv
<1>11. ThereInv'
  <2>1. Here \in File \cup {Absent}
    BY <1>2
  <2>2. PICK more : more = From(Here, rows)
    OBVIOUS
  <2>3. more \in Seq(Listed)
    BY <2>1, <2>2, FromGives DEF Listed
  <2>4. \A f \in File : since[f] \subseteq since'[f]
    OBVIOUS
  <2>5. \A entry \in ToSet(more) : entry.file # Absent => Grounded(entry)'
    BY <2>2 DEF Grounded
  <2>6. servers' = servers \o more
    BY <2>2
  <2>7. QED
    BY <1>1, <2>3, <2>4, <2>5, <2>6, ThereGrows
<1>12. QED
  BY <1>7, <1>9, <1>10, <1>11 DEF ScanInv

(* A stop of trust is left with the profiles of its file.                  *)
LEMMA TrustStop ==
  ASSUME ScanInv, step \notin {"sockets", "done"}, ~Scanning, MoveOn,
         UNCHANGED <<disk, since, servers, listing, exit>>,
         NEW rows \in Seq({Profile(d) : d \in Declaration}),
         profiles' = profiles \o From(Here, rows),
         Unchanging(Here) => rows = ProfilesDue(disk[Here])
  PROVE  ScanInv'
<1>1. TypeInv /\ PlaceInv /\ ReportInv /\ TrustInv /\ ThereInv
  BY DEF ScanInv
<1>2. /\ at \in 1 .. Len(Tour) /\ at # SocketStop /\ Here \in File
      /\ Tour[at] = Stop(Tour[at].cmd, Here) /\ ~(at < SocketStop) /\ Tour[at].cmd = "trust"
  BY <1>1, AtFile
<1>3. at' = at + 1
  BY DEF MoveOn
<1>4. Tour[at] = Stop("trust", Here)
  BY <1>2
<1>5. SocketStop \in Nat
  BY TourFacts
<1>6. exit' = -1 <=> at' <= SocketStop
  BY <1>1, <1>2, <1>3, <1>5 DEF PlaceInv
<1>7. /\ at' \in 1 .. Len(Tour) + 1 /\ step' \in Steps /\ raw' \in State \cup {Absent}
      /\ PlaceInv' /\ HandInv' /\ SteadyInv'
  BY <1>1, <1>2, <1>6, Arrive
<1>8. UNCHANGED <<Files, servers>>
  BY DEF Files
<1>9. profiles' \in Seq(Profiled) /\ ReportInv' /\ TrustInv'
  BY <1>1, <1>2, <1>3, <1>4, <1>8, TrustPasses
<1>10. TypeInv'
  BY <1>1, <1>7, <1>9 DEF TypeInv
<1>11. ThereInv'
  BY <1>1, ThereStays
<1>12. QED
  BY <1>7, <1>9, <1>10, <1>11 DEF ScanInv

(* A file that is not there to be read is passed over.                     *)
LEMMA Skip ==
  ASSUME ScanInv, step \notin {"sockets", "done"}, MoveOn,
         UNCHANGED <<disk, since, servers, profiles, listing, exit>>,
         Unchanging(Here) => ~Readable(disk[Here])
  PROVE  ScanInv'
<1>1. servers \in Seq(Listed) /\ profiles \in Seq(Profiled)
  BY DEF ScanInv, TypeInv
<1>2. PICK none : none = << >>
  OBVIOUS
<1>3. From(Here, none) = << >>
  BY <1>2, FromNothing
<1>4. servers \o << >> = servers /\ profiles \o << >> = profiles
  BY <1>1
<1>5. servers' = servers \o From(Here, none) /\ profiles' = profiles \o From(Here, none)
  BY <1>3, <1>4
<1>6. none \in Seq(Row) /\ none \in Seq({Profile(d) : d \in Declaration})
  BY <1>2
<1>7. Unchanging(Here) => none = Due(Here, disk[Here]) /\ none = ProfilesDue(disk[Here])
  BY <1>2, NothingDue
<1>8. \A entry \in ToSet(From(Here, none)) : Grounded(entry)
  BY <1>3, NothingHas
<1>9. CASE Scanning
  BY <1>5, <1>6, <1>7, <1>8, <1>9, ScanStop
<1>10. CASE ~Scanning
  BY <1>5, <1>6, <1>7, <1>10, TrustStop
<1>11. QED
  BY <1>9, <1>10

(* The next call at the same stop.                                         *)
LEMMA SameStop ==
  ASSUME ScanInv, at' = at, UNCHANGED <<disk, since, servers, profiles, listing, exit>>
  PROVE  ReportInv' /\ TrustInv' /\ ThereInv'
<1>1. ThereInv'
  BY ThereStays DEF ScanInv
<1>2. \A cmd, f : Passed(cmd, f)' <=> Passed(cmd, f)
  BY DEF Passed
<1>3. ReportInv'
  BY <1>2 DEF ScanInv, ReportInv, Holds, Unchanging
<1>4. TrustInv'
  BY <1>2 DEF ScanInv, TrustInv, Holds, Unchanging
<1>5. QED
  BY <1>1, <1>3, <1>4

LEMMA Continue ==
  ASSUME ScanInv, step \in {"exists", "resolve", "stat"}, NEW next \in {"resolve", "stat", "read"},
         GoOn(next), UNCHANGED <<disk, since, raw, servers, profiles, listing, exit>>,
         Unchanging(Here) => Cleared(next, Tour[at], disk[Here])
  PROVE  ScanInv'
<1>1. at' = at /\ step' = next
  BY DEF GoOn
<1>2. ReportInv' /\ TrustInv' /\ ThereInv'
  BY <1>1, SameStop
<1>3. TypeInv'
  BY <1>1 DEF ScanInv, TypeInv, Steps
<1>4. PlaceInv'
  BY <1>1 DEF ScanInv, PlaceInv, Here
<1>5. HandInv'
  BY <1>1 DEF ScanInv, HandInv
<1>6. SteadyInv'
  BY <1>1 DEF SteadyInv, Unchanging, Here
<1>7. QED
  BY <1>2, <1>3, <1>4, <1>5, <1>6 DEF ScanInv

(* A command that dies where nobody touched the file dies of the file.     *)
LEMMA Dies ==
  ASSUME ScanInv, step \in {"exists", "resolve", "audit", "mode"}, GoOn("crashed"),
         UNCHANGED <<disk, since, raw, servers, profiles, listing, exit>>,
         Unchanging(Here) => Kills(Tour[at], disk[Here])
  PROVE  ScanInv'
<1>1. at' = at /\ step' = "crashed" /\ Here' = Here
  BY DEF GoOn, Here
<1>2. ReportInv' /\ TrustInv' /\ ThereInv'
  BY <1>1, SameStop
<1>3. TypeInv'
  BY <1>1 DEF ScanInv, TypeInv, Steps
<1>4. PlaceInv'
  BY <1>1 DEF ScanInv, PlaceInv
<1>5. HandInv'
  BY <1>1 DEF HandInv
<1>6. SteadyInv'
  BY <1>1 DEF SteadyInv, Cleared, Unchanging
<1>7. QED
  BY <1>2, <1>3, <1>4, <1>5, <1>6 DEF ScanInv

----------------------------------------------------------------------------
(* The steps.                                                              *)

(* At a stop of the tour, what is known of a file nobody touched.          *)
LEMMA KnownHere ==
  ASSUME ScanInv, step \notin {"sockets", "done"}
  PROVE  /\ Here \in File /\ Here # Absent /\ disk[Here] \in State \cup {Absent}
         /\ Unchanging(Here) => Cleared(step, Tour[at], disk[Here])
<1>1. at \in 1 .. Len(Tour) /\ Here \in File /\ Here # Absent /\ Len(Tour) \in Nat
  BY AtFile, TourFacts DEF ScanInv
<1>2. at <= Len(Tour)
  BY <1>1
<1>3. QED
  BY <1>1, <1>2 DEF ScanInv, SteadyInv, TypeInv

LEMMA LookKeeps == ScanInv /\ Look => ScanInv'
<1> SUFFICES ASSUME ScanInv, Look PROVE ScanInv'
  OBVIOUS
<1>1. step = "exists" /\ UNCHANGED <<disk, since, servers, profiles, listing, exit>>
  BY DEF Look
<1>2. CASE Missing({"loop"}) /\ MoveOn
  BY <1>1, <1>2, Skip DEF Readable, Missing
<1>3. CASE Is("hidden") /\ GoOn("crashed") /\ UNCHANGED raw
  <2>1. LooksFirst(Tour[at])
    BY <1>1 DEF ScanInv, PlaceInv
  <2>2. Kills(Tour[at], disk[Here])
    BY <1>3, <2>1 DEF Kills, Is
  <2>3. QED
    BY <1>1, <1>3, <2>2, Dies
<1>4. CASE ~Missing({"loop", "hidden"}) /\ GoOn("resolve") /\ UNCHANGED raw
  <2>1. Cleared("resolve", Tour[at], disk[Here])
    BY <1>4 DEF Cleared, Missing
  <2>2. QED
    BY <1>1, <1>4, <2>1, Continue
<1>5. QED
  BY <1>2, <1>3, <1>4 DEF Look

LEMMA ResolveKeeps == ScanInv /\ Resolve => ScanInv'
<1> SUFFICES ASSUME ScanInv, Resolve PROVE ScanInv'
  OBVIOUS
<1>1. step = "resolve" /\ UNCHANGED <<disk, since, servers, profiles, listing, exit>>
  BY DEF Resolve
<1>2. CASE Is("escapes") /\ MoveOn
  BY <1>1, <1>2, Skip DEF Readable, Is
<1>3. CASE Is("loop") /\ GoOn("crashed") /\ UNCHANGED raw
  <2>1. Unchanging(Here) => ~LooksFirst(Tour[at])
    BY <1>1, <1>3, KnownHere DEF Cleared, Is
  <2>2. Unchanging(Here) => Kills(Tour[at], disk[Here])
    BY <1>3, <2>1 DEF Kills, Is
  <2>3. QED
    BY <1>1, <1>3, <2>2, Dies
<1>4. CASE ~Is("escapes") /\ ~Is("loop") /\ GoOn("stat") /\ UNCHANGED raw
  <2>1. Cleared("stat", Tour[at], disk[Here])
    BY <1>4 DEF Cleared, Is
  <2>2. QED
    BY <1>1, <1>4, <2>1, Continue
<1>5. QED
  BY <1>2, <1>3, <1>4 DEF Resolve

LEMMA StatKeeps == ScanInv /\ Stat => ScanInv'
<1> SUFFICES ASSUME ScanInv, Stat PROVE ScanInv'
  OBVIOUS
<1>1. step = "stat" /\ UNCHANGED <<disk, since, servers, profiles, listing, exit>>
  BY DEF Stat
<1>2. CASE Missing({"huge", "hidden", "loop"}) /\ MoveOn
  BY <1>1, <1>2, Skip DEF Readable, Missing
<1>3. CASE ~Missing({"huge", "hidden", "loop"}) /\ GoOn("read") /\ UNCHANGED raw
  <2>1. Unchanging(Here) => Cleared("read", Tour[at], disk[Here])
    BY <1>1, <1>3, KnownHere DEF Cleared, Missing
  <2>2. QED
    BY <1>1, <1>3, <2>1, Continue
<1>4. QED
  BY <1>2, <1>3 DEF Stat

LEMMA ReadKeeps == ScanInv /\ Read => ScanInv'
<1> SUFFICES ASSUME ScanInv, Read PROVE ScanInv'
  OBVIOUS
<1>1. step = "read" /\ UNCHANGED <<disk, since, servers, profiles, listing, exit>>
  BY DEF Read
<1>2. CASE Missing({"denied", "hidden", "loop"}) /\ MoveOn
  BY <1>1, <1>2, Skip DEF Readable, Missing
<1>3. CASE /\ ~Missing({"denied", "hidden", "loop"})
           /\ raw' = disk[Here] /\ GoOn(IF Here = Env THEN "mode" ELSE "audit")
  <2>1. /\ Here \in File /\ disk[Here] \in State
        /\ Unchanging(Here) => Cleared("read", Tour[at], disk[Here])
    BY <1>1, <1>3, KnownHere DEF Missing
  <2>2. /\ at' = at /\ Here' = Here /\ step' \in {"audit", "mode"}
        /\ step' = "mode" <=> Here = Env
    BY <1>3 DEF GoOn, Here
  <2>3. ReportInv' /\ TrustInv' /\ ThereInv'
    BY <1>1, <2>2, SameStop
  <2>4. TypeInv'
    BY <1>1, <1>3, <2>1, <2>2 DEF ScanInv, TypeInv, Steps
  <2>5. PlaceInv'
    BY <1>1, <2>2 DEF ScanInv, PlaceInv
  <2>6. HandInv'
    <3>1. disk[Here] \in since[Here] \ {Absent}
      BY <1>3, <2>1 DEF ScanInv, TypeInv, Missing
    <3>2. QED
      BY <1>1, <1>3, <2>2, <3>1 DEF HandInv
  <2>7. SteadyInv'
    <3>1. Unchanging(Here) => Readable(disk[Here])
      BY <1>3, <2>1 DEF Cleared, Missing, Readable, State, Obstacle
    <3>2. QED
      BY <1>1, <2>2, <3>1 DEF SteadyInv, Cleared, Unchanging
  <2>8. QED
    BY <2>3, <2>4, <2>5, <2>6, <2>7 DEF ScanInv
<1>4. QED
  BY <1>2, <1>3 DEF Read

(* The content in hand, when there is one.                                 *)
LEMMA InHand ==
  ASSUME ScanInv, step \in {"audit", "mode"}
  PROVE  /\ Here \in File /\ raw \in State /\ raw \in since[Here] \ {Absent}
         /\ Unchanging(Here) => raw = disk[Here] /\ Readable(raw)
         /\ disk[Here] # Absent => disk[Here] \in State /\ disk[Here] \in since[Here] \ {Absent}
<1>1. Here \in File /\ Here # Absent /\ disk[Here] \in State \cup {Absent}
  BY KnownHere
<1>2. raw \in since[Here] \ {Absent} /\ raw \in State \cup {Absent} /\ disk[Here] \in since[Here]
  BY <1>1 DEF ScanInv, HandInv, TypeInv
<1>3. Unchanging(Here) => raw = disk[Here]
  BY <1>2 DEF Unchanging
<1>4. Unchanging(Here) => Readable(disk[Here])
  BY KnownHere DEF Cleared
<1>5. QED
  BY <1>1, <1>2, <1>3, <1>4

LEMMA ParserFailsKeeps == ScanInv /\ ParserFails => ScanInv'
<1> SUFFICES ASSUME ScanInv, ParserFails PROVE ScanInv'
  OBVIOUS
<1>1. /\ step = "audit" /\ raw.form \in Uncaught /\ GoOn("crashed")
      /\ UNCHANGED <<disk, since, raw, servers, profiles, listing, exit>>
  BY DEF ParserFails
<1>2. Here # Env
  BY <1>1 DEF ScanInv, PlaceInv
<1>3. ASSUME Unchanging(Here) PROVE Kills(Tour[at], disk[Here])
  <2>1. raw = disk[Here] /\ Readable(disk[Here])
    BY <1>1, <1>3, InHand
  <2>2. Tour[at].file = Here
    BY DEF Here
  <2>3. QED
    BY <1>1, <1>2, <2>1, <2>2 DEF Kills, Readable
<1>4. QED
  BY <1>1, <1>3, Dies

LEMMA AuditKeeps == ScanInv /\ Audit => ScanInv'
<1> SUFFICES ASSUME ScanInv, Audit PROVE ScanInv'
  OBVIOUS
<1>1. /\ step = "audit" /\ Scanning /\ MoveOn
      /\ servers' = servers \o From(Here, AuditConfig(Parsed(raw)))
      /\ UNCHANGED <<disk, since, profiles, listing, exit>>
  BY DEF Audit
<1>2. /\ Here \in File /\ raw \in State /\ raw \in since[Here] \ {Absent}
      /\ Unchanging(Here) => raw = disk[Here] /\ Readable(raw)
  BY <1>1, InHand
<1>3. Here # Env
  BY <1>1 DEF ScanInv, PlaceInv
<1>4. PICK rows : rows = AuditConfig(Parsed(raw))
  OBVIOUS
<1>5. rows \in Seq(Row)
  BY <1>2, <1>4, ConfigRows
<1>6. Unchanging(Here) => rows = Due(Here, disk[Here])
  BY <1>2, <1>3, <1>4 DEF Due
<1>7. \A entry \in ToSet(From(Here, rows)) : Grounded(entry)
  BY <1>2, <1>3, <1>4, <1>5, FromHas DEF Grounded
<1>8. servers' = servers \o From(Here, rows)
  BY <1>1, <1>4
<1>9. QED
  BY <1>1, <1>5, <1>6, <1>7, <1>8, ScanStop

LEMMA ProfileServersKeeps == ScanInv /\ ProfileServers => ScanInv'
<1> SUFFICES ASSUME ScanInv, ProfileServers PROVE ScanInv'
  OBVIOUS
<1>1. /\ step = "audit" /\ ~Scanning /\ MoveOn
      /\ profiles' = profiles \o From(Here, Profiles(raw))
      /\ UNCHANGED <<disk, since, servers, listing, exit>>
  BY DEF ProfileServers
<1>2. /\ raw \in State
      /\ Unchanging(Here) => raw = disk[Here] /\ Readable(raw)
  BY <1>1, InHand
<1>3. PICK rows : rows = Profiles(raw)
  OBVIOUS
<1>4. rows \in Seq({Profile(d) : d \in Declaration})
  <2>1. PICK decls : decls = Parsed(raw).servers
    OBVIOUS
  <2>2. decls \in Seq(Declaration)
    BY <1>2, <2>1, ParsedIs
  <2>3. DOMAIN decls = 1 .. Len(decls) /\ Len(decls) \in Nat
    BY <2>2
  <2>4. \A i \in 1 .. Len(decls) : Profile(decls[i]) \in {Profile(d) : d \in Declaration}
    BY <2>2, <2>3
  <2>5. rows = [i \in 1 .. Len(decls) |-> Profile(decls[i])]
    BY <1>3, <2>1, <2>3 DEF Profiles
  <2>6. QED
    BY <2>3, <2>4, <2>5
<1>5. Unchanging(Here) => rows = ProfilesDue(disk[Here])
  BY <1>2, <1>3 DEF ProfilesDue
<1>6. profiles' = profiles \o From(Here, rows)
  BY <1>1, <1>3
<1>7. QED
  BY <1>1, <1>4, <1>5, <1>6, TrustStop

LEMMA AuditEnvFileKeeps == ScanInv /\ AuditEnvFile => ScanInv'
<1> SUFFICES ASSUME ScanInv, AuditEnvFile PROVE ScanInv'
  OBVIOUS
<1>1. step = "mode" /\ UNCHANGED <<disk, since, profiles, listing, exit>>
  BY DEF AuditEnvFile
<1>2. /\ Here \in File /\ raw \in State /\ raw \in since[Here] \ {Absent}
      /\ Unchanging(Here) => raw = disk[Here] /\ Readable(raw)
      /\ disk[Here] # Absent => disk[Here] \in State /\ disk[Here] \in since[Here] \ {Absent}
  BY <1>1, InHand
<1>3. Here = Env
  BY <1>1 DEF ScanInv, PlaceInv
<1>4. CASE /\ ~Missing({"hidden", "loop"}) /\ MoveOn
           /\ servers' = servers \o From(Here, AuditEnv(raw.secrets, disk[Here].shared))
  <2> disk[Here] # Absent
    BY <1>4 DEF Missing
  <2>1. Scanning
    BY <1>1, <1>3, AtFile DEF ScanInv
  <2>2. PICK rows : rows = AuditEnv(raw.secrets, disk[Here].shared)
    OBVIOUS
  <2>3. rows \in Seq(Row)
    BY <1>2, <1>4, <2>2, EnvRows
  <2>4. Unchanging(Here) => rows = Due(Here, disk[Here])
    BY <1>2, <1>3, <2>2 DEF Due
  <2>5. \A entry \in ToSet(From(Here, rows)) : Grounded(entry)
    BY <1>2, <1>3, <1>4, <2>2, <2>3, FromHas DEF Grounded
  <2>6. servers' = servers \o From(Here, rows)
    BY <1>4, <2>2
  <2>7. QED
    BY <1>1, <1>4, <2>1, <2>3, <2>4, <2>5, <2>6, ScanStop
<1>5. CASE Missing({"hidden", "loop"}) /\ GoOn("crashed") /\ UNCHANGED <<raw, servers>>
  <2>1. ~Unchanging(Here)
    BY <1>2, <1>5 DEF Missing, Readable
  <2>2. QED
    BY <1>1, <1>5, <2>1, Dies
<1>6. QED
  BY <1>4, <1>5 DEF AuditEnvFile

(* The sockets belong to no file.                                          *)
LEMMA SocketRows ==
  ASSUME NEW more, more = From(Absent, [i \in DOMAIN Sockets |-> SocketServer(Sockets[i])])
  PROVE  more \in Seq(Listed) /\ \A i \in DOMAIN more : more[i].file = Absent
<1> DEFINE found == <<Finding("EXPOSE-BIND", "critical", "exposure")>>
<1>1. found \in Seq(Fact)
  <2>1. Finding("EXPOSE-BIND", "critical", "exposure") \in Fact
    BY DEF Finding, Fact
  <2>2. QED
    BY <2>1
<1>2. \A s : SocketServer(s) = [id |-> s, findings |-> found]
  BY DEF SocketServer
<1> HIDE DEF found
<1>3. \A s \in STRING : SocketServer(s) \in Row
  BY <1>1, <1>2 DEF Row, Id
<1>4. Sockets \in Seq(STRING)
  BY ScanAssumption
<1>5. PICK rows : rows = [i \in DOMAIN Sockets |-> SocketServer(Sockets[i])]
  OBVIOUS
<1>6. rows \in Seq(Row)
  <2>1. DOMAIN Sockets = 1 .. Len(Sockets) /\ Len(Sockets) \in Nat
    BY <1>4
  <2>2. \A i \in 1 .. Len(Sockets) : SocketServer(Sockets[i]) \in Row
    <3> SUFFICES ASSUME NEW i \in 1 .. Len(Sockets) PROVE SocketServer(Sockets[i]) \in Row
      OBVIOUS
    <3>1. Sockets[i] \in STRING
      BY <1>4, <2>1
    <3> HIDE DEF Row
    <3>2. QED
      BY <1>3, <3>1
  <2>3. QED
    BY <1>5, <2>1, <2>2
<1>7. more = From(Absent, rows)
  BY <1>5
<1>8. PICK none \in File \cup {Absent} : none = Absent
  OBVIOUS
<1>9. more \in Seq(Listed)
  <2>1. From(none, rows) \in Seq([file : File \cup {Absent}, row : Row])
    BY <1>6, FromGives
  <2>2. QED
    BY <1>7, <1>8, <2>1 DEF Listed
<1>10. QED
  BY <1>7, <1>9, FromFile

LEMMA EnumerateKeeps == ScanInv /\ Enumerate => ScanInv'
<1> SUFFICES ASSUME ScanInv, Enumerate PROVE ScanInv'
  OBVIOUS
<1>1. /\ step = "sockets" /\ MoveOn /\ UNCHANGED <<disk, since, profiles>>
      /\ listing' \in {"complete", "denied"}
      /\ exit' = ExitCode([i \in DOMAIN servers' |-> servers'[i].row], FailOn)
  BY DEF Enumerate
<1>2. TypeInv /\ PlaceInv /\ ReportInv /\ TrustInv /\ ThereInv
  BY DEF ScanInv
<1>3. at = SocketStop /\ at' = at + 1
  BY <1>1, <1>2 DEF PlaceInv, MoveOn
<1>4. at \in 1 .. Len(Tour) /\ Tour[at] = Stop("scan", Absent) /\ SocketStop \in Nat
  BY <1>3, TourFacts
<1>5. exit' \in {0, 1}
  BY <1>1 DEF ExitCode
<1>6. exit' = -1 <=> at' <= SocketStop
  BY <1>3, <1>4, <1>5
<1>7. /\ at' \in 1 .. Len(Tour) + 1 /\ step' \in Steps /\ raw' \in State \cup {Absent}
      /\ PlaceInv' /\ HandInv' /\ SteadyInv'
  BY <1>1, <1>2, <1>4, <1>6, Arrive
<1>8. PICK more \in Seq(Listed) :
        servers' = servers \o more /\ \A i \in DOMAIN more : more[i].file = Absent
  <2>1. CASE servers' = servers
    <3>1. servers \o << >> = servers /\ << >> \in Seq(Listed)
      BY <1>2 DEF TypeInv
    <3>2. DOMAIN << >> = {}
      OBVIOUS
    <3>3. QED
      BY <2>1, <3>1, <3>2
  <2>2. CASE servers' = servers \o From(Absent, [i \in DOMAIN Sockets |-> SocketServer(Sockets[i])])
    <3>1. PICK more : more = From(Absent, [i \in DOMAIN Sockets |-> SocketServer(Sockets[i])])
      OBVIOUS
    <3>2. more \in Seq(Listed) /\ \A i \in DOMAIN more : more[i].file = Absent
      BY <3>1, SocketRows
    <3>3. servers' = servers \o more
      BY <2>2, <3>1
    <3>4. QED
      BY <3>2, <3>3
  <2>3. QED
    BY <2>1, <2>2 DEF Enumerate
<1>9. servers \in Seq(Listed) /\ servers' \in Seq(Listed)
  <2>1. servers \in Seq(Listed)
    BY <1>2 DEF TypeInv
  <2>2. QED
    BY <1>8, <2>1
<1>10. ASSUME NEW cmd, NEW f \in File PROVE Passed(cmd, f)' <=> Passed(cmd, f)
  <2>1. Tour[at] # Stop(cmd, f)
    BY <1>4, ScanAssumption DEF Stop
  <2>2. QED
    BY <1>2, <1>3, <1>4, <2>1, PassedAfter
<1>11. TypeInv'
  <2>1. exit' \in {-1, 0, 1} /\ (exit' = -1 <=> listing' = "none")
    BY <1>1, <1>5
  <2>2. QED
    BY <1>1, <1>2, <1>7, <1>9, <2>1 DEF TypeInv
<1>12. ReportInv'
  <2> SUFFICES ASSUME NEW f \in File, Unchanging(f)'
               PROVE  Holds(servers, "scan", f, Due(f, disk[f]))'
    BY DEF ReportInv
  <2>1. Unchanging(f) /\ disk' = disk /\ f # Absent
    BY <1>1, ScanAssumption DEF Unchanging
  <2>2. Holds(servers, "scan", f, Due(f, disk[f]))
    BY <1>2, <2>1 DEF ReportInv
  <2>3. EntriesOf(Grown(servers, more), f) = EntriesOf(servers, f)
    BY <1>8, <1>9, <2>1, EntriesAfter
  <2>4. EntriesOf(servers', f) = EntriesOf(servers, f)
    BY <1>8, <2>3 DEF Grown
  <2>5. QED
    BY <1>10, <2>1, <2>2, <2>4 DEF Holds
<1>13. TrustInv'
  BY <1>1, <1>2, <1>10 DEF TrustInv, Holds, Unchanging
<1>14. ThereInv'
  <2>1. \A entry \in ToSet(more) : entry.file = Absent
    BY <1>8 DEF ToSet
  <2>2. \A f \in File : since[f] \subseteq since'[f]
    BY <1>1
  <2>3. QED
    BY <1>2, <1>8, <2>1, <2>2, ThereGrows
<1>15. QED
  BY <1>7, <1>11, <1>12, <1>13, <1>14 DEF ScanInv

(* What happens to a file shows in what it has been since.                 *)
LEMMA TouchKeeps == ScanInv /\ Touch => ScanInv'
<1> SUFFICES ASSUME ScanInv, Touch PROVE ScanInv'
  OBVIOUS
<1>1. UNCHANGED <<at, step, raw, servers, listing, exit, profiles>> /\ Here' = Here
  BY DEF Touch, Here
<1>2. /\ TypeInv /\ PlaceInv /\ HandInv /\ SteadyInv /\ ReportInv /\ TrustInv
      /\ ThereInv
  BY DEF ScanInv
<1>3. PICK g \in File : \E s \in States[g] :
        /\ disk' = [disk EXCEPT ![g] = s]
        /\ since' = [since EXCEPT ![g] = @ \cup {s}]
  BY DEF Touch
<1>19. PICK s \in States[g] :
        /\ disk' = [disk EXCEPT ![g] = s]
        /\ since' = [since EXCEPT ![g] = @ \cup {s}]
  BY <1>3
<1>4. /\ disk \in [File -> State \cup {Absent}] /\ since \in [File -> SUBSET (State \cup {Absent})]
      /\ States[g] \subseteq State \cup {Absent}
  BY <1>2, ScanAssumption DEF TypeInv
<1>5. /\ disk' \in [File -> State \cup {Absent}]
      /\ since' \in [File -> SUBSET (State \cup {Absent})]
      /\ disk'[g] = s /\ since'[g] = since[g] \cup {s}
      /\ \A f \in File \ {g} : disk'[f] = disk[f] /\ since'[f] = since[f]
  BY <1>4, <1>19
<1>6. \A f \in File :
        IsFiniteSet(since'[f]) /\ since'[f] \subseteq States[f] /\ disk'[f] \in since'[f]
  <2> SUFFICES ASSUME NEW f \in File
               PROVE  /\ IsFiniteSet(since'[f]) /\ since'[f] \subseteq States[f]
                      /\ disk'[f] \in since'[f]
    OBVIOUS
  <2>1. IsFiniteSet(since[f]) /\ since[f] \subseteq States[f] /\ disk[f] \in since[f]
    BY <1>2 DEF TypeInv
  <2>2. IsFiniteSet(since[f] \cup {s})
    BY <2>1, FS_AddElement
  <2>3. QED
    BY <1>5, <2>1, <2>2
<1>7. \A f \in File : since[f] \subseteq since'[f]
  BY <1>5
<1>8. ASSUME NEW f \in File, Unchanging(f)'
      PROVE  Unchanging(f) /\ disk'[f] = disk[f]
  <2>1. disk[f] \in since[f] /\ since[f] \subseteq since'[f] /\ since'[f] = {disk'[f]}
    BY <1>2, <1>7, <1>8 DEF TypeInv, Unchanging
  <2>2. QED
    BY <2>1 DEF Unchanging
<1>9. TypeInv'
  BY <1>1, <1>2, <1>5, <1>6 DEF TypeInv
<1>10. PlaceInv'
  BY <1>1, <1>2 DEF PlaceInv
<1>11. HandInv'
  <2>1. CASE step \in {"audit", "mode"}
    <3>1. Here \in File /\ raw \in since[Here] \ {Absent}
      BY <1>2, <2>1, AtFile DEF HandInv
    <3>2. raw \in since'[Here]
      BY <1>7, <3>1
    <3>3. QED
      BY <1>1, <2>1, <3>1, <3>2 DEF HandInv
  <2>2. CASE step \notin {"audit", "mode"}
    BY <1>1, <1>2, <2>2 DEF HandInv
  <2>3. QED
    BY <2>1, <2>2
<1>12. SteadyInv'
  <2>1. ASSUME at <= Len(Tour), Here \in File, Unchanging(Here)'
        PROVE  Cleared(step, Tour[at], disk'[Here])
    <3>1. since'[Here] = {disk'[Here]}
      BY <1>1, <2>1 DEF Unchanging
    <3>2. PICK f \in File : f = Here
      BY <2>1
    <3>3. Unchanging(f)'
      BY <3>1, <3>2 DEF Unchanging
    <3>4. Unchanging(f) /\ disk'[f] = disk[f]
      BY <1>8, <3>3
    <3>5. QED
      BY <1>2, <2>1, <3>2, <3>4 DEF SteadyInv
  <2>2. QED
    BY <1>1, <2>1 DEF SteadyInv, Unchanging
<1>13. \A cmd, f : Passed(cmd, f)' <=> Passed(cmd, f)
  BY <1>1 DEF Passed
<1>14. ReportInv'
  <2> SUFFICES ASSUME NEW f \in File, Unchanging(f)'
               PROVE  Holds(servers, "scan", f, Due(f, disk[f]))'
    BY DEF ReportInv
  <2>1. Unchanging(f) /\ disk'[f] = disk[f]
    BY <1>8
  <2>2. Holds(servers, "scan", f, Due(f, disk[f]))
    BY <1>2, <2>1 DEF ReportInv
  <2>3. QED
    BY <1>1, <1>13, <2>1, <2>2 DEF Holds
<1>15. TrustInv'
  <2> SUFFICES ASSUME NEW f \in File \ {Env}, Unchanging(f)'
               PROVE  Holds(profiles, "trust", f, ProfilesDue(disk[f]))'
    BY DEF TrustInv
  <2>1. Unchanging(f) /\ disk'[f] = disk[f]
    BY <1>8
  <2>2. Holds(profiles, "trust", f, ProfilesDue(disk[f]))
    BY <1>2, <2>1 DEF TrustInv
  <2>3. QED
    BY <1>1, <1>13, <2>1, <2>2 DEF Holds
<1>16. ThereInv'
  <2>1. servers \in Seq(Listed)
    BY <1>2 DEF TypeInv
  <2>2. servers' = servers \o << >> /\ << >> \in Seq(Listed)
    BY <1>1, <2>1
  <2>3. \A entry \in ToSet(<< >>) : Grounded(entry)'
    BY NothingHas
  <2>4. QED
    BY <1>2, <1>7, <2>2, <2>3, ThereGrows
<1>17. QED
  BY <1>9, <1>10, <1>11, <1>12, <1>14, <1>15, <1>16 DEF ScanInv

LEMMA StartHolds == Init => ScanInv
<1> SUFFICES ASSUME Init PROVE ScanInv
  OBVIOUS
<1>1. /\ disk \in Start /\ since = [f \in File |-> {disk[f]}] /\ at = 1 /\ step = FirstStep(1)
      /\ raw = Absent /\ servers = << >> /\ listing = "none" /\ exit = -1 /\ profiles = << >>
  BY DEF Init
<1>2. Len(Tour) \in Nat /\ SocketStop \in 1 .. Len(Tour)
  BY TourFacts
<1>3. /\ step \in {"done", "sockets", "resolve", "exists"}
      /\ step = "sockets" <=> 1 = SocketStop
      /\ step = "done" <=> 1 = Len(Tour) + 1
      /\ step = "resolve" => ~LooksFirst(Tour[at])
      /\ step = "exists" => LooksFirst(Tour[at])
  BY <1>1, <1>2, FirstStepIs
<1>4. TypeInv
  <2>1. disk \in [File -> State \cup {Absent}] /\ \A f \in File : disk[f] \in States[f]
    BY <1>1, ScanAssumption
  <2>2. \A f \in File : IsFiniteSet({disk[f]})
    BY FS_Singleton
  <2>3. QED
    BY <1>1, <1>2, <1>3, <2>1, <2>2 DEF TypeInv, Steps
<1>5. PlaceInv
  BY <1>1, <1>2, <1>3 DEF PlaceInv
<1>6. HandInv
  BY <1>1, <1>3 DEF HandInv
<1>7. SteadyInv
  BY <1>3 DEF SteadyInv, Cleared
<1>8. \A cmd, f : ~Passed(cmd, f)
  BY <1>1 DEF Passed
<1>9. ReportInv /\ TrustInv
  BY <1>1, <1>8, EntriesOfNothing DEF ReportInv, TrustInv, Holds
<1>10. ThereInv
  BY <1>1, NothingHas DEF ThereInv
<1>11. QED
  BY <1>4, <1>5, <1>6, <1>7, <1>9, <1>10 DEF ScanInv

(* Every step of the two commands, and every change to a file between two  *)
(* of them, keeps the invariant (engine.py:235-293, trust/analyze.py).     *)
THEOREM ScanInvariant == Spec => []ScanInv
<1>1. Init => ScanInv
  BY StartHolds
<1>2. ScanInv /\ [Next]_vars => ScanInv'
  <2> SUFFICES ASSUME ScanInv, [Next]_vars PROVE ScanInv'
    OBVIOUS
  <2>1. CASE Walk
    BY <2>1, LookKeeps, ResolveKeeps, StatKeeps, ReadKeeps, ParserFailsKeeps, AuditKeeps,
       ProfileServersKeeps, AuditEnvFileKeeps, EnumerateKeeps DEF Walk
  <2>2. CASE Touch
    BY <2>2, TouchKeeps
  <2>3. CASE UNCHANGED vars
    <3>1. /\ UNCHANGED <<disk, since, servers, profiles, listing, exit, raw, step>>
          /\ at' = at /\ Here' = Here
      BY <2>3 DEF vars, Here
    <3>2. ReportInv' /\ TrustInv' /\ ThereInv'
      BY <3>1, SameStop
    <3>3. TypeInv' /\ PlaceInv' /\ HandInv'
      BY <3>1 DEF ScanInv, TypeInv, PlaceInv, HandInv
    <3>4. SteadyInv'
      BY <3>1 DEF ScanInv, SteadyInv, Unchanging
    <3>5. QED
      BY <3>2, <3>3, <3>4 DEF ScanInv
  <2>4. QED
    BY <2>1, <2>2, <2>3 DEF Next
<1>3. QED
  BY <1>1, <1>2, PTL DEF Spec

----------------------------------------------------------------------------
(* What scan finds in a declaration and what trust makes of it.            *)

(* The kinds of findings of each check.                                    *)
LEMMA KindsFound ==
  ASSUME NEW d \in Declaration
  PROVE  /\ \A x \in ToSet(CheckEnv(d)) : x.id = "CRED-PLAINTEXT"
         /\ ToSet(CheckEnv(d)) # {} <=> d.secrets > 0
         /\ \A x \in ToSet(CheckAutoApprove(d)) :
              x.id \in {"SCOPE-DANGEROUS-AUTOAPPROVE", "SCOPE-AUTOAPPROVE-WILDCARD"}
         /\ ToSet(CheckAutoApprove(d)) # {} <=> SomeEntry(d, "danger") \/ SomeEntry(d, "wild")
         /\ \A x \in ToSet(CheckPinning(d)) : x.id = "PIN-UNPINNED"
         /\ ToSet(CheckPinning(d)) # {} <=> CheckPinning(d) # << >>
<1>1. d.secrets \in Nat /\ d.approve \in Seq(Entry)
  BY DEF Declaration
<1>2. /\ \A x \in ToSet(CheckEnv(d)) : x.id = "CRED-PLAINTEXT"
      /\ ToSet(CheckEnv(d)) # {} <=> d.secrets > 0
  <2>1. PICK leak : leak = Finding("CRED-PLAINTEXT", "critical", "credential")
    OBVIOUS
  <2>2. leak.id = "CRED-PLAINTEXT"
    BY <2>1 DEF Finding
  <2>3. CheckEnv(d) = [i \in 1 .. d.secrets |-> leak]
    BY <2>1 DEF CheckEnv, Times
  <2>4. ToSet(CheckEnv(d)) = {leak : i \in 1 .. d.secrets}
    BY <2>3 DEF ToSet
  <2>5. 1 .. d.secrets # {} <=> d.secrets > 0
    BY <1>1
  <2>6. QED
    BY <2>2, <2>4, <2>5
<1>3. /\ \A x \in ToSet(CheckAutoApprove(d)) :
           x.id \in {"SCOPE-DANGEROUS-AUTOAPPROVE", "SCOPE-AUTOAPPROVE-WILDCARD"}
      /\ ToSet(CheckAutoApprove(d)) # {} <=> SomeEntry(d, "danger") \/ SomeEntry(d, "wild")
  <2> DEFINE found == EntryFindings(d.approve, "SCOPE-DANGEROUS-AUTOAPPROVE",
                                   "SCOPE-AUTOAPPROVE-WILDCARD")
             risky == Finding("SCOPE-DANGEROUS-AUTOAPPROVE", "high", "tool_scope")
             loose == Finding("SCOPE-AUTOAPPROVE-WILDCARD", "medium", "tool_scope")
  <2>1. /\ risky \in Fact /\ risky.id = "SCOPE-DANGEROUS-AUTOAPPROVE"
        /\ loose \in Fact /\ loose.id = "SCOPE-AUTOAPPROVE-WILDCARD"
    BY DEF Finding, Fact
  <2>2. PICK entries \in Seq(Entry) : entries = d.approve
    BY <1>1
  <2>3. /\ \A x \in ToSet(found) : x = risky \/ x = loose
        /\ ToSet(found) = {} <=> ToSet(entries) \ {{}} = {}
    BY <2>1, <2>2, EntryFindingsGive
  <2> HIDE DEF found, risky, loose
  <2>6. SomeEntry(d, "danger") \/ SomeEntry(d, "wild") <=> ToSet(d.approve) \ {{}} # {}
    <3>1. ToSet(d.approve) \subseteq Entry
      BY <1>1, ValuesOf
    <3>2. \A e \in ToSet(d.approve) : e # {} <=> "danger" \in e \/ "wild" \in e
      BY <3>1 DEF Entry
    <3>3. \A class : SomeEntry(d, class) <=> \E e \in ToSet(d.approve) : class \in e
      BY DEF SomeEntry, ToSet
    <3>4. QED
      BY <3>2, <3>3
  <2>7. CheckAutoApprove(d) = found
    BY DEF CheckAutoApprove, found
  <2>8. QED
    BY <2>1, <2>2, <2>3, <2>6, <2>7
<1>4. /\ \A x \in ToSet(CheckPinning(d)) : x.id = "PIN-UNPINNED"
      /\ ToSet(CheckPinning(d)) # {} <=> CheckPinning(d) # << >>
  <2>1. PICK loose : loose = Finding("PIN-UNPINNED", "medium", "pinning")
    OBVIOUS
  <2>2. loose.id = "PIN-UNPINNED"
    BY <2>1 DEF Finding
  <2>3. CheckPinning(d) = << >> \/ CheckPinning(d) = <<loose>>
    BY <2>1 DEF CheckPinning
  <2>4. ToSet(<< >>) = {} /\ ToSet(<<loose>>) = {loose} /\ <<loose>> # << >>
    <3>1. DOMAIN <<loose>> = {1} /\ <<loose>>[1] = loose
      OBVIOUS
    <3>2. QED
      BY <3>1, NothingHas DEF ToSet
  <2>5. QED
    BY <2>2, <2>3, <2>4
<1>5. QED
  BY <1>2, <1>3, <1>4

(* A factor is present when its points are not 0.                          *)
LEMMA RisksTell ==
  ASSUME NEW d \in Declaration
  PROVE  /\ SecretRisk(d) > 0 <=> d.secrets > 0
         /\ PrivilegeRisk(d) > 0 <=> SomeEntry(d, "danger") \/ SomeEntry(d, "wild")
         /\ ProvenanceRisk(d) > 0 <=> CheckPinning(d) # << >>
<1>1. d.secrets \in Nat
  BY DEF Declaration
<1>2. SecretRisk(d) > 0 <=> d.secrets > 0
  BY <1>1 DEF SecretRisk, AtMost
<1>3. PrivilegeRisk(d) > 0 <=> SomeEntry(d, "danger") \/ SomeEntry(d, "wild")
  <2>1. CASE SomeEntry(d, "danger")
    BY <2>1 DEF PrivilegeRisk, AtMost
  <2>2. CASE ~SomeEntry(d, "danger")
    BY <2>2 DEF PrivilegeRisk, AtMost
  <2>3. QED
    BY <2>1, <2>2
<1>4. ProvenanceRisk(d) > 0 <=> CheckPinning(d) # << >>
  BY DEF ProvenanceRisk
<1>5. QED
  BY <1>2, <1>3, <1>4

LEMMA SameReading ==
  ASSUME NEW d \in Declaration
  PROVE  Agree(Audited(d), Profile(d))
<1>1. PICK env : env = CheckEnv(d)
  OBVIOUS
<1>2. PICK auto : auto = CheckAutoApprove(d)
  OBVIOUS
<1>3. PICK pin : pin = CheckPinning(d)
  OBVIOUS
<1>4. env \in Seq(Fact) /\ auto \in Seq(Fact) /\ pin \in Seq(Fact)
  BY <1>1, <1>2, <1>3, DeclarationFindings
<1>5. PICK found : found = env \o auto \o pin
  OBVIOUS
<1>6. ToSet(found) = ToSet(env) \cup ToSet(auto) \cup ToSet(pin)
  <2>1. env \o auto \in Seq(Fact) /\ ToSet(env \o auto) = ToSet(env) \cup ToSet(auto)
    BY <1>4, ConcatHas
  <2>2. PICK first : first = env \o auto
    OBVIOUS
  <2>3. ToSet(first \o pin) = ToSet(first) \cup ToSet(pin)
    <3>1. first \in Seq(Fact) /\ pin \in Seq(Fact)
      BY <1>4, <2>1, <2>2
    <3>2. QED
      BY <3>1, ConcatHas
  <2>4. QED
    BY <1>5, <2>1, <2>2, <2>3
<1>7. Audited(d).id = d.name /\ Audited(d).findings = found
  BY <1>1, <1>2, <1>3, <1>5 DEF Audited
<1>8. /\ Profile(d).name = d.name
      /\ Profile(d).factors.secret_access = SecretRisk(d)
      /\ Profile(d).factors.tool_privilege = PrivilegeRisk(d)
      /\ Profile(d).factors.code_provenance = ProvenanceRisk(d)
  BY DEF Profile, Factors
<1>9. \A S : (\E k \in DOMAIN found : found[k].id \in S) <=> \E x \in ToSet(found) : x.id \in S
  BY DEF ToSet
<1>10. SecretRisk(d) > 0 <=> \E x \in ToSet(found) : x.id \in {"CRED-PLAINTEXT"}
  BY <1>1, <1>2, <1>3, <1>6, KindsFound, RisksTell
<1>11. PrivilegeRisk(d) > 0 <=>
         \E x \in ToSet(found) :
           x.id \in {"SCOPE-DANGEROUS-AUTOAPPROVE", "SCOPE-AUTOAPPROVE-WILDCARD"}
  BY <1>1, <1>2, <1>3, <1>6, KindsFound, RisksTell
<1>12. ProvenanceRisk(d) > 0 <=> \E x \in ToSet(found) : x.id \in {"PIN-UNPINNED"}
  BY <1>1, <1>2, <1>3, <1>6, KindsFound, RisksTell
<1>13. /\ DOMAIN FactorOf = {"secret_access", "tool_privilege", "code_provenance"}
       /\ FactorOf["secret_access"] = {"CRED-PLAINTEXT"}
       /\ FactorOf["tool_privilege"]
            = {"SCOPE-DANGEROUS-AUTOAPPROVE", "SCOPE-AUTOAPPROVE-WILDCARD"}
       /\ FactorOf["code_provenance"] = {"PIN-UNPINNED"}
  BY DEF FactorOf
<1>14. ASSUME NEW factor \in DOMAIN FactorOf
       PROVE  Profile(d).factors[factor] > 0
                <=> \E k \in DOMAIN Audited(d).findings :
                      Audited(d).findings[k].id \in FactorOf[factor]
  <2>1. CASE factor = "secret_access"
    BY <1>7, <1>8, <1>9, <1>10, <1>13, <2>1
  <2>2. CASE factor = "tool_privilege"
    BY <1>7, <1>8, <1>9, <1>11, <1>13, <2>2
  <2>3. CASE factor = "code_provenance"
    BY <1>7, <1>8, <1>9, <1>12, <1>13, <2>3
  <2>4. QED
    BY <1>13, <1>14, <2>1, <2>2, <2>3
<1>15. QED
  BY <1>7, <1>8, <1>14 DEF Agree

----------------------------------------------------------------------------
(* What the commands promise.                                              *)

(* The states have the form that the walk relies on: among others, there   *)
(* is content in hand exactly between a read and what is made of it.       *)
THEOREM TypesHold == Spec => []TypeOK
<1>1. ScanInv => TypeOK
  <2> SUFFICES ASSUME ScanInv PROVE TypeOK
    OBVIOUS
  <2>1. TypeInv /\ PlaceInv /\ HandInv
    BY DEF ScanInv
  <2>2. /\ step \in {"audit", "mode"} => raw # Absent
        /\ raw # Absent => step \in {"audit", "mode", "crashed"}
    BY <2>1 DEF HandInv
  <2>3. QED
    BY <2>1, <2>2 DEF TypeOK, TypeInv, Steps
<1>2. QED
  BY <1>1, ScanInvariant, PTL

(* Every finding of a report is about a content, and for an .env file a    *)
(* mode, that the file had since the scan began: whatever was changed      *)
(* between the calls of safe_read_text and _audit_env_file.                *)
THEOREM FindingsHold == Spec => []FindingsWereThere
<1>1. ScanInv => FindingsWereThere
  <2> SUFFICES ASSUME ScanInv, NEW i \in DOMAIN servers, servers[i].file # Absent
               PROVE  Grounded(servers[i])
    BY DEF FindingsWereThere, Grounded
  <2>1. servers[i] \in ToSet(servers)
    BY DEF ToSet
  <2>2. QED
    BY <2>1 DEF ScanInv, ThereInv
<1>2. QED
  BY <1>1, ScanInvariant, PTL

(* The rows of a list of entries are what they were made from.             *)
LEMMA RowsBack ==
  ASSUME NEW f, NEW R, NEW rows \in Seq(R), NEW mine, mine = From(f, rows)
  PROVE  [i \in DOMAIN mine |-> mine[i].row] = rows
<1>1. /\ DOMAIN mine = 1 .. Len(rows)
      /\ \A i \in 1 .. Len(rows) : mine[i] = [file |-> f, row |-> rows[i]]
  BY FromRows
<1>2. rows = [i \in 1 .. Len(rows) |-> rows[i]]
  OBVIOUS
<1>3. QED
  BY <1>1, <1>2

(* When the scan has ended, a file nobody touched has its rows.            *)
LEMMA Reported ==
  ASSUME ScanInv, exit # -1, NEW f \in File, Unchanging(f)
  PROVE  ServersOf(f) = Due(f, disk[f])
<1>1. at \in 1 .. Len(Tour) + 1 /\ ~(at <= SocketStop) /\ disk[f] \in State \cup {Absent}
  BY DEF ScanInv, TypeInv, PlaceInv
<1>2. PICK i \in 1 .. SocketStop - 1 : Tour[i] = Stop("scan", f)
  BY TourFacts
<1>3. i \in 1 .. at - 1
  BY <1>1, TourFacts
<1>4. Passed("scan", f)
  BY <1>2, <1>3 DEF Passed
<1>5. EntriesOf(servers, f) = From(f, Due(f, disk[f]))
  BY <1>4 DEF ScanInv, ReportInv, Holds
<1>6. PICK mine : mine = EntriesOf(servers, f)
  OBVIOUS
<1>7. ServersOf(f) = [k \in DOMAIN mine |-> mine[k].row]
  BY <1>6 DEF ServersOf, EntriesOf
<1>8. PICK rows : rows = Due(f, disk[f])
  OBVIOUS
<1>9. rows \in Seq(Row)
  BY <1>1, <1>8, DueRows
<1>10. mine = From(f, rows)
  BY <1>5, <1>6, <1>8
<1>11. QED
  BY <1>7, <1>8, <1>9, <1>10, RowsBack

(* A file that nobody touched is in the report with exactly the findings   *)
(* of its content, whatever was done to the other files meanwhile; and a   *)
(* command that dies at such a file dies of it, in one of the three ways   *)
(* that nothing catches (engine.py:235-293, io_safe.py:58-59).             *)
THEOREM SteadyHolds == Spec => []SteadyFilesAreReported
<1>1. ScanInv => SteadyFilesAreReported
  <2> SUFFICES ASSUME ScanInv PROVE SteadyFilesAreReported
    OBVIOUS
  <2>1. ASSUME exit # -1, NEW f \in File, Steady(f)
        PROVE  ServersOf(f) = Due(f, CHOOSE s \in since[f] : TRUE)
    <3>1. Unchanging(f)
      BY <2>1, SteadyIs DEF ScanInv
    <3>2. PICK s : s = CHOOSE t \in since[f] : TRUE
      OBVIOUS
    <3>3. s = disk[f]
      BY <3>1, <3>2 DEF Unchanging
    <3>4. QED
      BY <2>1, <3>1, <3>2, <3>3, Reported
  <2>2. ASSUME step = "crashed", Steady(Here) PROVE Kills(Tour[at], disk[Here])
    <3>1. Here \in File
      BY <2>2, KnownHere
    <3>2. PICK f \in File : f = Here
      BY <3>1
    <3>3. Unchanging(f)
      BY <2>2, <3>2, SteadyIs DEF ScanInv
    <3>4. Cleared(step, Tour[at], disk[Here])
      BY <2>2, <3>2, <3>3, KnownHere
    <3>5. QED
      BY <2>2, <3>4 DEF Cleared
  <2>3. QED
    BY <2>1, <2>2 DEF SteadyFilesAreReported
<1>2. QED
  BY <1>1, ScanInvariant, PTL

(* When trust has ended, it has the profiles of a file nobody touched.     *)
LEMMA ProfiledToo ==
  ASSUME ScanInv, step = "done", NEW f \in File \ {Env}, Unchanging(f)
  PROVE  EntriesOf(profiles, f) = From(f, ProfilesDue(disk[f])) /\ exit # -1
<1>1. at = Len(Tour) + 1 /\ Len(Tour) \in Nat /\ SocketStop \in 1 .. Len(Tour)
  BY TourFacts DEF ScanInv, PlaceInv
<1>2. PICK i \in SocketStop + 1 .. Len(Tour) : Tour[i] = Stop("trust", f)
  BY TourFacts
<1>3. i \in 1 .. at - 1 /\ ~(at <= SocketStop)
  BY <1>1
<1>4. Passed("trust", f)
  BY <1>2, <1>3 DEF Passed
<1>5. QED
  BY <1>3, <1>4 DEF ScanInv, TrustInv, Holds, PlaceInv

Named(rows) == Sift(rows, {s \in ToSet(rows) : s.id # "#permissions"})

(* The rows of a config that are servers are those of its declarations.    *)
LEMMA ServerRows ==
  ASSUME NEW c, c.servers \in Seq(Declaration), c.allow \in Seq(Entry),
         \A d \in ToSet(c.servers) : d.name # "#permissions",
         NEW rows, rows = AuditConfig(c)
  PROVE  /\ Len(Named(rows)) = Len(c.servers)
         /\ \A i \in 1 .. Len(c.servers) : Named(rows)[i] = Audited(c.servers[i])
<1> DEFINE listed == Named(rows)
           T == {row \in Row : row.id # "#permissions"}
           S == {s \in ToSet(rows) : s.id # "#permissions"}
<1>1. PICK A \in Seq(Row), B \in Seq(Row) :
        /\ AuditConfig(c) = A \o B
        /\ Len(A) = Len(c.servers)
        /\ \A i \in 1 .. Len(A) : A[i] = Audited(c.servers[i])
        /\ \A row \in ToSet(B) : row.id = "#permissions"
  BY AuditGives
<1>2. ToSet(A) \subseteq Row /\ ToSet(B) \subseteq Row
  BY ValuesOf
<1>3. \A row \in ToSet(A) : row.id # "#permissions"
  <2>1. DOMAIN A = 1 .. Len(A) /\ DOMAIN c.servers = 1 .. Len(A)
    BY <1>1
  <2>2. ASSUME NEW i \in 1 .. Len(A) PROVE A[i].id # "#permissions"
    <3>1. c.servers[i] \in ToSet(c.servers)
      BY <2>1 DEF ToSet
    <3>2. Audited(c.servers[i]).id = c.servers[i].name
      BY DEF Audited
    <3>3. QED
      BY <1>1, <3>1, <3>2
  <2>3. QED
    BY <2>1, <2>2 DEF ToSet
<1>4. ToSet(A) \subseteq T /\ ToSet(B) \cap T = {}
  BY <1>1, <1>2, <1>3
<1>5. rows \in Seq(Row) /\ ToSet(rows) \subseteq Row
  <2>1. rows \in Seq(Row)
    BY <1>1
  <2>2. QED
    BY <2>1, ValuesOf
<1>6. ToSet(rows) \cap S = ToSet(rows) \cap T
  BY <1>5
<1>7. listed = Sift(rows, S)
  BY DEF Named
<1> HIDE DEF T, S, listed
<1>8. listed = Sift(rows, T)
  BY <1>5, <1>6, <1>7, SiftSame
<1>9. Sift(A \o B, T) = Sift(A, T) \o Sift(B, T)
  BY SiftConcat
<1>10. Sift(A, T) = A
  BY <1>4, SiftKeepsAll
<1>11. Sift(B, T) = << >>
  <2>1. Sift(B, T) \in Seq(Row) /\ ToSet(Sift(B, T)) = {}
    BY <1>4, SiftElements
  <2>2. QED
    BY <2>1, EmptyList
<1>12. PICK both : both = A \o B
  OBVIOUS
<1>13. Sift(both, T) = Sift(A, T) \o Sift(B, T)
  BY <1>9, <1>12
<1>14. rows = both
  BY <1>1, <1>12
<1>15. listed = A
  <2>1. listed = A \o << >>
    BY <1>8, <1>10, <1>11, <1>13, <1>14
  <2>2. QED
    BY <2>1
<1>16. QED
  BY <1>1, <1>15 DEF listed

(* Of a file that nobody touches, trust profiles the servers that scan     *)
(* lists, in their order, and a factor of risk is present just when scan   *)
(* has a finding for it (trust/analyze.py:4-6).                            *)
THEOREM TrustHolds == Spec => []TrustFollowsScan
<1>1. ScanInv => TrustFollowsScan
  <2> SUFFICES ASSUME ScanInv, step = "done", NEW f \in File \ {Env}, Steady(f),
                      NEW listed, NEW profiled,
                      listed = Named(ServersOf(f)),
                      profiled = Sift(profiles, {p \in ToSet(profiles) : p.file = f})
               PROVE  /\ Len(listed) = Len(profiled)
                      /\ \A i \in DOMAIN listed : Agree(listed[i], profiled[i].row)
    BY DEF TrustFollowsScan, Named
  <2>1. Unchanging(f) /\ disk[f] \in State \cup {Absent} /\ disk[f] \in States[f]
    BY SteadyIs DEF ScanInv, TypeInv
  <2>2. profiled = From(f, ProfilesDue(disk[f])) /\ exit # -1
    BY <2>1, ProfiledToo DEF EntriesOf
  <2>3. ServersOf(f) = Due(f, disk[f])
    BY <2>1, <2>2, Reported
  <2>4. CASE ~Readable(disk[f])
    <3>1. ServersOf(f) = << >> /\ profiled = << >>
      BY <2>2, <2>3, <2>4, NothingDue, FromNothing
    <3>2. listed = << >>
      BY <3>1, SiftEmpty DEF Named
    <3>3. DOMAIN << >> = {}
      OBVIOUS
    <3>4. QED
      BY <3>1, <3>2, <3>3
  <2>5. CASE Readable(disk[f])
    <3>1. disk[f] \in State /\ disk[f] \in States[f] \ {Absent}
      BY <2>1, <2>5 DEF Readable
    <3>2. PICK c : c = Parsed(disk[f])
      OBVIOUS
    <3>3. /\ c.servers \in Seq(Declaration) /\ c.allow \in Seq(Entry)
          /\ c = disk[f] \/ c.servers = << >>
      BY <3>1, <3>2, ParsedIs DEF State
    <3>4. \A d \in ToSet(c.servers) : d.name # "#permissions"
      BY <3>1, <3>3, NothingHas, ScanAssumption
    <3>5. ServersOf(f) = AuditConfig(c)
      BY <2>3, <2>5, <3>2 DEF Due
    <3>6. PICK rows : rows = AuditConfig(c)
      OBVIOUS
    <3>7. listed = Named(rows)
      BY <3>5, <3>6
    <3>8. /\ Len(listed) = Len(c.servers)
          /\ \A i \in 1 .. Len(c.servers) : listed[i] = Audited(c.servers[i])
      <4>1. /\ Len(Named(rows)) = Len(c.servers)
            /\ \A i \in 1 .. Len(c.servers) : Named(rows)[i] = Audited(c.servers[i])
        BY <3>3, <3>4, <3>6, ServerRows
      <4>2. QED
        BY <3>7, <4>1
    <3>9. PICK profs : profs = Profiles(disk[f])
      OBVIOUS
    <3>10. DOMAIN c.servers = 1 .. Len(c.servers) /\ Len(c.servers) \in Nat
      BY <3>3
    <3>11. profs = [i \in 1 .. Len(c.servers) |-> Profile(c.servers[i])]
      BY <3>2, <3>9, <3>10 DEF Profiles
    <3>12. profs \in Seq({Profile(d) : d \in Declaration}) /\ Len(profs) = Len(c.servers)
      <4>1. \A i \in 1 .. Len(c.servers) :
              Profile(c.servers[i]) \in {Profile(d) : d \in Declaration}
        BY <3>3, <3>10
      <4>2. QED
        BY <3>10, <3>11, <4>1
    <3>13. profiled = From(f, profs)
      BY <2>2, <2>5, <3>9 DEF ProfilesDue
    <3>14. /\ Len(From(f, profs)) = Len(profs)
           /\ \A i \in 1 .. Len(profs) : From(f, profs)[i] = [file |-> f, row |-> profs[i]]
      BY <3>12, FromRows
    <3>15. Len(listed) = Len(profiled)
      BY <3>8, <3>12, <3>13, <3>14
    <3>16. listed \in Seq(Row)
      <4>1. rows \in Seq(Row)
        BY <3>1, <3>2, <3>6, ConfigRows
      <4>2. QED
        BY <3>7, <4>1, SiftElements DEF Named
    <3>17. DOMAIN listed = 1 .. Len(c.servers)
      BY <3>8, <3>16
    <3>18. ASSUME NEW i \in 1 .. Len(c.servers) PROVE Agree(listed[i], profiled[i].row)
      <4>1. c.servers[i] \in Declaration
        BY <3>3, <3>10
      <4>2. listed[i] = Audited(c.servers[i])
        BY <3>8
      <4>3. profiled[i].row = Profile(c.servers[i])
        <5>1. profiled[i] = [file |-> f, row |-> profs[i]]
          BY <3>12, <3>13, <3>14
        <5>2. QED
          BY <3>11, <5>1
      <4>4. QED
        BY <4>1, <4>2, <4>3, SameReading
    <3>19. QED
      BY <3>15, <3>17, <3>18
  <2>6. QED
    BY <2>4, <2>5
<1>2. QED
  BY <1>1, ScanInvariant, PTL

----------------------------------------------------------------------------
(* JSONC, which `mcpscan scan` reads of VS Code and Zed, becomes JSON.     *)
(* Where a pass may be in its text, and what it has written by then, is    *)
(* said lexeme by lexeme; the text is of any length.                       *)

(* Lexemes, and the characters they are made of.                           *)
Plain == {"comma", "close", "blank", "newline"}
Strings == {"url", "list", "escaped", "other", "unclosed"}
Comments == {"line", "block", "quoted", "lastline", "openend"}
Char == {"comma", "brace", "space", "newline", "double", "single", "slash", "star", "backslash"}

(* A list of so many characters, one by one.                               *)
OfOne(s, a) == s \in Seq(Char) /\ Len(s) = 1 /\ s[1] = a
OfFour(s, a, b, c, d) ==
  s \in Seq(Char) /\ Len(s) = 4 /\ s[1] = a /\ s[2] = b /\ s[3] = c /\ s[4] = d
OfFive(s, a, b, c, d, e) ==
  /\ s \in Seq(Char) /\ Len(s) = 5
  /\ s[1] = a /\ s[2] = b /\ s[3] = c /\ s[4] = d /\ s[5] = e
OfSix(s, a, b, c, d, e, f) ==
  /\ s \in Seq(Char) /\ Len(s) = 6
  /\ s[1] = a /\ s[2] = b /\ s[3] = c /\ s[4] = d /\ s[5] = e /\ s[6] = f

(* How lists of characters are written.                                    *)
LEMMA Tuples ==
  ASSUME NEW a \in Char, NEW b \in Char, NEW c \in Char, NEW d \in Char
  PROVE  /\ OfOne(<<a>>, a) /\ OfFour(<<a, b, c, d>>, a, b, c, d)
         /\ \A e \in Char : OfFive(<<a, b, c, d, e>>, a, b, c, d, e)
         /\ \A e, f \in Char : OfSix(<<a, b, c, d, e, f>>, a, b, c, d, e, f)
<1>1. OfOne(<<a>>, a)
  BY DEF OfOne
<1>2. OfFour(<<a, b, c, d>>, a, b, c, d)
  BY DEF OfFour
<1>3. ASSUME NEW e \in Char PROVE OfFive(<<a, b, c, d, e>>, a, b, c, d, e)
  BY DEF OfFive
<1>4. ASSUME NEW e \in Char, NEW f \in Char PROVE OfSix(<<a, b, c, d, e, f>>, a, b, c, d, e, f)
  BY DEF OfSix
<1>5. QED
  BY <1>1, <1>2, <1>3, <1>4

(* The spelling of each lexeme.                                            *)
LEMMA Spellings ==
  /\ OfOne(Spelling["comma"], "comma") /\ OfOne(Spelling["close"], "brace")
  /\ OfOne(Spelling["blank"], "space") /\ OfOne(Spelling["newline"], "newline")
  /\ OfFour(Spelling["url"], "double", "slash", "slash", "double")
  /\ OfFour(Spelling["list"], "double", "comma", "brace", "double")
  /\ OfSix(Spelling["escaped"], "double", "backslash", "double", "comma", "brace", "double")
  /\ OfFive(Spelling["other"], "single", "double", "slash", "star", "single")
  /\ OfFour(Spelling["line"], "slash", "slash", "double", "newline")
  /\ OfFive(Spelling["block"], "slash", "star", "slash", "star", "slash")
  /\ OfFive(Spelling["quoted"], "slash", "star", "double", "star", "slash")
  /\ OfFour(Spelling["unclosed"], "double", "comma", "brace", "backslash")
  /\ OfFour(Spelling["lastline"], "slash", "slash", "comma", "brace")
  /\ OfFour(Spelling["openend"], "slash", "star", "comma", "brace")
  /\ Lexeme = Plain \union Strings \union Comments
<1>1. /\ Spelling["comma"] = <<"comma">> /\ Spelling["close"] = <<"brace">>
      /\ Spelling["blank"] = <<"space">> /\ Spelling["newline"] = <<"newline">>
      /\ Spelling["url"] = <<"double", "slash", "slash", "double">>
      /\ Spelling["list"] = <<"double", "comma", "brace", "double">>
      /\ Spelling["escaped"] = <<"double", "backslash", "double", "comma", "brace", "double">>
      /\ Spelling["other"] = <<"single", "double", "slash", "star", "single">>
      /\ Spelling["line"] = <<"slash", "slash", "double", "newline">>
      /\ Spelling["block"] = <<"slash", "star", "slash", "star", "slash">>
      /\ Spelling["quoted"] = <<"slash", "star", "double", "star", "slash">>
      /\ Spelling["unclosed"] = <<"double", "comma", "brace", "backslash">>
      /\ Spelling["lastline"] = <<"slash", "slash", "comma", "brace">>
      /\ Spelling["openend"] = <<"slash", "star", "comma", "brace">>
      /\ Lexeme = Plain \union Strings \union Comments
  BY DEF Spelling, Lexeme, Plain, Strings, Comments
<1>2. /\ "comma" \in Char /\ "brace" \in Char /\ "space" \in Char /\ "newline" \in Char
      /\ "double" \in Char /\ "single" \in Char /\ "slash" \in Char /\ "star" \in Char
      /\ "backslash" \in Char
  BY DEF Char
<1>3. /\ OfOne(<<"comma">>, "comma") /\ OfOne(<<"brace">>, "brace")
      /\ OfOne(<<"space">>, "space") /\ OfOne(<<"newline">>, "newline")
  BY <1>2, Tuples
<1>4. /\ OfFour(<<"double", "slash", "slash", "double">>, "double", "slash", "slash", "double")
      /\ OfFour(<<"double", "comma", "brace", "double">>, "double", "comma", "brace", "double")
      /\ OfFour(<<"slash", "slash", "double", "newline">>, "slash", "slash", "double", "newline")
      /\ OfFour(<<"double", "comma", "brace", "backslash">>,
                "double", "comma", "brace", "backslash")
      /\ OfFour(<<"slash", "slash", "comma", "brace">>, "slash", "slash", "comma", "brace")
      /\ OfFour(<<"slash", "star", "comma", "brace">>, "slash", "star", "comma", "brace")
  BY <1>2, Tuples
<1>5. /\ OfFive(<<"single", "double", "slash", "star", "single">>,
                "single", "double", "slash", "star", "single")
      /\ OfFive(<<"slash", "star", "slash", "star", "slash">>,
                "slash", "star", "slash", "star", "slash")
      /\ OfFive(<<"slash", "star", "double", "star", "slash">>,
                "slash", "star", "double", "star", "slash")
  BY <1>2, Tuples
<1>6. OfSix(<<"double", "backslash", "double", "comma", "brace", "double">>,
            "double", "backslash", "double", "comma", "brace", "double")
  BY <1>2, Tuples
<1>7. QED
  BY <1>1, <1>3, <1>4, <1>5, <1>6

(* A lexeme of one character.                                              *)
LEMMA PlainIs ==
  ASSUME NEW x \in Plain
  PROVE  /\ OfOne(Spelling[x], Spelling[x][1]) /\ Spelling[x][1] \notin Quote
         /\ Spelling[x][1] # "slash" /\ Spelling[x][1] # "backslash"
         /\ Spelling[x][1] = "comma" <=> x = "comma"
         /\ Spelling[x][1] = "brace" <=> x = "close"
         /\ Spelling[x][1] \in Blank <=> x \in {"blank", "newline"}
<1>1. CASE x = "comma"
  BY <1>1, Spellings DEF OfOne, Quote, Blank
<1>2. CASE x = "close"
  BY <1>2, Spellings DEF OfOne, Quote, Blank
<1>3. CASE x = "blank"
  BY <1>3, Spellings DEF OfOne, Quote, Blank
<1>4. CASE x = "newline"
  BY <1>4, Spellings DEF OfOne, Quote, Blank
<1>5. QED
  BY <1>1, <1>2, <1>3, <1>4 DEF Plain

(* The places of a string where the scanner stops.                         *)
StopsIn(x) ==
  CASE x \in {"url", "list", "unclosed"} -> {1, 2, 3}
    [] x = "escaped" -> {1, 3, 4, 5}
    [] x = "other" -> {1, 2, 3, 4}

(* From one of its places the scanner gets to the next, and over the quote *)
(* at the end or the end of the text when the last character is read.      *)
GoesOn(x, s, d) ==
  /\ d \in Nat /\ 1 <= d /\ d < Len(s)
  /\ s[d + 1] = "backslash" => IF d + 1 < Len(s) THEN d + 2 \in StopsIn(x) ELSE x = "unclosed"
  /\ s[d + 1] # "backslash" => IF s[d + 1] = s[1] THEN d + 1 = Len(s) ELSE d + 1 \in StopsIn(x)

(* A string begins with its quote, and the scanner gets through it.        *)
LEMMA StringIs ==
  ASSUME NEW x \in Strings, NEW s, s = Spelling[x]
  PROVE  /\ s \in Seq(Char) /\ Len(s) \in Nat \ {0} /\ s[1] \in Quote /\ s[1] # "none"
         /\ s[1] # "slash" /\ s[1] # "comma" /\ s[1] # "brace" /\ s[1] \notin Blank
         /\ 1 \in StopsIn(x) /\ \A d \in StopsIn(x) : GoesOn(x, s, d)
<1>1. CASE x = "url"
  <2>1. OfFour(s, "double", "slash", "slash", "double") /\ StopsIn(x) = {1, 2, 3}
    BY <1>1, Spellings DEF StopsIn
  <2>2. GoesOn(x, s, 1) /\ GoesOn(x, s, 2) /\ GoesOn(x, s, 3)
    BY <2>1 DEF OfFour, GoesOn
  <2>3. QED
    BY <2>1, <2>2 DEF OfFour, Quote, Blank
<1>2. CASE x = "list"
  <2>1. OfFour(s, "double", "comma", "brace", "double") /\ StopsIn(x) = {1, 2, 3}
    BY <1>2, Spellings DEF StopsIn
  <2>2. GoesOn(x, s, 1) /\ GoesOn(x, s, 2) /\ GoesOn(x, s, 3)
    BY <2>1 DEF OfFour, GoesOn
  <2>3. QED
    BY <2>1, <2>2 DEF OfFour, Quote, Blank
<1>3. CASE x = "escaped"
  <2>1. /\ OfSix(s, "double", "backslash", "double", "comma", "brace", "double")
        /\ StopsIn(x) = {1, 3, 4, 5}
    BY <1>3, Spellings DEF StopsIn
  <2>2. GoesOn(x, s, 1) /\ GoesOn(x, s, 3) /\ GoesOn(x, s, 4) /\ GoesOn(x, s, 5)
    BY <2>1 DEF OfSix, GoesOn
  <2>3. QED
    BY <2>1, <2>2 DEF OfSix, Quote, Blank
<1>4. CASE x = "other"
  <2>1. OfFive(s, "single", "double", "slash", "star", "single") /\ StopsIn(x) = {1, 2, 3, 4}
    BY <1>4, Spellings DEF StopsIn
  <2>2. GoesOn(x, s, 1) /\ GoesOn(x, s, 2) /\ GoesOn(x, s, 3) /\ GoesOn(x, s, 4)
    BY <2>1 DEF OfFive, GoesOn
  <2>3. QED
    BY <2>1, <2>2 DEF OfFive, Quote, Blank
<1>5. CASE x = "unclosed"
  <2>1. OfFour(s, "double", "comma", "brace", "backslash") /\ StopsIn(x) = {1, 2, 3}
    BY <1>5, Spellings DEF StopsIn
  <2>2. GoesOn(x, s, 1) /\ GoesOn(x, s, 2)
    BY <2>1 DEF OfFour, GoesOn
  <2>3. GoesOn(x, s, 3)
    <3>1. s[3 + 1] = "backslash"
      BY <2>1 DEF OfFour
    <3>2. 3 \in Nat /\ 1 <= 3 /\ 3 < Len(s) /\ ~(3 + 1 < Len(s))
      BY <2>1 DEF OfFour
    <3>3. QED
      BY <1>5, <3>1, <3>2, Zenon DEF GoesOn
  <2>4. QED
    BY <2>1, <2>2, <2>3 DEF OfFour, Quote, Blank
<1>6. QED
  BY <1>1, <1>2, <1>3, <1>4, <1>5 DEF Strings

(* A comment, and where the scanner finds that it ends.                    *)
LEMMA CommentIs ==
  ASSUME NEW x \in Comments, NEW s, s = Spelling[x]
  PROVE  /\ s \in Seq(Char) /\ Len(s) \in {4, 5} /\ s[1] = "slash"
         /\ s[2] = IF x \in {"line", "lastline"} THEN "slash" ELSE "star"
         /\ x = "line" => Len(s) = 4 /\ s[3] # "newline" /\ s[4] = "newline"
         /\ x \in {"block", "quoted"}
              => Len(s) = 5 /\ s[3] # "star" /\ s[4] = "star" /\ s[5] = "slash"
         /\ x = "lastline" => Len(s) = 4 /\ s[3] # "newline" /\ s[4] # "newline"
         /\ x = "openend" => Len(s) = 4 /\ s[3] # "star"
<1>1. CASE x = "line"
  BY <1>1, Spellings DEF OfFour
<1>2. CASE x = "block"
  BY <1>2, Spellings DEF OfFive
<1>3. CASE x = "quoted"
  BY <1>3, Spellings DEF OfFive
<1>4. CASE x = "lastline"
  BY <1>4, Spellings DEF OfFour
<1>5. CASE x = "openend"
  BY <1>5, Spellings DEF OfFour
<1>6. QED
  BY <1>1, <1>2, <1>3, <1>4, <1>5 DEF Comments

(* No lexeme is spelled with nothing.                                      *)
LEMMA SpelledInChars ==
  \A x \in Lexeme : Spelling[x] \in Seq(Char) /\ Len(Spelling[x]) \in Nat \ {0}
<1>1. \A x \in Plain : Spelling[x] \in Seq(Char) /\ Len(Spelling[x]) \in Nat \ {0}
  BY PlainIs DEF OfOne
<1>2. \A x \in Strings : Spelling[x] \in Seq(Char) /\ Len(Spelling[x]) \in Nat \ {0}
  BY StringIs
<1>3. \A x \in Comments : Spelling[x] \in Seq(Char) /\ Len(Spelling[x]) \in Nat \ {0}
  BY CommentIs
<1>4. QED
  BY <1>1, <1>2, <1>3, Spellings

----------------------------------------------------------------------------
(* Where the lexemes of a text are found in it.                            *)

(* The spellings of the lexemes of t, and where the n-th of them ends.     *)
Spells(t) == [k \in DOMAIN t |-> Spelling[t[k]]]

EndOf(t, n) == Len(UpFront(Spells(t), n))

(* A text is the spellings of its lexemes, one behind the other.           *)
LEMMA SpellsIs ==
  ASSUME NEW t \in Seq(Lexeme)
  PROVE  /\ Spells(t) \in Seq(Seq(Char)) /\ Len(Spells(t)) = Len(t) /\ Len(t) \in Nat
         /\ \A n \in 1 .. Len(t) : Spells(t)[n] = Spelling[t[n]]
         /\ Spelled(t) = FlattenSeq(Spells(t))
<1>1. DOMAIN t = 1 .. Len(t) /\ Len(t) \in Nat /\ \A n \in 1 .. Len(t) : t[n] \in Lexeme
  OBVIOUS
<1>2. \A n \in 1 .. Len(t) : Spelling[t[n]] \in Seq(Char)
  BY <1>1, SpelledInChars
<1>3. Spells(t) \in [1 .. Len(t) -> Seq(Char)]
  BY <1>1, <1>2 DEF Spells
<1>4. Spells(t) \in Seq(Seq(Char)) /\ Len(Spells(t)) = Len(t)
  BY <1>1, <1>3, ListFrom
<1>5. QED
  BY <1>1, <1>4 DEF Spells, Spelled

(* The n-th lexeme begins behind the ones before it.                       *)
StandsAt(s, f, chars) ==
  \A i \in 1 .. Len(s) : f + i \in 1 .. Len(chars) /\ chars[f + i] = s[i]

LEMMA LexemeAt ==
  ASSUME NEW t \in Seq(Lexeme), NEW n \in 1 .. Len(t), NEW s, s = Spelling[t[n]],
         NEW chars, chars = Spelled(t)
  PROVE  /\ EndOf(t, n - 1) \in Nat /\ EndOf(t, n) = EndOf(t, n - 1) + Len(s)
         /\ s \in Seq(Char) /\ Len(s) \in Nat \ {0}
         /\ StandsAt(s, EndOf(t, n - 1), chars)
<1>1. /\ Spells(t) \in Seq(Seq(Char)) /\ Len(Spells(t)) = Len(t) /\ Len(t) \in Nat
      /\ Spells(t)[n] = s /\ chars = FlattenSeq(Spells(t))
  BY SpellsIs
<1>2. n \in 1 .. Len(Spells(t)) /\ n - 1 \in 0 .. Len(Spells(t)) /\ t[n] \in Lexeme
  BY <1>1
<1>3. s \in Seq(Char) /\ Len(s) \in Nat \ {0}
  BY <1>2, SpelledInChars
<1>4. PICK u \in Seq(Char) : u = UpFront(Spells(t), n - 1)
  BY <1>1, <1>2, UpFrontGrows
<1>5. UpFront(Spells(t), n) = u \o s
  BY <1>1, <1>2, <1>4, UpFrontGrows
<1>6. Len(u \o s) = Len(u) + Len(s) /\ Len(u) \in Nat
  BY <1>3, ConcatHas
<1>7. ASSUME NEW i \in 1 .. Len(s)
      PROVE  EndOf(t, n - 1) + i \in 1 .. Len(chars) /\ chars[EndOf(t, n - 1) + i] = s[i]
  <2>1. PICK L \in Seq(Seq(Char)) : L = Spells(t)
    BY <1>1
  <2>2. n \in 1 .. Len(L) /\ L[n] = s
    BY <1>1, <1>2, <2>1
  <2>3. i \in 1 .. Len(L[n])
    BY <2>2
  <2>4. /\ Len(UpFront(L, n - 1)) + i \in 1 .. Len(FlattenSeq(L))
        /\ FlattenSeq(L)[Len(UpFront(L, n - 1)) + i] = L[n][i]
    BY <2>2, <2>3, FlattenBlocks
  <2>5. EndOf(t, n - 1) = Len(UpFront(L, n - 1)) /\ chars = FlattenSeq(L)
    BY <1>1, <2>1 DEF EndOf
  <2>6. QED
    BY <2>2, <2>4, <2>5
<1>8. StandsAt(s, EndOf(t, n - 1), chars)
  BY <1>7 DEF StandsAt
<1>9. EndOf(t, n - 1) \in Nat /\ EndOf(t, n) = EndOf(t, n - 1) + Len(s)
  BY <1>4, <1>5, <1>6 DEF EndOf
<1>10. QED
  BY <1>3, <1>8, <1>9

(* The first lexeme begins at the beginning, the last ends at the end.     *)
LEMMA EndsAt ==
  ASSUME NEW t \in Seq(Lexeme)
  PROVE  /\ EndOf(t, 0) = 0 /\ EndOf(t, Len(t)) = Len(Spelled(t))
         /\ \A n \in 0 .. Len(t) :
              /\ EndOf(t, n) \in Nat /\ EndOf(t, n) <= Len(Spelled(t))
              /\ n # Len(t) <=> EndOf(t, n) < Len(Spelled(t))
<1>1. /\ Spells(t) \in Seq(Seq(Char)) /\ Len(Spells(t)) = Len(t) /\ Len(t) \in Nat
      /\ Spelled(t) = FlattenSeq(Spells(t))
  BY SpellsIs
<1>2. UpFront(Spells(t), 0) = << >> /\ UpFront(Spells(t), Len(t)) = Spelled(t)
  BY <1>1, UpFrontGrows
<1>3. EndOf(t, 0) = 0 /\ EndOf(t, Len(t)) = Len(Spelled(t))
  BY <1>2 DEF EndOf
<1>4. \A n \in 0 .. Len(t) : EndOf(t, n) \in Nat
  <2>1. \A n \in 0 .. Len(t) : UpFront(Spells(t), n) \in Seq(Char)
    BY <1>1, UpFrontGrows
  <2>2. \A u \in Seq(Char) : Len(u) \in Nat
    OBVIOUS
  <2>3. QED
    BY <2>1, <2>2 DEF EndOf
<1>5. ASSUME NEW n \in 0 .. Len(t), n # Len(t) PROVE EndOf(t, n) < Len(Spelled(t))
  <2>1. PICK k \in 1 .. Len(t) : k - 1 = n
    BY <1>1, <1>5
  <2>2. PICK s : s = Spelling[t[k]]
    OBVIOUS
  <2>3. PICK chars : chars = Spelled(t)
    OBVIOUS
  <2>4. Len(s) \in Nat \ {0} /\ \A i \in 1 .. Len(s) : EndOf(t, k - 1) + i \in 1 .. Len(chars)
    <3>1. Len(s) \in Nat \ {0} /\ StandsAt(s, EndOf(t, k - 1), chars)
      BY <2>2, <2>3, LexemeAt
    <3>2. QED
      BY <3>1 DEF StandsAt
  <2>5. EndOf(t, n) + 1 <= Len(chars) /\ Len(chars) \in Nat
    <3>1. chars \in Seq(Char)
      BY <1>1, <2>3, FlattenHas
    <3>2. QED
      BY <2>1, <2>4, <3>1
  <2>6. QED
    BY <1>4, <2>3, <2>5
<1>6. QED
  BY <1>1, <1>3, <1>4, <1>5

----------------------------------------------------------------------------
(* What the passes leave of a list of lexemes.                             *)

(* What pass p leaves of the k-th lexeme of t, of all of t, and writes of each.*)
Pass == {"comments", "commas"}

LeftOf(t, k, p) ==
  IF p = "comments" THEN CommentLeaves(t[k]) ELSE IF Trails(t, k) THEN << >> ELSE <<t[k]>>

Lefts(t, p) == [k \in DOMAIN t |-> LeftOf(t, k, p)]
Left(t, p) == FlattenSeq(Lefts(t, p))
Writes(t, p) == [k \in DOMAIN t |-> Spelled(LeftOf(t, k, p))]

(* An element is appended behind the others.                               *)
LEMMA Appended ==
  ASSUME NEW X, NEW s \in Seq(X), NEW x \in X
  PROVE  /\ Append(s, x) \in Seq(X) /\ Len(Append(s, x)) = Len(s) + 1 /\ Len(s) \in Nat
         /\ Append(s, x)[Len(s) + 1] = x
         /\ \A k \in 1 .. Len(s) : Append(s, x)[k] = s[k]
OBVIOUS

(* One more lexeme is spelled behind the others.                           *)
LEMMA SpelledAppend ==
  /\ Spelled(<< >>) = << >>
  /\ \A t \in Seq(Lexeme), x \in Lexeme : Spelled(Append(t, x)) = Spelled(t) \o Spelling[x]
<1>1. << >> \in Seq(Lexeme) /\ Len(<< >>) = 0
  OBVIOUS
<1>2. Spells(<< >>) = << >>
  <2>1. Spells(<< >>) \in Seq(Seq(Char)) /\ Len(Spells(<< >>)) = 0
    BY <1>1, SpellsIs
  <2>2. QED
    BY <2>1
<1>3. Spelled(<< >>) = << >>
  BY <1>1, <1>2, SpellsIs, FlattenNone
<1>4. ASSUME NEW t \in Seq(Lexeme), NEW x \in Lexeme
      PROVE Spelled(Append(t, x)) = Spelled(t) \o Spelling[x]
  <2>1. PICK u \in Seq(Lexeme) : u = Append(t, x)
    BY Appended
  <2>2. /\ Len(u) = Len(t) + 1 /\ Len(t) \in Nat /\ u[Len(t) + 1] = x
        /\ \A k \in 1 .. Len(t) : u[k] = t[k]
    BY <2>1, Appended
  <2>3. PICK L \in Seq(Seq(Char)) : L = Spells(t)
    BY SpellsIs
  <2>4. PICK N \in Seq(Seq(Char)) : N = Spells(u)
    BY SpellsIs
  <2>5. PICK s \in Seq(Char) : s = Spelling[x]
    BY SpelledInChars
  <2>6. PICK M \in Seq(Seq(Char)) : M = Append(L, s)
    BY Appended
  <2>7. /\ Len(L) = Len(t) /\ Len(N) = Len(u) /\ Len(M) = Len(t) + 1 /\ M[Len(t) + 1] = s
        /\ \A k \in 1 .. Len(t) : M[k] = L[k]
    <3>1. Len(L) = Len(t) /\ Len(N) = Len(u)
      BY <2>3, <2>4, SpellsIs
    <3>2. Len(M) = Len(L) + 1 /\ M[Len(L) + 1] = s /\ \A k \in 1 .. Len(L) : M[k] = L[k]
      BY <2>6, Appended
    <3>3. QED
      BY <3>1, <3>2
  <2>8. \A k \in 1 .. Len(u) : N[k] = M[k]
    <3>1. \A k \in 1 .. Len(t) : L[k] = Spelling[t[k]]
      BY <2>3, SpellsIs
    <3>2. \A k \in 1 .. Len(u) : N[k] = Spelling[u[k]]
      BY <2>4, SpellsIs
    <3>3. \A k \in 1 .. Len(u) : k \in 1 .. Len(t) \/ k = Len(t) + 1
      BY <2>2
    <3>4. QED
      BY <2>2, <2>5, <2>7, <3>1, <3>2, <3>3
  <2>9. N = M
    <3>1. Len(N) = Len(M)
      BY <2>2, <2>7
    <3>2. QED
      BY <2>7, <2>8, <3>1, SameLists
  <2>10. FlattenSeq(M) = FlattenSeq(L) \o s
    BY <2>6, FlattenAppend
  <2>11. Spelled(u) = FlattenSeq(N) /\ Spelled(t) = FlattenSeq(L)
    BY <2>3, <2>4, SpellsIs
  <2>12. QED
    BY <2>1, <2>5, <2>9, <2>10, <2>11
<1>5. QED
  BY <1>3, <1>4

(* The spelling of one lexeme.                                             *)
LEMMA SpelledShort ==
  /\ Spelled(<< >>) = << >>
  /\ \A x \in Lexeme : Spelled(<<x>>) = Spelling[x]
<1>1. ASSUME NEW x \in Lexeme PROVE Spelled(<<x>>) = Spelling[x]
  <2>1. << >> \in Seq(Lexeme) /\ Append(<< >>, x) = <<x>>
    OBVIOUS
  <2>2. Spelled(<<x>>) = << >> \o Spelling[x]
    BY <2>1, SpelledAppend
  <2>3. PICK s \in Seq(Char) : s = Spelling[x]
    BY SpelledInChars
  <2>4. << >> \o s = s
    OBVIOUS
  <2>5. QED
    BY <2>2, <2>3, <2>4
<1>2. QED
  BY <1>1, SpelledAppend

(* A lexeme is left, or a newline, or nothing.                             *)
LEMMA LeftOfIs ==
  ASSUME NEW t \in Seq(Lexeme), NEW k \in 1 .. Len(t), NEW p \in Pass
  PROVE  \/ LeftOf(t, k, p) = << >>
         \/ LeftOf(t, k, p) = <<t[k]>> /\ (p = "comments" => t[k] \notin Comments)
         \/ LeftOf(t, k, p) = <<"newline">>
<1>1. CASE p = "comments"
  BY <1>1 DEF LeftOf, CommentLeaves, Comments
<1>2. CASE p # "comments"
  BY <1>2 DEF LeftOf
<1>3. QED
  BY <1>1, <1>2

(* For each lexeme, what is left of it and what is written of it.          *)
LEMMA LeftsAre ==
  ASSUME NEW t \in Seq(Lexeme), NEW p \in Pass
  PROVE  /\ Lefts(t, p) \in Seq(Seq(Lexeme)) /\ Len(Lefts(t, p)) = Len(t) /\ Len(t) \in Nat
         /\ Writes(t, p) \in Seq(Seq(Char)) /\ Len(Writes(t, p)) = Len(t)
         /\ \A k \in 1 .. Len(t) : /\ Lefts(t, p)[k] = LeftOf(t, k, p)
                                    /\ Writes(t, p)[k] = Spelled(LeftOf(t, k, p))
<1>1. DOMAIN t = 1 .. Len(t) /\ Len(t) \in Nat /\ \A k \in 1 .. Len(t) : t[k] \in Lexeme
  OBVIOUS
<1>2. "newline" \in Lexeme
  BY Spellings DEF Plain
<1>3. \A k \in 1 .. Len(t) : LeftOf(t, k, p) \in Seq(Lexeme)
  BY <1>1, <1>2, LeftOfIs, ShortLists
<1>4. \A s \in Seq(Lexeme) : Spelled(s) \in Seq(Char)
  BY SpellsIs, FlattenHas
<1>5. Lefts(t, p) \in [1 .. Len(t) -> Seq(Lexeme)] /\ Writes(t, p) \in [1 .. Len(t) -> Seq(Char)]
  BY <1>1, <1>3, <1>4 DEF Lefts, Writes
<1>6. /\ Lefts(t, p) \in Seq(Seq(Lexeme)) /\ Len(Lefts(t, p)) = Len(t)
      /\ Writes(t, p) \in Seq(Seq(Char)) /\ Len(Writes(t, p)) = Len(t)
  BY <1>1, <1>5, ListFrom
<1>7. QED
  BY <1>1, <1>6 DEF Lefts, Writes

(* What the pass writes spells what it leaves.                             *)
LEMMA WritesSpell ==
  ASSUME NEW t \in Seq(Lexeme), NEW p \in Pass
  PROVE  Left(t, p) \in Seq(Lexeme) /\ Spelled(Left(t, p)) = FlattenSeq(Writes(t, p))
<1> DEFINE P == {n \in Nat : n <= Len(t) =>
                   Spelled(UpFront(Lefts(t, p), n)) = UpFront(Writes(t, p), n)}
<1>1. /\ Lefts(t, p) \in Seq(Seq(Lexeme)) /\ Len(Lefts(t, p)) = Len(t) /\ Len(t) \in Nat
      /\ Writes(t, p) \in Seq(Seq(Char)) /\ Len(Writes(t, p)) = Len(t)
      /\ \A k \in 1 .. Len(t) : /\ Lefts(t, p)[k] = LeftOf(t, k, p)
                                 /\ Writes(t, p)[k] = Spelled(LeftOf(t, k, p))
  BY LeftsAre
<1>2. PICK L \in Seq(Seq(Lexeme)) : L = Lefts(t, p)
  BY <1>1
<1>3. PICK W \in Seq(Seq(Char)) : W = Writes(t, p)
  BY <1>1
<1>4. Len(L) = Len(t) /\ Len(W) = Len(t)
  BY <1>1, <1>2, <1>3
<1>5. 0 \in P
  <2>1. UpFront(L, 0) = << >> /\ UpFront(W, 0) = << >>
    BY UpFrontGrows
  <2>2. QED
    BY <1>2, <1>3, <2>1, SpelledShort
<1>6. ASSUME NEW n \in Nat, n \in P PROVE n + 1 \in P
  <2>1. ASSUME n + 1 <= Len(t) PROVE Spelled(UpFront(L, n + 1)) = UpFront(W, n + 1)
    <3>1. PICK k \in 1 .. Len(t) : k = n + 1 /\ k - 1 = n
      BY <1>1, <2>1
    <3>2. PICK u : u = UpFront(L, n)
      OBVIOUS
    <3>3. PICK w : w = UpFront(W, n)
      OBVIOUS
    <3>4. u \in Seq(Lexeme) /\ w \in Seq(Char) /\ Spelled(u) = w
      <4>1. n \in 0 .. Len(t)
        BY <1>1, <2>1
      <4>2. QED
        <5>1. u \in Seq(Lexeme) /\ w \in Seq(Char)
          BY <1>4, <3>2, <3>3, <4>1, UpFrontGrows
        <5>2. Spelled(u) = w
          BY <1>1, <1>2, <1>3, <1>6, <2>1, <3>2, <3>3
        <5>3. QED
          BY <5>1, <5>2
    <3>5. UpFront(L, k) = u \o LeftOf(t, k, p) /\ UpFront(W, k) = w \o Spelled(LeftOf(t, k, p))
      BY <1>1, <1>2, <1>3, <1>4, <3>1, <3>2, <3>3, UpFrontGrows
    <3>6. CASE LeftOf(t, k, p) = << >>
      <4>1. u \o << >> = u /\ w \o << >> = w
        BY <3>4
      <4>2. QED
        BY <3>1, <3>4, <3>5, <3>6, <4>1, SpelledShort
    <3>7. ASSUME NEW x \in Lexeme, LeftOf(t, k, p) = <<x>>
          PROVE Spelled(UpFront(L, n + 1)) = UpFront(W, n + 1)
      <4>1. u \o <<x>> = Append(u, x)
        BY <3>4
      <4>2. Spelled(Append(u, x)) = w \o Spelling[x]
        BY <3>4, SpelledAppend
      <4>3. QED
        BY <3>1, <3>5, <3>7, <4>1, <4>2, SpelledShort
    <3>8. t[k] \in Lexeme /\ "newline" \in Lexeme
      BY Spellings DEF Plain
    <3>9. QED
      BY <3>6, <3>7, <3>8, LeftOfIs
  <2>2. QED
    BY <1>2, <1>3, <2>1
<1>7. Len(t) \in P
  <2>1. Nat \subseteq P
    <3> HIDE DEF P
    <3>1. QED
      BY <1>5, <1>6, NumberInduction
  <2> HIDE DEF P
  <2>2. QED
    BY <1>1, <2>1
<1>8. UpFront(L, Len(t)) = FlattenSeq(L) /\ UpFront(W, Len(t)) = FlattenSeq(W)
  BY <1>4, UpFrontGrows
<1>9. FlattenSeq(L) \in Seq(Lexeme)
  BY FlattenHas
<1>10. QED
  BY <1>1, <1>2, <1>3, <1>7, <1>8, <1>9 DEF Left

(* A text that a pass can be given.                                        *)
Fits(t, p) ==
  /\ t \in Seq(Lexeme)
  /\ \A k \in 1 .. Len(t) : t[k] \in OnlyLast => k = Len(t)
  /\ p = "commas" => \A k \in 1 .. Len(t) : t[k] \notin Comments

(* What the first pass leaves fits the second.                             *)
LEMMA LeftFits ==
  ASSUME NEW t, Fits(t, "comments")
  PROVE  Fits(Left(t, "comments"), "commas")
<1> DEFINE Good(u, n) == /\ u \in Seq(Lexeme)
                         /\ \A i \in 1 .. Len(u) : u[i] \notin Comments
                         /\ \A i \in 1 .. Len(u) : u[i] \in OnlyLast => n = Len(t) /\ i = Len(u)
           P == {n \in Nat : n <= Len(t) => Good(UpFront(Lefts(t, "comments"), n), n)}
<1>1. t \in Seq(Lexeme) /\ "comments" \in Pass /\ Len(t) \in Nat
  BY DEF Fits, Pass
<1>2. PICK L \in Seq(Seq(Lexeme)) : L = Lefts(t, "comments")
  BY <1>1, LeftsAre
<1>3. Len(L) = Len(t) /\ \A k \in 1 .. Len(t) : L[k] = LeftOf(t, k, "comments")
  BY <1>1, <1>2, LeftsAre
<1>4. 0 \in P
  <2>1. UpFront(L, 0) = << >>
    BY UpFrontGrows
  <2>2. << >> \in Seq(Lexeme) /\ 1 .. Len(<< >>) = {}
    OBVIOUS
  <2>3. QED
    BY <1>2, <2>1, <2>2
<1>5. ASSUME NEW n \in Nat, n \in P PROVE n + 1 \in P
  <2>1. ASSUME n + 1 <= Len(t) PROVE Good(UpFront(L, n + 1), n + 1)
    <3>1. PICK k \in 1 .. Len(t) : k = n + 1 /\ k - 1 = n
      BY <1>1, <2>1
    <3>2. PICK u : u = UpFront(L, n)
      OBVIOUS
    <3>3. Good(u, n) /\ n # Len(t)
      BY <1>1, <1>2, <1>5, <2>1, <3>2
    <3>4. UpFront(L, k) = u \o LeftOf(t, k, "comments")
      BY <1>3, <3>1, <3>2, UpFrontGrows
    <3>5. CASE LeftOf(t, k, "comments") = << >>
      <4>1. u \o << >> = u
        BY <3>3
      <4>2. QED
        BY <3>1, <3>3, <3>4, <3>5, <4>1
    <3>6. ASSUME NEW x \in Lexeme, LeftOf(t, k, "comments") = <<x>>, x \notin Comments,
                 x \in OnlyLast => k = Len(t)
          PROVE Good(UpFront(L, n + 1), n + 1)
      <4>1. PICK v : v = Append(u, x)
        OBVIOUS
      <4>2. u \o <<x>> = v
        BY <3>3, <4>1
      <4>3. /\ v \in Seq(Lexeme) /\ Len(v) = Len(u) + 1 /\ v[Len(u) + 1] = x /\ Len(u) \in Nat
            /\ \A i \in 1 .. Len(u) : v[i] = u[i]
        BY <3>3, <4>1
      <4>4. \A i \in 1 .. Len(v) : i \in 1 .. Len(u) \/ i = Len(v)
        BY <4>3
      <4>5. \A i \in 1 .. Len(u) : u[i] \notin Comments /\ u[i] \notin OnlyLast
        BY <3>3
      <4>6. Good(v, k)
        BY <3>6, <4>3, <4>4, <4>5
      <4>7. QED
        BY <3>1, <3>4, <3>6, <4>2, <4>6
    <3>7. t[k] \in Lexeme /\ "newline" \in Lexeme /\ "newline" \notin Comments
          /\ "newline" \notin OnlyLast /\ (t[k] \in OnlyLast => k = Len(t))
      BY <1>1, Spellings DEF Plain, Comments, OnlyLast, Fits
    <3> HIDE DEF Good
    <3>8. QED
      BY <1>1, <3>5, <3>6, <3>7, LeftOfIs
  <2> HIDE DEF Good
  <2>2. QED
    BY <1>2, <2>1
<1>6. Good(UpFront(L, Len(t)), Len(t))
  <2>1. Nat \subseteq P
    <3> HIDE DEF P
    <3>1. QED
      BY <1>4, <1>5, NumberInduction
  <2> HIDE DEF Good
  <2>2. QED
    BY <1>1, <1>2, <2>1
<1>7. UpFront(L, Len(t)) = Left(t, "comments")
  BY <1>2, <1>3, UpFrontGrows DEF Left
<1>8. QED
  BY <1>6, <1>7 DEF Fits

----------------------------------------------------------------------------
(* Looking ahead.                                                          *)

(* The first of some positions is what FirstFrom finds.                    *)
LEMMA FirstIs ==
  ASSUME NEW k \in Nat, NEW S, S \subseteq Nat
  PROVE  /\ (\A j \in S : ~(k <= j)) => FirstFrom(k, S) = Len(text) + 1
         /\ \A q \in S : k <= q /\ (\A h \in S : k <= h => q <= h) => FirstFrom(k, S) = q
<1> DEFINE found == {j \in S : k <= j}
<1>1. ASSUME \A j \in S : ~(k <= j) PROVE FirstFrom(k, S) = Len(text) + 1
  <2>1. found = {}
    BY <1>1
  <2>2. QED
    BY <2>1 DEF FirstFrom
<1>2. ASSUME NEW q \in S, k <= q, \A h \in S : k <= h => q <= h PROVE FirstFrom(k, S) = q
  <2>1. q \in found /\ found # {} /\ \A h \in found : q <= h
    BY <1>2
  <2>2. FirstFrom(k, S) = CHOOSE j \in found : \A h \in found : j <= h
    BY <2>1 DEF FirstFrom
  <2> DEFINE c == CHOOSE j \in found : \A h \in found : j <= h
  <2>3. c \in found /\ \A h \in found : c <= h
    BY <2>1
  <2>4. c <= q /\ q <= c /\ c \in Nat /\ q \in Nat
    BY <2>1, <2>3
  <2> HIDE DEF c, found
  <2>5. c = q
    BY <2>4
  <2>6. QED
    BY <2>2, <2>5 DEF c
<1>3. QED
  BY <1>1, <1>2

(* Blank lexemes are one character each.                                   *)
LEMMA BlankRun ==
  ASSUME NEW t \in Seq(Lexeme), NEW n \in 0 .. Len(t), NEW m \in 0 .. Len(t), n <= m,
         \A h \in n + 1 .. m : t[h] \in {"blank", "newline"},
         NEW chars, chars = Spelled(t)
  PROVE  /\ EndOf(t, m) = EndOf(t, n) + (m - n)
         /\ \A q \in EndOf(t, n) + 1 .. EndOf(t, m) : chars[q] \in Blank
<1> DEFINE AllBlank(k) == /\ EndOf(t, k) = EndOf(t, n) + (k - n)
                          /\ \A q \in EndOf(t, n) + 1 .. EndOf(t, k) : chars[q] \in Blank
           P == {k \in Nat : n <= k /\ k <= m => AllBlank(k)}
<1>1. n \in Nat /\ m \in Nat /\ Len(t) \in Nat /\ m <= Len(t)
  OBVIOUS
<1>2. \A k \in 0 .. Len(t) : EndOf(t, k) \in Nat
  BY EndsAt
<1>3. AllBlank(n)
  <2>1. EndOf(t, n) \in Nat
    BY <1>2
  <2>2. QED
    BY <1>1, <2>1
<1>4. 0 \in P
  BY <1>1, <1>3
<1>5. ASSUME NEW k \in Nat, k \in P PROVE k + 1 \in P
  <2>1. ASSUME n <= k + 1, k + 1 <= m, n # k + 1 PROVE AllBlank(k + 1)
    <3>1. PICK j \in 1 .. Len(t) : j = k + 1 /\ j - 1 = k /\ j \in n + 1 .. m
      BY <1>1, <2>1
    <3>2. AllBlank(k)
      BY <1>1, <1>5, <2>1
    <3>3. t[j] \in Plain /\ t[j] \in {"blank", "newline"}
      BY <3>1 DEF Plain
    <3>4. PICK s : s = Spelling[t[j]]
      OBVIOUS
    <3>5. Len(s) = 1 /\ s[1] \in Blank
      BY <3>3, <3>4, PlainIs DEF OfOne
    <3>6. PICK f \in Nat : f = EndOf(t, k)
      BY <1>1, <1>2, <3>1
    <3>7. EndOf(t, j) = f + 1 /\ chars[f + 1] = s[1]
      <4>1. 1 \in 1 .. Len(s) /\ EndOf(t, j - 1) = f
        BY <3>1, <3>5, <3>6
      <4>2. EndOf(t, j) = EndOf(t, j - 1) + Len(s)
        BY <3>4, LexemeAt
      <4>3. chars[EndOf(t, j - 1) + 1] = s[1]
        <5>1. StandsAt(s, EndOf(t, j - 1), chars)
          BY <3>4, LexemeAt
        <5>2. QED
          BY <4>1, <5>1 DEF StandsAt
      <4>4. QED
        BY <3>5, <4>1, <4>2, <4>3
    <3>8. PICK b \in Nat : b = EndOf(t, n)
      BY <1>2
    <3>9. f + 1 = b + (j - n)
      BY <1>1, <3>1, <3>2, <3>6, <3>8
    <3>10. ASSUME NEW q \in b + 1 .. f + 1 PROVE chars[q] \in Blank
      <4>1. q = f + 1 \/ q \in b + 1 .. f
        BY <3>6, <3>8
      <4>2. QED
        BY <3>2, <3>5, <3>6, <3>7, <3>8, <4>1
    <3>11. QED
      BY <3>1, <3>7, <3>8, <3>9, <3>10
  <2> HIDE DEF AllBlank
  <2>2. QED
    BY <1>3, <2>1
<1>6. AllBlank(m)
  <2>1. Nat \subseteq P
    <3> HIDE DEF P
    <3>1. QED
      BY <1>4, <1>5, NumberInduction
  <2> HIDE DEF AllBlank
  <2>2. QED
    BY <1>1, <2>1
<1>7. QED
  BY <1>6

(* What the scanner has before it where a lexeme begins.                   *)
ReadsOn(s) == \A i \in 1 .. Len(s) - 1 : pos + i <= Len(text) /\ text[pos + i] = s[i + 1]

LexemeHere(t, n, s) ==
  /\ pos \in Nat /\ Len(text) \in Nat /\ pos <= Len(text) /\ text[pos] = s[1]
  /\ s \in Seq(Char) /\ Len(s) \in Nat \ {0}
  /\ EndOf(t, n) = pos + (Len(s) - 1) /\ EndOf(t, n) <= Len(text)
  /\ n = Len(t) => EndOf(t, n) = Len(text)
  /\ ReadsOn(s)

LEMMA WhatFollows ==
  ASSUME NEW t \in Seq(Lexeme), NEW n \in 1 .. Len(t), text = Spelled(t),
         pos = EndOf(t, n - 1) + 1, NEW s, s = Spelling[t[n]]
  PROVE  LexemeHere(t, n, s)
<1>1. PICK b : b = EndOf(t, n - 1)
  OBVIOUS
<1>2. /\ b \in Nat /\ EndOf(t, n) = b + Len(s) /\ s \in Seq(Char) /\ Len(s) \in Nat \ {0}
      /\ \A i \in 1 .. Len(s) : b + i \in 1 .. Len(text) /\ text[b + i] = s[i]
  <2>1. EndOf(t, n) = EndOf(t, n - 1) + Len(s) /\ EndOf(t, n - 1) \in Nat
    BY LexemeAt
  <2>2. s \in Seq(Char) /\ Len(s) \in Nat \ {0}
    BY LexemeAt
  <2>3. ASSUME NEW i \in 1 .. Len(s)
        PROVE EndOf(t, n - 1) + i \in 1 .. Len(text) /\ text[EndOf(t, n - 1) + i] = s[i]
    <3>1. StandsAt(s, EndOf(t, n - 1), text)
      BY LexemeAt
    <3>2. QED
      BY <3>1 DEF StandsAt
  <2>4. QED
    BY <1>1, <2>1, <2>2, <2>3
<1>3. n \in 0 .. Len(t) /\ Len(t) \in 0 .. Len(t)
  OBVIOUS
<1>4. Len(text) \in Nat /\ EndOf(t, n) <= Len(text) /\ EndOf(t, Len(t)) = Len(text)
  BY <1>3, EndsAt
<1>5. 1 \in 1 .. Len(s) /\ pos = b + 1
  BY <1>1, <1>2
<1>6. b + 1 \in 1 .. Len(text) /\ text[b + 1] = s[1]
  BY <1>2, <1>5
<1>7. ASSUME NEW i \in 1 .. Len(s) - 1 PROVE pos + i <= Len(text) /\ text[pos + i] = s[i + 1]
  <2>1. PICK l \in Nat : l = Len(s)
    BY <1>2
  <2>2. i \in 1 .. l - 1
    BY <2>1
  <2>3. i + 1 \in 1 .. l /\ b + 1 + i = b + (i + 1)
    BY <1>2, <2>2, SMTT(30)
  <2>4. b + (i + 1) \in 1 .. Len(text) /\ text[b + (i + 1)] = s[i + 1]
    BY <1>2, <2>1, <2>3
  <2>5. QED
    BY <1>4, <1>5, <2>3, <2>4
<1>8. pos \in Nat /\ pos <= Len(text) /\ text[pos] = s[1] /\ EndOf(t, n) = pos + (Len(s) - 1)
  <2>1. pos = b + 1 /\ b \in Nat /\ Len(s) \in Nat /\ EndOf(t, n) = b + Len(s)
    BY <1>2, <1>5
  <2>2. text[pos] = s[1] /\ pos \in 1 .. Len(text)
    BY <1>6, <2>1
  <2>3. pos <= Len(text)
    BY <2>2
  <2>4. EndOf(t, n) = pos + (Len(s) - 1) /\ pos \in Nat
    BY <2>1
  <2>5. QED
    BY <2>2, <2>3, <2>4
<1>9. ReadsOn(s)
  BY <1>7 DEF ReadsOn
<1>10. QED
  BY <1>2, <1>4, <1>8, <1>9 DEF LexemeHere

(* Only a blank begins with a blank, and only a bracket with a bracket.    *)
LEMMA FirstCharacter ==
  ASSUME NEW x \in Lexeme, x \notin Comments
  PROVE  /\ Spelling[x][1] \in Blank <=> x \in {"blank", "newline"}
         /\ Spelling[x][1] = "brace" <=> x = "close"
<1>1. CASE x \in Plain
  BY <1>1, PlainIs
<1>2. CASE x \in Strings
  <2>1. Spelling[x][1] # "brace" /\ Spelling[x][1] \notin Blank
    BY <1>2, StringIs
  <2>2. x \notin {"blank", "newline", "close"}
    BY <1>2 DEF Strings
  <2>3. QED
    BY <2>1, <2>2
<1>3. QED
  BY <1>1, <1>2, Spellings

(* The look ahead of a comma finds a bracket exactly where one follows     *)
(* after blanks.                                                           *)
LEMMA CommaTrails ==
  ASSUME NEW t, Fits(t, "commas"), NEW n \in 1 .. Len(t), text = Spelled(t), pass = "commas",
         pos = EndOf(t, n - 1) + 1, t[n] = "comma"
  PROVE  AtTrailingComma <=> Trails(t, n)
<1> DEFINE S == {j \in DOMAIN text : text[j] \notin Blank}
           next == FirstFrom(pos + 1, S)
           Other == {j \in n + 1 .. Len(t) : t[j] \notin {"blank", "newline"}}
<1>1. t \in Seq(Lexeme) /\ Len(t) \in Nat /\ \A j \in 1 .. Len(t) : t[j] \notin Comments
  BY DEF Fits
<1>2. text \in Seq(Char)
  <2>1. Spells(t) \in Seq(Seq(Char)) /\ Spelled(t) = FlattenSeq(Spells(t))
    BY <1>1, SpellsIs
  <2>2. QED
    BY <2>1, FlattenHas
<1>3. DOMAIN text = 1 .. Len(text) /\ Len(text) \in Nat
  BY <1>2
<1>4. /\ pos \in Nat /\ text[pos] = "comma" /\ EndOf(t, n) = pos
  <2>1. PICK s : s = Spelling[t[n]]
    OBVIOUS
  <2>2. Len(s) = 1 /\ s[1] = "comma"
    BY <2>1, Spellings DEF OfOne
  <2>3. pos \in Nat /\ text[pos] = s[1] /\ EndOf(t, n) = pos + (Len(s) - 1)
    <3>1. LexemeHere(t, n, s)
      BY <1>1, <2>1, WhatFollows
    <3>2. QED
      BY <3>1 DEF LexemeHere
  <2>4. QED
    BY <2>2, <2>3
<1>5. AtTrailingComma <=> next <= Len(text) /\ text[next] = "brace"
  BY <1>4 DEF AtTrailingComma
<1>6. S \subseteq Nat /\ pos + 1 \in Nat
  BY <1>3, <1>4
<1>7. CASE Other = {}
  <2>1. \A h \in n + 1 .. Len(t) : t[h] \in {"blank", "newline"}
    BY <1>7
  <2>2. ~Trails(t, n)
    BY <2>1 DEF Trails
  <2>3. \A q \in pos + 1 .. Len(text) : text[q] \in Blank
    <3>1. n \in 0 .. Len(t) /\ Len(t) \in 0 .. Len(t) /\ n <= Len(t)
      BY <1>1
    <3>2. \A q \in EndOf(t, n) + 1 .. EndOf(t, Len(t)) : text[q] \in Blank
      BY <1>1, <2>1, <3>1, BlankRun
    <3>3. EndOf(t, Len(t)) = Len(text)
      BY <1>1, EndsAt
    <3>4. QED
      BY <1>4, <3>2, <3>3
  <2>4. \A j \in S : ~(pos + 1 <= j)
    BY <1>3, <1>4, <2>3
  <2>5. next = Len(text) + 1
    <3> HIDE DEF S
    <3>1. QED
      BY <1>6, <2>4, FirstIs
  <2> HIDE DEF next
  <2>6. QED
    BY <1>3, <1>5, <2>2, <2>5
<1>8. CASE Other # {}
  <2>1. PICK j \in Other : \A h \in Other : j <= h
    <3>1. Other \subseteq Nat
      BY <1>1
    <3> HIDE DEF Other
    <3>2. QED
      BY <1>8, <3>1, LeastElement
  <2>2. j \in 1 .. Len(t) /\ n + 1 <= j /\ j - 1 \in 0 .. Len(t) /\ n <= j - 1 /\ n \in 0 .. Len(t)
    BY <1>1, <2>1
  <2>3. t[j] \notin {"blank", "newline"} /\ \A h \in n + 1 .. j - 1 : t[h] \in {"blank", "newline"}
    BY <1>1, <2>1
  <2>4. Trails(t, n) <=> t[j] = "close"
    <3>1. ASSUME t[j] = "close" PROVE Trails(t, n)
      BY <2>1, <2>3, <3>1 DEF Trails
    <3>2. ASSUME Trails(t, n) PROVE t[j] = "close"
      <4>1. PICK i \in n + 1 .. Len(t) :
              t[i] = "close" /\ \A h \in n + 1 .. i - 1 : t[h] \in {"blank", "newline"}
        BY <3>2 DEF Trails
      <4>2. i \in Other
        BY <4>1
      <4>3. j <= i /\ j \in Int /\ i \in Int
        BY <1>1, <2>1, <4>1, <4>2
      <4>4. CASE j = i
        BY <4>1, <4>4
      <4>5. CASE j # i
        <5>1. j \in n + 1 .. i - 1
          BY <2>2, <4>3, <4>5
        <5>2. QED
          BY <2>3, <4>1, <5>1
      <4>6. QED
        BY <4>4, <4>5
    <3>3. QED
      BY <3>1, <3>2
  <2>5. PICK f : f = EndOf(t, j - 1)
    OBVIOUS
  <2>6. \A q \in pos + 1 .. f : text[q] \in Blank
    <3>1. \A q \in EndOf(t, n) + 1 .. EndOf(t, j - 1) : text[q] \in Blank
      BY <1>1, <2>2, <2>3, BlankRun
    <3>2. QED
      BY <1>4, <2>5, <3>1
  <2>7. f \in Nat /\ pos <= f
    <3>1. EndOf(t, j - 1) = EndOf(t, n) + (j - 1 - n)
      BY <1>1, <2>2, <2>3, BlankRun
    <3>2. QED
      BY <1>1, <1>4, <2>2, <2>5, <3>1
  <2>8. PICK s : s = Spelling[t[j]]
    OBVIOUS
  <2>9. f + 1 \in 1 .. Len(text) /\ text[f + 1] = s[1]
    <3>1. 1 \in 1 .. Len(s)
      <4>1. Len(s) \in Nat \ {0}
        BY <1>1, <2>2, <2>8, LexemeAt
      <4>2. QED
        BY <4>1
    <3>2. StandsAt(s, EndOf(t, j - 1), text)
      BY <1>1, <2>2, <2>8, LexemeAt
    <3>3. QED
      BY <2>5, <3>1, <3>2 DEF StandsAt
  <2>10. s[1] \notin Blank /\ (s[1] = "brace" <=> t[j] = "close")
    BY <1>1, <2>2, <2>3, <2>8, FirstCharacter
  <2>11. next = f + 1
    <3>1. f + 1 \in S /\ pos + 1 <= f + 1
      BY <1>3, <1>4, <2>7, <2>9, <2>10
    <3>2. ASSUME NEW h \in S, pos + 1 <= h PROVE f + 1 <= h
      <4>1. h \in Nat /\ text[h] \notin Blank
        BY <1>3, <3>2
      <4>2. ~(h <= f)
        BY <1>4, <2>6, <2>7, <3>2, <4>1
      <4>3. QED
        BY <2>7, <4>1, <4>2
    <3> HIDE DEF S
    <3>3. QED
      BY <1>6, <3>1, <3>2, FirstIs
  <2> HIDE DEF next
  <2>12. QED
    BY <1>3, <1>5, <2>4, <2>9, <2>10, <2>11
<1>9. QED
  BY <1>7, <1>8

----------------------------------------------------------------------------
(* Where a pass may be.                                                    *)

(* What a pass has written before it gets to the lexeme behind the n-th.   *)
Wrote(t, n, p) == UpFront(Writes(t, p), n)

LEMMA WroteIs ==
  ASSUME NEW t \in Seq(Lexeme), NEW p \in Pass
  PROVE  /\ Wrote(t, 0, p) = << >> /\ Wrote(t, Len(t), p) = Spelled(Left(t, p))
         /\ \A n \in 0 .. Len(t) : Wrote(t, n, p) \in Seq(Char)
         /\ \A n \in 1 .. Len(t) :
              Wrote(t, n, p) = Wrote(t, n - 1, p) \o Spelled(LeftOf(t, n, p))
<1>1. /\ Writes(t, p) \in Seq(Seq(Char)) /\ Len(Writes(t, p)) = Len(t)
      /\ \A n \in 1 .. Len(t) : Writes(t, p)[n] = Spelled(LeftOf(t, n, p))
      /\ Spelled(Left(t, p)) = FlattenSeq(Writes(t, p))
  BY LeftsAre, WritesSpell
<1>2. QED
  BY <1>1, UpFrontGrows DEF Wrote

(* What is appended to the second of two lists is appended to both.        *)
AppendsTo(o, a, x) == Append(o \o a, x) = o \o Append(a, x)

LEMMA AppendBehind ==
  ASSUME NEW X, NEW o \in Seq(X), NEW a \in Seq(X), NEW x \in X
  PROVE  AppendsTo(o, a, x)
<1>1. PICK c \in Seq(X) : c = o \o a
  BY ConcatHas
<1>2. /\ Len(o) \in Nat /\ Len(a) \in Nat /\ Len(c) = Len(o) + Len(a)
      /\ \A i \in 1 .. Len(o) : c[i] = o[i]
      /\ \A i \in 1 .. Len(a) : c[Len(o) + i] = a[i]
  BY <1>1, ConcatHas
<1>3. PICK b \in Seq(X) : b = Append(a, x)
  BY Appended
<1>4. /\ Len(b) = Len(a) + 1 /\ b[Len(a) + 1] = x
      /\ \A i \in 1 .. Len(a) : b[i] = a[i]
  BY <1>3, Appended
<1>5. PICK l \in Seq(X) : l = Append(c, x)
  BY Appended
<1>6. /\ Len(l) = Len(c) + 1 /\ l[Len(c) + 1] = x
      /\ \A i \in 1 .. Len(c) : l[i] = c[i]
  BY <1>5, Appended
<1>7. PICK r \in Seq(X) : r = o \o b
  BY ConcatHas
<1>8. /\ Len(r) = Len(o) + Len(b)
      /\ \A i \in 1 .. Len(o) : r[i] = o[i]
      /\ \A i \in 1 .. Len(b) : r[Len(o) + i] = b[i]
  BY <1>7, ConcatHas
<1>9. PICK n \in Nat : n = Len(o)
  BY <1>2
<1>10. PICK m \in Nat : m = Len(a)
  BY <1>2
<1>11. Len(c) = n + m /\ Len(b) = m + 1 /\ Len(l) = n + m + 1 /\ Len(r) = n + m + 1
  BY <1>2, <1>4, <1>6, <1>8, <1>9, <1>10
<1>12. ASSUME NEW i \in 1 .. n + m + 1 PROVE l[i] = r[i]
  <2>1. CASE i \in 1 .. n
    <3>1. i \in 1 .. Len(c)
      BY <1>11, <2>1
    <3>2. QED
      BY <1>2, <1>6, <1>8, <1>9, <2>1, <3>1
  <2>2. CASE i = n + m + 1
    <3>1. m + 1 \in 1 .. Len(b) /\ i = n + (m + 1) /\ i = Len(c) + 1
      BY <1>11, <2>2
    <3>2. r[n + (m + 1)] = b[m + 1]
      BY <1>8, <1>9, <3>1
    <3>3. b[m + 1] = x /\ l[i] = x
      BY <1>4, <1>6, <1>10, <3>1
    <3>4. QED
      BY <3>1, <3>2, <3>3
  <2>3. CASE i \in n + 1 .. n + m
    <3>1. PICK k \in 1 .. m : i = n + k
      <4>1. i - n \in 1 .. m /\ i = n + (i - n)
        BY <2>3
      <4>2. QED
        BY <4>1
    <3>2. i \in 1 .. Len(c) /\ k \in 1 .. Len(b)
      BY <1>11, <2>3, <3>1
    <3>3. l[i] = c[i] /\ c[n + k] = a[k] /\ r[n + k] = b[k] /\ b[k] = a[k]
      BY <1>2, <1>4, <1>6, <1>8, <1>9, <1>10, <3>1, <3>2
    <3>4. QED
      BY <3>1, <3>3
  <2>4. QED
    BY <2>1, <2>2, <2>3
<1>13. l = r
  BY <1>11, <1>12, SameLists
<1>14. QED
  BY <1>1, <1>3, <1>5, <1>7, <1>13 DEF AppendsTo

(* Copying the first character, the only one, and the last.                *)
LEMMA CopiesFirst ==
  ASSUME NEW X, NEW o \in Seq(X), NEW s \in Seq(X), Len(s) \in Nat \ {0}
  PROVE  Append(o, s[1]) = o \o SubSeq(s, 1, 1)
<1>1. PICK x \in X : x = s[1]
  OBVIOUS
<1>2. PICK p : p = SubSeq(s, 1, 1)
  OBVIOUS
<1>3. p \in Seq(X) /\ Len(p) = 1 /\ p[1] = x
  BY <1>1, <1>2
<1>4. p = <<x>>
  BY <1>3
<1>5. Append(o, x) = o \o <<x>>
  OBVIOUS
<1>6. QED
  BY <1>1, <1>2, <1>4, <1>5

LEMMA CopiesEnd ==
  ASSUME NEW X, NEW o, NEW s \in Seq(X)
  PROVE  o \o SubSeq(s, 1, Len(s)) = o \o s
<1>1. SubSeq(s, 1, Len(s)) = s
  OBVIOUS
<1>2. QED
  BY <1>1

LEMMA CopiesOne ==
  ASSUME NEW X, NEW o \in Seq(X), NEW s \in Seq(X), Len(s) = 1
  PROVE  Append(o, s[1]) = o \o s
<1>1. Append(o, s[1]) = o \o SubSeq(s, 1, 1)
  BY CopiesFirst
<1>2. o \o SubSeq(s, 1, 1) = o \o s
  BY CopiesEnd
<1>3. QED
  BY <1>1, <1>2

(* Copying the next character of what is copied in part.                   *)
CopiesAll(o, s) ==
  \A d \in 0 .. Len(s) - 1 : Append(o \o SubSeq(s, 1, d), s[d + 1]) = o \o SubSeq(s, 1, d + 1)

LEMMA CopiesNext ==
  ASSUME NEW X, NEW o \in Seq(X), NEW s \in Seq(X)
  PROVE  CopiesAll(o, s)
<1>1. ASSUME NEW d \in 0 .. Len(s) - 1
      PROVE Append(o \o SubSeq(s, 1, d), s[d + 1]) = o \o SubSeq(s, 1, d + 1)
  <2>1. PICK a : a = SubSeq(s, 1, d)
    OBVIOUS
  <2>2. PICK b : b = SubSeq(s, 1, d + 1)
    OBVIOUS
  <2>3. a \in Seq(X) /\ Len(a) = d /\ \A i \in 1 .. d : a[i] = s[i]
    BY <2>1
  <2>4. b \in Seq(X) /\ Len(b) = d + 1 /\ \A i \in 1 .. d + 1 : b[i] = s[i]
    BY <2>2
  <2>5. PICK c \in X : c = s[d + 1]
    OBVIOUS
  <2>6. PICK l : l = Append(a, c)
    OBVIOUS
  <2>7. l \in Seq(X) /\ Len(l) = d + 1 /\ l[d + 1] = c /\ \A i \in 1 .. d : l[i] = a[i]
    BY <2>3, <2>6, Appended
  <2>8. l = b
    <3>1. \A i \in 1 .. d + 1 : i \in 1 .. d \/ i = d + 1
      OBVIOUS
    <3>2. \A i \in 1 .. d + 1 : l[i] = b[i]
      BY <2>3, <2>4, <2>5, <2>7, <3>1
    <3>3. QED
      BY <2>4, <2>7, <3>2, SameLists
  <2>9. Append(o \o a, c) = o \o l
    <3>1. o \in Seq(X) /\ a \in Seq(X) /\ c \in X
      BY <2>3, <2>5
    <3>2. AppendsTo(o, a, c)
      BY <3>1, AppendBehind
    <3>3. QED
      BY <2>6, <3>2 DEF AppendsTo
  <2>10. QED
    BY <2>1, <2>2, <2>5, <2>8, <2>9
<1>2. QED
  BY <1>1 DEF CopiesAll

(* Before the n-th lexeme; behind the d-th character of a string; before   *)
(* the newline of a line comment; behind the end.                          *)
Begins(t, n, p, i, q, o) == i = EndOf(t, n - 1) + 1 /\ q = "none" /\ o = Wrote(t, n - 1, p)

Inside(t, n, d, p, i, q, o) ==
  /\ t[n] \in Strings /\ i = EndOf(t, n - 1) + (d + 1) /\ q = Spelling[t[n]][1]
  /\ o = Wrote(t, n - 1, p) \o SubSeq(Spelling[t[n]], 1, d)

BeforeNewline(t, n, p, i, q, o) ==
  /\ p = "comments" /\ t[n] = "line"
  /\ i = EndOf(t, n - 1) + 4 /\ q = "none" /\ o = Wrote(t, n - 1, p)

Over(t, p, i, o) == i \in Nat /\ Len(Spelled(t)) < i /\ o = Spelled(Left(t, p))

Place(t, p, i, q, o) ==
  \/ Over(t, p, i, o)
  \/ \E n \in 1 .. Len(t) :
       \/ Begins(t, n, p, i, q, o)
       \/ BeforeNewline(t, n, p, i, q, o)
       \/ \E d \in StopsIn(t[n]) : Inside(t, n, d, p, i, q, o)

(* Behind a lexeme the next one begins, or the end is reached.             *)
LEMMA LexemePassed ==
  ASSUME NEW t \in Seq(Lexeme), NEW p \in Pass, NEW n \in 0 .. Len(t),
         NEW i, i = EndOf(t, n) + 1, NEW q, q = "none", NEW o, o = Wrote(t, n, p)
  PROVE  Place(t, p, i, q, o)
<1>1. Len(t) \in Nat
  OBVIOUS
<1>2. CASE n = Len(t)
  <2>1. EndOf(t, n) = Len(Spelled(t)) /\ EndOf(t, n) \in Nat
    BY <1>2, EndsAt
  <2>2. Over(t, p, i, o)
    BY <1>2, <2>1, WroteIs DEF Over
  <2>3. QED
    BY <2>2 DEF Place
<1>3. CASE n # Len(t)
  <2>1. PICK k \in 1 .. Len(t) : k - 1 = n
    BY <1>1, <1>3
  <2>2. Begins(t, k, p, i, q, o)
    BY <2>1 DEF Begins
  <2>3. QED
    BY <2>2 DEF Place
<1>4. QED
  BY <1>2, <1>3

(* A lexeme that is left is written as it is.                              *)
LEMMA LeftAsItIs ==
  ASSUME NEW t \in Seq(Lexeme), NEW p \in Pass, NEW n \in 1 .. Len(t), t[n] \notin Comments,
         p = "commas" => ~Trails(t, n)
  PROVE  Wrote(t, n, p) = Wrote(t, n - 1, p) \o Spelling[t[n]]
<1>1. LeftOf(t, n, p) = <<t[n]>>
  <2>1. CASE p = "comments"
    BY <2>1 DEF LeftOf, CommentLeaves, Comments
  <2>2. CASE p # "comments"
    BY <2>2 DEF LeftOf, Pass
  <2>3. QED
    BY <2>1, <2>2
<1>2. Wrote(t, n, p) = Wrote(t, n - 1, p) \o Spelled(<<t[n]>>)
  BY <1>1, WroteIs
<1>3. t[n] \in Lexeme
  OBVIOUS
<1>4. QED
  BY <1>2, <1>3, SpelledShort

(* Strings are always left as they are.                                    *)
LEMMA StringsDoNotTrail ==
  ASSUME NEW t \in Seq(Lexeme), NEW p \in Pass, NEW n \in 1 .. Len(t), t[n] \in Strings
  PROVE  Wrote(t, n, p) = Wrote(t, n - 1, p) \o Spelling[t[n]]
<1>1. t[n] \notin Comments /\ ~Trails(t, n)
  BY DEF Strings, Comments, Trails
<1>2. QED
  BY <1>1, LeftAsItIs

(* Nothing is written of what is left out.                                 *)
LEMMA LeftOut ==
  ASSUME NEW t \in Seq(Lexeme), NEW p \in Pass, NEW n \in 1 .. Len(t),
         IF p = "comments" THEN t[n] \in Comments \ {"line"} ELSE Trails(t, n)
  PROVE  Wrote(t, n, p) = Wrote(t, n - 1, p)
<1>1. LeftOf(t, n, p) = << >>
  BY DEF LeftOf, CommentLeaves, Comments
<1>2. PICK o \in Seq(Char) : o = Wrote(t, n - 1, p)
  <2>1. n - 1 \in 0 .. Len(t)
    OBVIOUS
  <2>2. QED
    BY <2>1, WroteIs
<1>3. o \o << >> = o
  OBVIOUS
<1>4. QED
  BY <1>1, <1>2, <1>3, WroteIs, SpelledShort

----------------------------------------------------------------------------
(* One step of a pass.                                                     *)

(* A quote begins a string.                                                *)
LEMMA OpensString ==
  ASSUME NEW t, NEW p \in Pass, Fits(t, p), text = Spelled(t), pass = p,
         NEW n \in 1 .. Len(t), Begins(t, n, p, pos, quote, out), OpenString
  PROVE  Place(t, p, pos', quote', out')
<1>1. t \in Seq(Lexeme) /\ pos = EndOf(t, n - 1) + 1 /\ out = Wrote(t, n - 1, p)
  BY DEF Fits, Begins
<1>2. PICK s : s = Spelling[t[n]]
  OBVIOUS
<1>3. /\ pos \in Nat /\ text[pos] = s[1] /\ s \in Seq(Char) /\ Len(s) \in Nat \ {0}
  <2>1. LexemeHere(t, n, s)
    BY <1>1, <1>2, WhatFollows
  <2>2. QED
    BY <2>1 DEF LexemeHere
<1>4. quote' = s[1] /\ s[1] \in Quote /\ out' = Append(out, s[1]) /\ pos' = pos + 1
  BY <1>3 DEF OpenString
<1>5. t[n] \in Strings
  <2>1. t[n] \in Lexeme
    BY <1>1
  <2>2. t[n] \notin Plain
    BY <1>2, <1>4, PlainIs
  <2>3. t[n] \notin Comments
    BY <1>2, <1>4, CommentIs DEF Quote
  <2>4. QED
    BY <2>1, <2>2, <2>3, Spellings
<1>6. 1 \in StopsIn(t[n])
  BY <1>5, StringIs
<1>7. PICK o \in Seq(Char) : o = out
  <2>1. n - 1 \in 0 .. Len(t)
    BY <1>1
  <2>2. QED
    BY <1>1, <2>1, WroteIs
<1>8. out' = out \o SubSeq(s, 1, 1)
  <2>1. Append(o, s[1]) = o \o SubSeq(s, 1, 1)
    BY <1>3, CopiesFirst
  <2>2. QED
    BY <1>4, <1>7, <2>1
<1>9. pos' = EndOf(t, n - 1) + (1 + 1)
  <2>1. PICK f : f = EndOf(t, n - 1)
    OBVIOUS
  <2>2. f \in Nat
    BY <1>1, <1>2, <2>1, LexemeAt
  <2>3. QED
    BY <1>1, <1>4, <2>1, <2>2
<1>10. Inside(t, n, 1, p, pos', quote', out')
  BY <1>1, <1>2, <1>4, <1>5, <1>8, <1>9 DEF Inside
<1>11. QED
  BY <1>6, <1>10 DEF Place

(* A line comment is skipped up to its newline, or to the end.             *)
LEMMA SkipsLine ==
  ASSUME NEW t, NEW p \in Pass, Fits(t, p), text = Spelled(t), pass = p,
         NEW n \in 1 .. Len(t), Begins(t, n, p, pos, quote, out), SkipLine
  PROVE  Place(t, p, pos', quote', out')
<1>1. /\ t \in Seq(Lexeme) /\ pos = EndOf(t, n - 1) + 1 /\ out = Wrote(t, n - 1, p)
      /\ t[n] \in OnlyLast => n = Len(t)
  BY DEF Fits, Begins
<1>2. PICK s : s = Spelling[t[n]]
  OBVIOUS
<1>3. /\ pos \in Nat /\ Len(text) \in Nat /\ text[pos] = s[1] /\ s \in Seq(Char)
      /\ EndOf(t, n) = pos + (Len(s) - 1) /\ (n = Len(t) => EndOf(t, n) = Len(text))
      /\ \A i \in 1 .. Len(s) - 1 : pos + i <= Len(text) /\ text[pos + i] = s[i + 1]
  <2>1. LexemeHere(t, n, s)
    BY <1>1, <1>2, WhatFollows
  <2>2. QED
    BY <2>1 DEF LexemeHere, ReadsOn
<1> DEFINE S == {j \in DOMAIN text : text[j] = "newline"}
<1>4. /\ quote = "none" /\ p = "comments" /\ s[1] = "slash" /\ text[pos + 1] = "slash"
      /\ pos' = FirstFrom(pos + 2, S) /\ quote' = quote /\ out' = out
  BY <1>3 DEF SkipLine, AtLine, Follows
<1>5. t[n] \in Comments
  <2>1. t[n] \in Lexeme
    BY <1>1
  <2>2. t[n] \notin Plain
    BY <1>2, <1>4, PlainIs
  <2>3. t[n] \notin Strings
    BY <1>2, <1>4, StringIs
  <2>4. QED
    BY <2>1, <2>2, <2>3, Spellings
<1>6. Len(s) \in {4, 5} /\ t[n] \in {"line", "lastline"}
  <2>1. Len(s) \in {4, 5} /\ s[2] = IF t[n] \in {"line", "lastline"} THEN "slash" ELSE "star"
    BY <1>2, <1>5, CommentIs
  <2>2. text[pos + 1] = s[2]
    BY <1>3, <2>1
  <2>3. QED
    BY <1>4, <2>1, <2>2
<1>7. S \subseteq Nat /\ pos + 2 \in Nat /\ DOMAIN text = 1 .. Len(text)
  <2>1. text \in Seq(Char)
    BY <1>1, SpellsIs, FlattenHas
  <2>2. QED
    BY <1>3, <2>1
<1>8. CASE t[n] = "line"
  <2>1. Len(s) = 4 /\ s[3] # "newline" /\ s[4] = "newline"
    BY <1>2, <1>5, <1>8, CommentIs
  <2>2. text[pos + 2] # "newline" /\ pos + 3 <= Len(text) /\ text[pos + 3] = "newline"
    <3>1. 2 \in 1 .. Len(s) - 1 /\ 3 \in 1 .. Len(s) - 1
      BY <2>1
    <3>2. QED
      BY <1>3, <2>1, <3>1
  <2>3. pos + 3 \in S /\ pos + 2 <= pos + 3
    BY <1>3, <1>7, <2>2
  <2>4. ASSUME NEW h \in S, pos + 2 <= h PROVE pos + 3 <= h
    <3>1. h # pos + 2 /\ h \in Nat
      BY <1>7, <2>2
    <3>2. QED
      BY <1>3, <2>4, <3>1
  <2>5. pos' = pos + 3
    <3> HIDE DEF S
    <3>1. QED
      BY <1>4, <1>7, <2>3, <2>4, FirstIs
  <2>6. pos' = EndOf(t, n - 1) + 4
    <3>1. PICK f : f = EndOf(t, n - 1)
      OBVIOUS
    <3>2. f \in Nat
      BY <1>1, <1>2, <3>1, LexemeAt
    <3>3. QED
      BY <1>1, <2>5, <3>1, <3>2
  <2>7. BeforeNewline(t, n, p, pos', quote', out')
    BY <1>1, <1>4, <1>8, <2>6 DEF BeforeNewline
  <2>8. QED
    BY <2>7 DEF Place
<1>9. CASE t[n] = "lastline"
  <2>1. Len(s) = 4 /\ s[3] # "newline" /\ s[4] # "newline"
    BY <1>2, <1>5, <1>9, CommentIs
  <2>2. n = Len(t) /\ Len(text) = pos + 3
    BY <1>1, <1>3, <1>9, <2>1 DEF OnlyLast
  <2>3. text[pos + 2] # "newline" /\ text[pos + 3] # "newline"
    <3>1. 2 \in 1 .. Len(s) - 1 /\ 3 \in 1 .. Len(s) - 1
      BY <2>1
    <3>2. QED
      BY <1>3, <2>1, <3>1
  <2>4. ASSUME NEW h \in S PROVE ~(pos + 2 <= h)
    <3>1. h # pos + 2 /\ h # pos + 3 /\ h \in Nat /\ h <= pos + 3
      BY <1>7, <2>2, <2>3
    <3>2. QED
      BY <1>3, <3>1
  <2>5. pos' = Len(text) + 1
    <3> HIDE DEF S
    <3>1. QED
      BY <1>4, <1>7, <2>4, FirstIs
  <2>6. out' = Spelled(Left(t, p))
    <3>1. Wrote(t, n, p) = Wrote(t, n - 1, p)
      BY <1>1, <1>4, <1>5, <1>9, LeftOut
    <3>2. out' = Wrote(t, n - 1, p)
      BY <1>1, <1>4
    <3>3. Wrote(t, Len(t), p) = Spelled(Left(t, p))
      BY <1>1, WroteIs
    <3>4. QED
      BY <2>2, <3>1, <3>2, <3>3
  <2>7. Over(t, p, pos', out')
    BY <1>3, <2>5, <2>6 DEF Over
  <2>8. QED
    BY <2>7 DEF Place
<1>10. QED
  BY <1>6, <1>8, <1>9

(* A block comment is skipped with its end, or to the end of the text.     *)
LEMMA SkipsBlock ==
  ASSUME NEW t, NEW p \in Pass, Fits(t, p), text = Spelled(t), pass = p,
         NEW n \in 1 .. Len(t), Begins(t, n, p, pos, quote, out), SkipBlock
  PROVE  Place(t, p, pos', quote', out')
<1>1. /\ t \in Seq(Lexeme) /\ pos = EndOf(t, n - 1) + 1 /\ out = Wrote(t, n - 1, p)
      /\ t[n] \in OnlyLast => n = Len(t)
  BY DEF Fits, Begins
<1>2. PICK s : s = Spelling[t[n]]
  OBVIOUS
<1>3. /\ pos \in Nat /\ Len(text) \in Nat /\ text[pos] = s[1] /\ s \in Seq(Char)
      /\ EndOf(t, n) = pos + (Len(s) - 1) /\ (n = Len(t) => EndOf(t, n) = Len(text))
      /\ \A i \in 1 .. Len(s) - 1 : pos + i <= Len(text) /\ text[pos + i] = s[i + 1]
  <2>1. LexemeHere(t, n, s)
    BY <1>1, <1>2, WhatFollows
  <2>2. QED
    BY <2>1 DEF LexemeHere, ReadsOn
<1> DEFINE S == {j \in 1 .. Len(text) - 1 : text[j] = "star" /\ text[j + 1] = "slash"}
<1>4. /\ quote = "none" /\ p = "comments" /\ s[1] = "slash" /\ text[pos + 1] = "star"
      /\ pos' = 2 + FirstFrom(pos + 2, S) /\ quote' = quote /\ out' = out
  BY <1>3 DEF SkipBlock, AtBlock, Follows
<1>5. t[n] \in Comments
  <2>1. t[n] \in Lexeme
    BY <1>1
  <2>2. t[n] \notin Plain
    BY <1>2, <1>4, PlainIs
  <2>3. t[n] \notin Strings
    BY <1>2, <1>4, StringIs
  <2>4. QED
    BY <2>1, <2>2, <2>3, Spellings
<1>6. Len(s) \in {4, 5} /\ t[n] \in {"block", "quoted", "openend"}
  <2>1. Len(s) \in {4, 5} /\ s[2] = IF t[n] \in {"line", "lastline"} THEN "slash" ELSE "star"
    BY <1>2, <1>5, CommentIs
  <2>2. text[pos + 1] = s[2]
    BY <1>3, <2>1
  <2>3. QED
    BY <1>4, <1>5, <2>1, <2>2 DEF Comments
<1>7. S \subseteq Nat /\ pos + 2 \in Nat
  BY <1>3
<1>8. Wrote(t, n, p) = Wrote(t, n - 1, p)
  <2>1. t[n] \in Comments \ {"line"}
    BY <1>5, <1>6
  <2>2. QED
    BY <1>1, <1>4, <2>1, LeftOut
<1>9. CASE t[n] \in {"block", "quoted"}
  <2>1. Len(s) = 5 /\ s[3] # "star" /\ s[4] = "star" /\ s[5] = "slash"
    BY <1>2, <1>5, <1>9, CommentIs
  <2>2. /\ text[pos + 2] # "star" /\ text[pos + 3] = "star"
        /\ pos + 4 <= Len(text) /\ text[pos + 4] = "slash"
    <3>1. 2 \in 1 .. Len(s) - 1 /\ 3 \in 1 .. Len(s) - 1 /\ 4 \in 1 .. Len(s) - 1
      BY <2>1
    <3>2. QED
      BY <1>3, <2>1, <3>1
  <2>3. pos + 3 \in S /\ pos + 2 <= pos + 3
    <3>1. pos + 3 \in 1 .. Len(text) - 1 /\ pos + 3 + 1 = pos + 4
      BY <1>3, <2>2
    <3>2. QED
      BY <1>3, <2>2, <3>1
  <2>4. ASSUME NEW h \in S, pos + 2 <= h PROVE pos + 3 <= h
    <3>1. h # pos + 2 /\ h \in Nat
      BY <1>7, <2>2
    <3>2. QED
      BY <1>3, <2>4, <3>1
  <2>5. FirstFrom(pos + 2, S) = pos + 3
    <3> HIDE DEF S
    <3>1. QED
      BY <1>7, <2>3, <2>4, FirstIs
  <2>6. pos' = EndOf(t, n) + 1
    BY <1>3, <1>4, <2>1, <2>5
  <2>7. n \in 0 .. Len(t)
    BY <1>1
  <2>8. QED
    BY <1>1, <1>4, <1>8, <2>6, <2>7, LexemePassed
<1>10. CASE t[n] = "openend"
  <2>1. Len(s) = 4 /\ s[3] # "star"
    BY <1>2, <1>5, <1>10, CommentIs
  <2>2. n = Len(t) /\ Len(text) = pos + 3
    BY <1>1, <1>3, <1>10, <2>1 DEF OnlyLast
  <2>3. text[pos + 2] # "star"
    <3>1. 2 \in 1 .. Len(s) - 1
      BY <2>1
    <3>2. QED
      BY <1>3, <2>1, <3>1
  <2>4. ASSUME NEW h \in S PROVE ~(pos + 2 <= h)
    <3>1. h # pos + 2 /\ h \in Nat /\ h <= pos + 2
      BY <1>3, <1>7, <2>2, <2>3
    <3>2. QED
      BY <1>3, <3>1
  <2>5. FirstFrom(pos + 2, S) = Len(text) + 1
    <3> HIDE DEF S
    <3>1. QED
      BY <1>7, <2>4, FirstIs
  <2>6. out' = Spelled(Left(t, p))
    BY <1>1, <1>4, <1>8, <2>2, WroteIs
  <2>7. Over(t, p, pos', out')
    BY <1>3, <1>4, <2>5, <2>6 DEF Over
  <2>8. QED
    BY <2>7 DEF Place
<1>11. QED
  BY <1>6, <1>9, <1>10

(* A comma is dropped exactly where it trails.                             *)
LEMMA DropsComma ==
  ASSUME NEW t, NEW p \in Pass, Fits(t, p), text = Spelled(t), pass = p,
         NEW n \in 1 .. Len(t), Begins(t, n, p, pos, quote, out), DropComma
  PROVE  Place(t, p, pos', quote', out')
<1>1. /\ t \in Seq(Lexeme) /\ pos = EndOf(t, n - 1) + 1 /\ out = Wrote(t, n - 1, p)
      /\ quote = "none" /\ (p = "commas" => t[n] \notin Comments)
  BY DEF Fits, Begins
<1>2. PICK s : s = Spelling[t[n]]
  OBVIOUS
<1>3. /\ pos \in Nat /\ text[pos] = s[1] /\ EndOf(t, n) = pos + (Len(s) - 1)
  <2>1. LexemeHere(t, n, s)
    BY <1>1, <1>2, WhatFollows
  <2>2. QED
    BY <2>1 DEF LexemeHere
<1>4. /\ p = "commas" /\ s[1] = "comma" /\ AtTrailingComma
      /\ pos' = pos + 1 /\ quote' = quote /\ out' = out
  BY <1>3 DEF DropComma, AtTrailingComma
<1>5. t[n] = "comma"
  <2>1. t[n] \in Lexeme /\ t[n] \notin Comments
    BY <1>1, <1>4
  <2>2. t[n] \notin Strings
    BY <1>2, <1>4, StringIs
  <2>3. t[n] \in Plain
    BY <2>1, <2>2, Spellings
  <2>4. QED
    BY <1>2, <1>4, <2>3, PlainIs
<1>6. Trails(t, n)
  BY <1>1, <1>4, <1>5, CommaTrails
<1>7. Wrote(t, n, p) = Wrote(t, n - 1, p)
  <2>1. p # "comments"
    BY <1>4
  <2>2. QED
    BY <1>1, <1>6, <2>1, LeftOut
<1>8. pos' = EndOf(t, n) + 1
  <2>1. Len(s) = 1
    BY <1>2, <1>5, Spellings DEF OfOne
  <2>2. QED
    BY <1>3, <1>4, <2>1
<1>9. n \in 0 .. Len(t)
  BY <1>1
<1>10. QED
  BY <1>1, <1>4, <1>7, <1>8, <1>9, LexemePassed

(* What is copied outside of a string is a lexeme of one character.        *)
LEMMA Copies ==
  ASSUME NEW t, NEW p \in Pass, Fits(t, p), text = Spelled(t), pass = p,
         NEW n \in 1 .. Len(t), Begins(t, n, p, pos, quote, out), Copy
  PROVE  Place(t, p, pos', quote', out')
<1>1. /\ t \in Seq(Lexeme) /\ pos = EndOf(t, n - 1) + 1 /\ out = Wrote(t, n - 1, p)
      /\ quote = "none" /\ (p = "commas" => t[n] \notin Comments)
  BY DEF Fits, Begins
<1>2. PICK s : s = Spelling[t[n]]
  OBVIOUS
<1>3. /\ pos \in Nat /\ text[pos] = s[1] /\ s \in Seq(Char) /\ Len(s) \in Nat \ {0}
      /\ Len(text) \in Nat /\ EndOf(t, n) = pos + (Len(s) - 1)
      /\ \A i \in 1 .. Len(s) - 1 : pos + i <= Len(text) /\ text[pos + i] = s[i + 1]
  <2>1. LexemeHere(t, n, s)
    BY <1>1, <1>2, WhatFollows
  <2>2. QED
    BY <2>1 DEF LexemeHere, ReadsOn
<1>4. /\ s[1] \notin Quote /\ ~AtLine /\ ~AtBlock /\ ~AtTrailingComma
      /\ out' = Append(out, s[1]) /\ pos' = pos + 1 /\ quote' = quote
  BY <1>3 DEF Copy
<1>5. t[n] \notin Comments
  <2>1. ASSUME t[n] \in Comments, p = "comments" PROVE FALSE
    <3>1. Len(s) \in {4, 5} /\ s[1] = "slash" /\ s[2] \in {"slash", "star"}
      BY <1>2, <2>1, CommentIs
    <3>2. 1 \in 1 .. Len(s) - 1 /\ 1 + 1 = 2
      BY <3>1
    <3>3. pos < Len(text) /\ text[pos + 1] = s[2]
      BY <1>3, <3>2
    <3>4. QED
      BY <1>3, <1>4, <2>1, <3>1, <3>3 DEF AtLine, AtBlock, Follows
  <2>2. QED
    BY <1>1, <2>1 DEF Pass
<1>6. t[n] \in Plain
  <2>1. t[n] \in Lexeme
    BY <1>1
  <2>2. t[n] \notin Strings
    BY <1>2, <1>4, StringIs
  <2>3. QED
    BY <1>5, <2>1, <2>2, Spellings
<1>7. p = "commas" => ~Trails(t, n)
  <2>1. CASE t[n] = "comma"
    BY <1>1, <1>4, <2>1, CommaTrails
  <2>2. CASE t[n] # "comma"
    BY <2>2 DEF Trails
  <2>3. QED
    BY <2>1, <2>2
<1>8. Wrote(t, n, p) = Wrote(t, n - 1, p) \o s
  BY <1>1, <1>2, <1>5, <1>7, LeftAsItIs
<1>9. Len(s) = 1
  BY <1>2, <1>6, PlainIs DEF OfOne
<1>10. PICK o \in Seq(Char) : o = out
  <2>1. n - 1 \in 0 .. Len(t)
    BY <1>1
  <2>2. QED
    BY <1>1, <2>1, WroteIs
<1>11. out' = Wrote(t, n, p)
  <2>1. Append(o, s[1]) = o \o s
    BY <1>3, <1>9, CopiesOne
  <2>2. Wrote(t, n, p) = o \o s
    BY <1>1, <1>8, <1>10
  <2>3. QED
    BY <1>4, <1>10, <2>1, <2>2
<1>12. pos' = EndOf(t, n) + 1
  BY <1>3, <1>4, <1>9
<1>13. n \in 0 .. Len(t)
  BY <1>1
<1>14. QED
  BY <1>1, <1>4, <1>11, <1>12, <1>13, LexemePassed

(* The newline of a line comment is copied.                                *)
LEMMA CopiesNewline ==
  ASSUME NEW t, NEW p \in Pass, Fits(t, p), text = Spelled(t), pass = p,
         NEW n \in 1 .. Len(t), BeforeNewline(t, n, p, pos, quote, out), StripNext
  PROVE  Place(t, p, pos', quote', out')
<1>1. /\ t \in Seq(Lexeme) /\ pos = EndOf(t, n - 1) + 4 /\ out = Wrote(t, n - 1, p)
      /\ quote = "none" /\ p = "comments" /\ t[n] = "line"
  BY DEF Fits, BeforeNewline
<1>2. PICK s : s = Spelling[t[n]]
  OBVIOUS
<1>3. Len(s) = 4 /\ s[4] = "newline"
  BY <1>1, <1>2, CommentIs DEF Comments
<1>4. /\ text[pos] = "newline" /\ pos \in 1 .. Len(text) /\ EndOf(t, n) = pos
  <2>1. t \in Seq(Lexeme)
    BY <1>1
  <2>2. PICK f : f = EndOf(t, n - 1)
    OBVIOUS
  <2>3. /\ f \in Nat /\ EndOf(t, n) = f + Len(s)
        /\ \A i \in 1 .. Len(s) : f + i \in 1 .. Len(text) /\ text[f + i] = s[i]
    <3>1. /\ f \in Nat /\ EndOf(t, n) = f + Len(s) /\ StandsAt(s, f, text)
      BY <1>2, <2>1, <2>2, LexemeAt
    <3>2. QED
      BY <3>1 DEF StandsAt
  <2>4. 4 \in 1 .. Len(s)
    BY <1>3
  <2>5. f + 4 \in 1 .. Len(text) /\ text[f + 4] = s[4]
    BY <2>3, <2>4
  <2>6. pos = f + 4
    BY <1>1, <2>2
  <2>7. QED
    BY <1>3, <2>3, <2>5, <2>6
<1>5. Copy
  <2>1. ~InString /\ ~OpenString
    BY <1>1, <1>4 DEF InString, OpenString, Quote
  <2>2. ~SkipLine /\ ~SkipBlock /\ ~DropComma
    BY <1>1, <1>4 DEF SkipLine, AtLine, SkipBlock, AtBlock, DropComma, AtTrailingComma
  <2>3. ~NextPass
    <3>1. ~(pos > Len(text))
      BY <1>4
    <3>2. QED
      BY <3>1 DEF NextPass
  <2>4. QED
    BY <2>1, <2>2, <2>3 DEF StripNext
<1>6. out' = Append(out, "newline") /\ pos' = pos + 1 /\ quote' = quote
  BY <1>4, <1>5 DEF Copy
<1>7. PICK o \in Seq(Char) : o = out
  <2>1. n - 1 \in 0 .. Len(t)
    BY <1>1
  <2>2. QED
    BY <1>1, <2>1, WroteIs
<1>8. Wrote(t, n, p) = o \o Spelling["newline"]
  <2>1. LeftOf(t, n, p) = <<"newline">>
    BY <1>1 DEF LeftOf, CommentLeaves
  <2>2. "newline" \in Lexeme
    BY Spellings DEF Plain
  <2>3. Wrote(t, n, p) = o \o Spelled(<<"newline">>)
    BY <1>1, <1>7, <2>1, WroteIs
  <2>4. QED
    BY <2>2, <2>3, SpelledShort
<1>9. out' = Wrote(t, n, p)
  <2>1. PICK w : w = Spelling["newline"]
    OBVIOUS
  <2>2. w \in Seq(Char) /\ Len(w) = 1 /\ w[1] = "newline"
    BY <2>1, Spellings DEF OfOne
  <2>3. Append(o, w[1]) = o \o w
    BY <2>2, CopiesOne
  <2>4. QED
    BY <1>6, <1>7, <1>8, <2>1, <2>2, <2>3
<1>10. n \in 0 .. Len(t)
  BY <1>1
<1>11. QED
  BY <1>1, <1>4, <1>6, <1>9, <1>10, LexemePassed

(* Inside of a string: to the next place where the scanner stops, over the *)
(* quote at its end, or over the end of the text.                          *)
LEMMA StaysInString ==
  ASSUME NEW t, NEW p \in Pass, Fits(t, p), text = Spelled(t), pass = p,
         NEW n \in 1 .. Len(t), NEW d \in StopsIn(t[n]), Inside(t, n, d, p, pos, quote, out),
         StripNext
  PROVE  Place(t, p, pos', quote', out')
<1>1. PICK s : s = Spelling[t[n]]
  OBVIOUS
<1>2. PICK f : f = EndOf(t, n - 1)
  OBVIOUS
<1>3. /\ t \in Seq(Lexeme) /\ t[n] \in Strings /\ pos = f + (d + 1) /\ quote = s[1]
      /\ out = Wrote(t, n - 1, p) \o SubSeq(s, 1, d)
      /\ t[n] \in OnlyLast => n = Len(t)
  BY <1>1, <1>2 DEF Fits, Inside
<1>4. /\ s \in Seq(Char) /\ s[1] # "none" /\ GoesOn(t[n], s, d)
  BY <1>1, <1>3, StringIs
<1>5. /\ d \in Nat /\ 1 <= d /\ d < Len(s) /\ Len(s) \in Nat
      /\ s[d + 1] = "backslash"
           => IF d + 1 < Len(s) THEN d + 2 \in StopsIn(t[n]) ELSE t[n] = "unclosed"
      /\ s[d + 1] # "backslash"
           => IF s[d + 1] = s[1] THEN d + 1 = Len(s) ELSE d + 1 \in StopsIn(t[n])
  BY <1>4 DEF GoesOn
<1>6. /\ f \in Nat /\ EndOf(t, n) = f + Len(s) /\ Len(text) \in Nat
      /\ \A i \in 1 .. Len(s) : f + i \in 1 .. Len(text) /\ text[f + i] = s[i]
      /\ n = Len(t) => f + Len(s) = Len(text)
  <2>1. /\ f \in Nat /\ EndOf(t, n) = f + Len(s)
        /\ \A i \in 1 .. Len(s) : f + i \in 1 .. Len(text) /\ text[f + i] = s[i]
    <3>1. t \in Seq(Lexeme)
      BY <1>3
    <3>2. f \in Nat /\ EndOf(t, n) = f + Len(s) /\ StandsAt(s, f, text)
      BY <1>1, <1>2, <3>1, LexemeAt
    <3>3. QED
      BY <3>2 DEF StandsAt
  <2>2. Len(text) \in Nat /\ EndOf(t, Len(t)) = Len(text)
    <3>1. Len(t) \in 0 .. Len(t)
      BY <1>3
    <3>2. QED
      BY <1>3, <3>1, EndsAt
  <2>3. QED
    BY <2>1, <2>2
<1>7. d + 1 \in 1 .. Len(s) /\ pos \in 1 .. Len(text) /\ text[pos] = s[d + 1]
  BY <1>3, <1>5, <1>6
<1>8. InString
  <2>1. ~(pos > Len(text))
    BY <1>6, <1>7
  <2>2. QED
    BY <1>3, <1>4, <2>1
       DEF StripNext, OpenString, SkipLine, SkipBlock, DropComma, Copy, NextPass
<1>9. PICK o \in Seq(Char) : o = Wrote(t, n - 1, p)
  <2>1. n - 1 \in 0 .. Len(t)
    BY <1>3
  <2>2. QED
    BY <1>3, <2>1, WroteIs
<1>10. \A c \in 0 .. Len(s) - 1 :
         Append(o \o SubSeq(s, 1, c), s[c + 1]) = o \o SubSeq(s, 1, c + 1)
  <2>1. CopiesAll(o, s)
    <3>1. s \in Seq(Char) /\ o \in Seq(Char)
      BY <1>4, <1>9
    <3>2. QED
      BY <3>1, CopiesNext
  <2>2. QED
    BY <2>1 DEF CopiesAll
<1>11. Wrote(t, n, p) = o \o s
  BY <1>1, <1>3, <1>9, StringsDoNotTrail
<1>12. Append(out, s[d + 1]) = o \o SubSeq(s, 1, d + 1)
  <2>1. d \in 0 .. Len(s) - 1
    BY <1>5
  <2>3. Append(o \o SubSeq(s, 1, d), s[d + 1]) = o \o SubSeq(s, 1, d + 1)
    BY <1>10, <2>1, Zenon
  <2>4. out = o \o SubSeq(s, 1, d)
    BY <1>3, <1>9
  <2>5. QED
    BY <2>3, <2>4
<1>13. n \in 0 .. Len(t)
  BY <1>3
<1>14. CASE s[d + 1] = "backslash" /\ pos < Len(text)
  <2>1. d + 1 < Len(s)
    <3>1. ASSUME ~(d + 1 < Len(s)) PROVE FALSE
      <4>1. n = Len(t)
        BY <1>3, <1>5, <1>14, <3>1 DEF OnlyLast
      <4>2. QED
        BY <1>3, <1>5, <1>6, <1>14, <3>1, <4>1
    <3>2. QED
      BY <3>1
  <2>2. d + 2 \in StopsIn(t[n])
    BY <1>5, <1>14, <2>1
  <2>3. /\ out' = out \o <<text[pos], text[pos + 1]>> /\ pos' = pos + 2 /\ quote' = quote
    BY <1>7, <1>8, <1>14 DEF InString
  <2>4. text[pos + 1] = s[d + 2]
    <3>1. d + 2 \in 1 .. Len(s) /\ pos + 1 = f + (d + 2)
      BY <1>3, <1>5, <1>6, <2>1
    <3>2. QED
      BY <1>6, <3>1
  <2>5. out' = o \o SubSeq(s, 1, d + 2)
    <3>1. d + 1 \in 0 .. Len(s) - 1 /\ d + 1 + 1 = d + 2
      BY <1>5, <2>1
    <3>2. Append(o \o SubSeq(s, 1, d + 1), s[d + 2]) = o \o SubSeq(s, 1, d + 2)
      <4>1. PICK e \in 0 .. Len(s) - 1 : e = d + 1
        BY <3>1
      <4>2. e + 1 = d + 2 /\ s \in Seq(Char)
        BY <1>4, <3>1, <4>1
      <4>3. Append(o \o SubSeq(s, 1, e), s[e + 1]) = o \o SubSeq(s, 1, e + 1)
        BY <1>10, Zenon
      <4>4. QED
        BY <4>1, <4>2, <4>3
    <3>3. PICK u \in Seq(Char) : u = out
      <4>1. SubSeq(s, 1, d) \in Seq(Char)
        BY <1>4, <1>5
      <4>2. QED
        BY <1>3, <1>9, <4>1, ConcatHas
    <3>4. \A x, y \in Char : u \o <<x, y>> = Append(Append(u, x), y)
      OBVIOUS
    <3>5. s[d + 1] \in Char /\ s[d + 2] \in Char
      BY <1>4, <1>5, <2>1
    <3>6. out' = u \o <<s[d + 1], s[d + 2]>>
      BY <1>7, <2>3, <2>4, <3>3
    <3>7. QED
      BY <1>12, <3>2, <3>3, <3>4, <3>5, <3>6
  <2>6. pos' = f + (d + 2 + 1)
    BY <1>3, <1>5, <1>6, <2>3
  <2>7. Inside(t, n, d + 2, p, pos', quote', out')
    BY <1>1, <1>2, <1>3, <1>9, <2>3, <2>5, <2>6 DEF Inside
  <2>8. QED
    BY <2>2, <2>7 DEF Place
<1>15. CASE ~(s[d + 1] = "backslash" /\ pos < Len(text))
  <2>1. /\ out' = o \o SubSeq(s, 1, d + 1) /\ pos' = f + (d + 1 + 1)
        /\ quote' = IF s[d + 1] = s[1] THEN "none" ELSE quote
    <3>1. /\ out' = Append(out, text[pos]) /\ pos' = pos + 1
          /\ quote' = IF text[pos] = quote THEN "none" ELSE quote
      BY <1>7, <1>8, <1>15 DEF InString
    <3>2. pos' = f + (d + 1 + 1)
      <4>1. pos = f + (d + 1)
        BY <1>3
      <4>2. QED
        BY <1>5, <1>6, <3>1, <4>1
    <3>3. text[pos] = s[d + 1] /\ quote = s[1]
      BY <1>3, <1>7
    <3>4. QED
      BY <1>12, <3>1, <3>2, <3>3
  <2>2. d + 1 = Len(s) => out' = Wrote(t, n, p) /\ pos' = EndOf(t, n) + 1
    <3>1. o \o SubSeq(s, 1, Len(s)) = o \o s
      BY <1>4, CopiesEnd
    <3>2. ASSUME d + 1 = Len(s) PROVE out' = Wrote(t, n, p) /\ pos' = EndOf(t, n) + 1
      <4>1. out' = Wrote(t, n, p)
        BY <1>11, <2>1, <3>1, <3>2
      <4>2. pos' = EndOf(t, n) + 1
        <5>1. EndOf(t, n) = f + Len(s) /\ pos' = f + (Len(s) + 1) /\ f \in Nat /\ Len(s) \in Nat
          BY <1>5, <1>6, <2>1, <3>2
        <5>2. QED
          BY <5>1
      <4>3. QED
        BY <4>1, <4>2
    <3>3. QED
      BY <3>2
  <2>3. CASE s[d + 1] = "backslash"
    <3>1. d + 1 = Len(s)
      <4>1. ~(pos < Len(text))
        BY <1>15, <2>3
      <4>2. f + Len(s) <= Len(text)
        <5>1. Len(s) \in 1 .. Len(s)
          BY <1>5
        <5>2. f + Len(s) \in 1 .. Len(text)
          BY <1>6, <5>1, Zenon
        <5>3. QED
          BY <1>6, <5>2
      <4>3. QED
        BY <1>3, <1>5, <1>6, <1>7, <4>1, <4>2
    <3>2. n = Len(t)
      BY <1>3, <1>5, <2>3, <3>1 DEF OnlyLast
    <3>3. out' = Spelled(Left(t, p))
      BY <1>3, <2>2, <3>1, <3>2, WroteIs
    <3>4. Over(t, p, pos', out')
      BY <1>5, <1>6, <2>1, <3>1, <3>2, <3>3 DEF Over
    <3>5. QED
      BY <3>4 DEF Place
  <2>4. CASE s[d + 1] # "backslash" /\ s[d + 1] = s[1]
    <3>1. d + 1 = Len(s) /\ quote' = "none"
      BY <1>5, <2>1, <2>4
    <3>2. QED
      BY <1>3, <1>13, <2>2, <3>1, LexemePassed
  <2>5. CASE s[d + 1] # "backslash" /\ s[d + 1] # s[1]
    <3>1. d + 1 \in StopsIn(t[n]) /\ quote' = quote
      BY <1>5, <2>1, <2>5
    <3>2. Inside(t, n, d + 1, p, pos', quote', out')
      BY <1>1, <1>2, <1>3, <1>9, <2>1, <3>1 DEF Inside
    <3>3. QED
      BY <3>1, <3>2 DEF Place
  <2>6. QED
    BY <2>3, <2>4, <2>5
<1>16. QED
  BY <1>14, <1>15

(* At a place that is not the end, the pass has more to read.              *)
LEMMA NotBehind ==
  ASSUME NEW t, NEW p \in Pass, Fits(t, p), text = Spelled(t), Place(t, p, pos, quote, out),
         Len(text) < pos
  PROVE  Over(t, p, pos, out)
<1>1. t \in Seq(Lexeme)
  BY DEF Fits
<1>2. Len(text) \in Nat
  <2>1. Len(t) \in 0 .. Len(t)
    BY <1>1
  <2>2. QED
    BY <1>1, <2>1, EndsAt
<1>3. \A n \in 1 .. Len(t) : LET f == EndOf(t, n - 1)
                               s == Spelling[t[n]]
                           IN  /\ f \in Nat /\ Len(s) \in Nat \ {0}
                               /\ \A i \in 1 .. Len(s) : f + i \in 1 .. Len(text)
  <2>1. ASSUME NEW n \in 1 .. Len(t), NEW s, s = Spelling[t[n]]
        PROVE  /\ EndOf(t, n - 1) \in Nat /\ Len(s) \in Nat \ {0}
               /\ StandsAt(s, EndOf(t, n - 1), text)
    BY <1>1, <2>1, LexemeAt
  <2>2. QED
    BY <2>1 DEF StandsAt
<1>4. ASSUME NEW n \in 1 .. Len(t), Begins(t, n, p, pos, quote, out) PROVE FALSE
  <2>1. PICK s : s = Spelling[t[n]]
    OBVIOUS
  <2>2. 1 \in 1 .. Len(s)
    BY <1>3, <2>1
  <2>3. EndOf(t, n - 1) + 1 \in 1 .. Len(text)
    BY <1>3, <2>1, <2>2
  <2>4. QED
    BY <1>2, <1>4, <2>3 DEF Begins
<1>5. ASSUME NEW n \in 1 .. Len(t), BeforeNewline(t, n, p, pos, quote, out) PROVE FALSE
  <2>1. PICK s : s = Spelling[t[n]]
    OBVIOUS
  <2>2. Len(s) = 4
    BY <1>5, <2>1, CommentIs DEF BeforeNewline, Comments
  <2>3. 4 \in 1 .. Len(s)
    BY <2>2
  <2>4. EndOf(t, n - 1) + 4 \in 1 .. Len(text)
    BY <1>3, <2>1, <2>3
  <2>5. QED
    BY <1>2, <1>5, <2>4 DEF BeforeNewline
<1>6. ASSUME NEW n \in 1 .. Len(t), NEW d \in StopsIn(t[n]), Inside(t, n, d, p, pos, quote, out)
      PROVE  FALSE
  <2>1. PICK s : s = Spelling[t[n]]
    OBVIOUS
  <2>2. GoesOn(t[n], s, d) /\ Len(s) \in Nat
    BY <1>6, <2>1, StringIs DEF Inside
  <2>3. d + 1 \in 1 .. Len(s)
    BY <2>2 DEF GoesOn
  <2>4. EndOf(t, n - 1) + (d + 1) \in 1 .. Len(text)
    BY <1>3, <2>1, <2>3
  <2>5. QED
    BY <1>2, <1>6, <2>4 DEF Inside
<1>7. QED
  BY <1>4, <1>5, <1>6 DEF Place

(* One step of a pass leads from one place of it to another.               *)
LEMMA PassGoesOn ==
  ASSUME NEW t, NEW p \in Pass, Fits(t, p), text = Spelled(t), pass = p,
         Place(t, p, pos, quote, out), StripNext, ~NextPass
  PROVE  Place(t, p, pos', quote', out') /\ UNCHANGED <<lexemes, text, pass>>
<1>1. UNCHANGED <<lexemes, text, pass>>
  BY DEF StripNext, InString, OpenString, SkipLine, SkipBlock, DropComma, Copy
<1>2. CASE Over(t, p, pos, out)
  <2>1. t \in Seq(Lexeme)
    BY DEF Fits
  <2>2. Len(text) \in Nat /\ Len(text) < pos /\ pos \in Nat
    <3>1. Len(t) \in 0 .. Len(t) /\ EndOf(t, Len(t)) = Len(text)
      BY <2>1, EndsAt
    <3>2. QED
      BY <1>2, <2>1, <3>1, EndsAt DEF Over
  <2>3. ~More
    BY <2>2 DEF More
  <2>4. QED
    BY <2>3 DEF StripNext, InString, OpenString, SkipLine, SkipBlock, DropComma, Copy
<1>3. ASSUME NEW n \in 1 .. Len(t), Begins(t, n, p, pos, quote, out)
      PROVE  Place(t, p, pos', quote', out')
  <2>1. ~InString
    BY <1>3 DEF InString, Begins
  <2>2. QED
    BY <1>3, <2>1, OpensString, SkipsLine, SkipsBlock, DropsComma, Copies DEF StripNext
<1>4. ASSUME NEW n \in 1 .. Len(t), BeforeNewline(t, n, p, pos, quote, out)
      PROVE  Place(t, p, pos', quote', out')
  BY <1>4, CopiesNewline
<1>5. ASSUME NEW n \in 1 .. Len(t), NEW d \in StopsIn(t[n]), Inside(t, n, d, p, pos, quote, out)
      PROVE  Place(t, p, pos', quote', out')
  BY <1>5, StaysInString
<1>6. QED
  BY <1>1, <1>2, <1>3, <1>4, <1>5 DEF Place

----------------------------------------------------------------------------
(* Both passes.                                                            *)

(* The lexemes that the text of this pass spells.                          *)
Source == IF pass = "comments" THEN lexemes ELSE Left(lexemes, "comments")

(* A pass is at one of its places, and has written what it leaves of what is*)
(* before it; in the end both have left what they should.                  *)
StripInv ==
  /\ Fits(lexemes, "comments")
  /\ \/ /\ pass \in Pass
        /\ text = Spelled(Source)
        /\ Place(Source, pass, pos, quote, out)
     \/ pass = "done" /\ text = Spelled(Left(Left(lexemes, "comments"), "commas"))

(* Each pass gets a text that fits it.                                     *)
LEMMA SourceFits ==
  ASSUME Fits(lexemes, "comments"), pass \in Pass
  PROVE  Fits(Source, pass) /\ Source \in Seq(Lexeme)
<1>1. CASE pass = "comments"
  BY <1>1 DEF Source, Fits
<1>2. CASE pass = "commas"
  BY <1>2, LeftFits DEF Source, Fits
<1>3. QED
  BY <1>1, <1>2 DEF Pass

(* A pass begins at the first lexeme.                                      *)
LEMMA PassBegins ==
  ASSUME NEW t \in Seq(Lexeme), NEW p \in Pass
  PROVE  Place(t, p, 1, "none", << >>)
<1>1. 0 \in 0 .. Len(t) /\ EndOf(t, 0) = 0 /\ Wrote(t, 0, p) = << >>
  BY EndsAt, WroteIs
<1>2. QED
  BY <1>1, LexemePassed

(* The first pass begins at the first character of the text.               *)
LEMMA StripBegins == StripInit => StripInv
<1> SUFFICES ASSUME StripInit PROVE StripInv
  OBVIOUS
<1>1. Fits(lexemes, "comments")
  <2>1. lexemes \in Seq(Lexeme) /\ DOMAIN lexemes = 1 .. Len(lexemes)
    BY JsoncAssumption DEF StripInit, Texts, SeqOf
  <2>2. QED
    BY <2>1 DEF StripInit, Texts, Fits
<1>2. pass \in Pass /\ Source = lexemes /\ pass = "comments"
  BY DEF StripInit, Source, Pass
<1>3. Place(Source, pass, pos, quote, out)
  BY <1>1, <1>2, PassBegins DEF StripInit, Fits
<1>4. QED
  BY <1>1, <1>2, <1>3 DEF StripInv, StripInit

(* A pass goes on in its text, and ends with what it should leave.         *)
LEMMA StripStep == StripInv /\ [StripNext]_stripVars => StripInv'
<1> SUFFICES ASSUME StripInv, [StripNext]_stripVars PROVE StripInv'
  OBVIOUS
<1>1. CASE UNCHANGED stripVars
  BY <1>1 DEF StripInv, stripVars, Source
<1>2. CASE NextPass
  <2>1. /\ pass \in Pass /\ Fits(lexemes, "comments") /\ text = Spelled(Source)
        /\ Place(Source, pass, pos, quote, out)
    BY <1>2 DEF NextPass, StripInv
  <2>2. Fits(Source, pass) /\ Source \in Seq(Lexeme)
    BY <2>1, SourceFits
  <2>3. /\ Len(text) < pos /\ lexemes' = lexemes /\ text' = out
        /\ pass' = IF pass = "comments" THEN "commas" ELSE "done"
        /\ pos' = 1 /\ quote' = "none" /\ out' = << >>
    BY <1>2 DEF NextPass
  <2>4. out = Spelled(Left(Source, pass))
    BY <2>1, <2>2, <2>3, NotBehind DEF Place, Over
  <2>5. CASE pass = "comments"
    <3>1. pass' = "commas" /\ Source' = Left(lexemes, "comments") /\ Source = lexemes
      BY <2>3, <2>5 DEF Source
    <3>2. Left(lexemes, "comments") \in Seq(Lexeme)
      BY <2>1, LeftFits DEF Fits
    <3>3. Place(Left(lexemes, "comments"), "commas", 1, "none", << >>)
      BY <3>2, PassBegins DEF Pass
    <3>4. QED
      BY <2>1, <2>3, <2>4, <2>5, <3>1, <3>3 DEF StripInv, Pass
  <2>6. CASE pass = "commas"
    <3>1. pass' = "done" /\ Source = Left(lexemes, "comments")
      BY <2>3, <2>6 DEF Source
    <3>2. QED
      BY <2>1, <2>3, <2>4, <2>6, <3>1 DEF StripInv
  <2>7. QED
    BY <2>1, <2>5, <2>6 DEF Pass
<1>3. CASE StripNext /\ ~NextPass
  <2>1. pass # "done"
    BY <1>3 DEF StripNext, InString, OpenString, SkipLine, SkipBlock, DropComma, Copy, More
  <2>2. /\ pass \in Pass /\ Fits(lexemes, "comments") /\ text = Spelled(Source)
        /\ Place(Source, pass, pos, quote, out)
    BY <2>1 DEF StripInv
  <2>3. Fits(Source, pass)
    BY <2>2, SourceFits
  <2>4. Place(Source, pass, pos', quote', out') /\ UNCHANGED <<lexemes, text, pass>>
    BY <1>3, <2>2, <2>3, PassGoesOn
  <2>5. Source' = Source
    BY <2>4 DEF Source
  <2>6. QED
    BY <2>2, <2>4, <2>5 DEF StripInv
<1>4. QED
  BY <1>1, <1>2, <1>3

(* When both have ended, comments and then trailing commas are left out.   *)
LEMMA StripSound == StripInv => StripsExactly
<1> SUFFICES ASSUME StripInv, pass = "done" PROVE text = Spelled(Untrailed(Uncommented))
  BY DEF StripsExactly
<1>1. text = Spelled(Left(Left(lexemes, "comments"), "commas"))
  BY DEF StripInv, Pass
<1>2. Left(lexemes, "comments") = Uncommented
  BY DEF Left, Lefts, LeftOf, Uncommented
<1>3. Left(Uncommented, "commas") = Untrailed(Uncommented)
  BY DEF Left, Lefts, LeftOf, Untrailed
<1>4. QED
  BY <1>1, <1>2, <1>3

(* The two passes leave of any text, of any length, exactly what they      *)
(* should: without its comments and trailing commas, and every string as   *)
(* it was (jsonc.py:8-9).                                                  *)
THEOREM StripIsExact == StripSpec => []StripsExactly
<1>1. StripSpec => []StripInv
  BY StripBegins, StripStep, PTL DEF StripSpec
<1>2. QED
  BY <1>1, StripSound, PTL
=============================================================================
