---------------------------- MODULE ServerChecks ----------------------------
(***************************************************************************)
(* What one declared server is found guilty of by a scan (checks/,         *)
(* engine._audit_config), and what it is trusted with (trust/analyze.py):  *)
(* two readings of one declaration.                                        *)
(*                                                                         *)
(* A declaration is abstracted to what the checks look for: the number of  *)
(* values in its env block that look like secrets, the classes its         *)
(* autoApprove entries match ("danger", "wild"), and how its package       *)
(* argument is pinned: "exact", "latest", "open", or "none" when the       *)
(* command is no package runner.                                           *)
(***************************************************************************)
EXTENDS Grading, Lists

Entry == SUBSET {"danger", "wild"}
Pin == {"exact", "latest", "open", "none"}

Declaration == [name : STRING, secrets : Nat, approve : Seq(Entry), pin : Pin]

Decl(name, secrets, approve, pin) ==
  [name |-> name, secrets |-> secrets, approve |-> approve, pin |-> pin]

Finding(id, severity, dim) == [id |-> id, severity |-> severity, dimension |-> dim]

Times(n, x) == [i \in 1 .. n |-> x]

(* An entry that matches both is a dangerous one.                          *)
EntryFindings(entries, danger, wild) ==
  LET flagged == Sift(entries, Entry \ {{}})
  IN  [i \in DOMAIN flagged |->
         IF "danger" \in flagged[i] THEN Finding(danger, "high", "tool_scope")
                                   ELSE Finding(wild, "medium", "tool_scope")]

CheckEnv(decl) == Times(decl.secrets, Finding("CRED-PLAINTEXT", "critical", "credential"))

CheckAutoApprove(decl) ==
  EntryFindings(decl.approve, "SCOPE-DANGEROUS-AUTOAPPROVE", "SCOPE-AUTOAPPROVE-WILDCARD")

CheckPinning(decl) ==
  IF decl.pin \in {"latest", "open"} THEN <<Finding("PIN-UNPINNED", "medium", "pinning")>>
  ELSE <<>>

CheckPermissions(allow) ==
  EntryFindings(allow, "SCOPE-DANGEROUS-ALLOW", "SCOPE-WILDCARD")

(* _audit_config: one server for each declaration, and one for the grants  *)
(* of the config when any of them is flagged.                              *)
AuditConfig(config) ==
  [i \in DOMAIN config.servers |->
    LET d == config.servers[i]
    IN  [id |-> d.name, findings |-> CheckEnv(d) \o CheckAutoApprove(d) \o CheckPinning(d)]]
  \o (LET found == CheckPermissions(config.allow)
      IN  IF found = <<>> THEN <<>> ELSE <<[id |-> "#permissions", findings |-> found]>>)

(* _audit_env_file: one server, whatever is found; secrets at rest are     *)
(* flagged once more when others may read the file.                        *)
AuditEnv(secrets, shared) ==
  << [id |-> "env",
      findings |-> Times(secrets, Finding("CRED-PLAINTEXT", "critical", "credential"))
                     \o IF secrets > 0 /\ shared
                        THEN <<Finding("CRED-PERMS", "high", "credential")>> ELSE <<>>] >>

----------------------------------------------------------------------------
(* The factors of trust, as points of risk.                                *)

AtMost(n, cap) == IF n > cap THEN cap ELSE n
SomeEntry(decl, class) == \E i \in DOMAIN decl.approve : class \in decl.approve[i]

SecretRisk(decl) ==
  IF decl.secrets = 0 THEN 0 ELSE AtMost(25 + 5 * (decl.secrets - 1), 40)

(* Mutant: a grant counts by its wildcard when it has one.                 *)
PrivilegeRiskWildOnly(decl) == IF SomeEntry(decl, "wild") THEN 20 ELSE 0

PrivilegeRisk(decl) ==
  AtMost((IF SomeEntry(decl, "danger") THEN 25 ELSE 0)
           + (IF SomeEntry(decl, "wild") THEN 20 ELSE 0), 40)

AutonomyRisk(decl) == IF decl.approve = <<>> THEN 0 ELSE 15

ProvenanceRisk(decl) == IF CheckPinning(decl) = <<>> THEN 0 ELSE 10

Factors(decl) ==
  [secret_access   |-> SecretRisk(decl),
   tool_privilege  |-> PrivilegeRisk(decl),
   autonomy        |-> AutonomyRisk(decl),
   code_provenance |-> ProvenanceRisk(decl)]

Present(factors) == {f \in DOMAIN factors : factors[f] > 0}

(* The combinations of factors that are worse than their sum.              *)
Combinations ==
  { {"secret_access", "tool_privilege"}, {"autonomy", "tool_privilege"},
    {"autonomy", "secret_access"}, {"code_provenance", "tool_privilege"} }

Profile(decl) ==
  LET factors == Factors(decl)
      total == factors.secret_access + factors.tool_privilege
                 + factors.autonomy + factors.code_provenance
      score == AtLeastZero(100 - total)
  IN  [name |-> decl.name, score |-> score, grade |-> GradeOf(score), factors |-> factors,
       relationships |-> {c \in Combinations : c \subseteq Present(factors)}]
=============================================================================
