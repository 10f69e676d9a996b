------------------------------- MODULE FixPlan -------------------------------
(***************************************************************************)
(* What `mcpscan scan --fix` finds in one config, what it removes from it, *)
(* and what the next scan finds: the adapters' parse (adapters/), the      *)
(* tool-scope check (checks/tool_scope.py) and plan_config_fixes (fix.py). *)
(*                                                                         *)
(* An entry of an allow-list is a value; the two regular expressions are   *)
(* the sets of entries they match, also for an entry that is not a string, *)
(* which the adapters turn into one.                                       *)
(***************************************************************************)
EXTENDS Lists

CONSTANTS
  Entry,       \* entries of an allow-list
  Dangerous,   \* is_dangerous_tool, of str(entry)
  Broad,       \* has_broad_wildcard, of str(entry)
  NonString    \* entries that are not JSON strings

Host    == {"claude", "cursor", "windsurf", "cline", "vscode", "zed", "continue"}
Syntax  == {"json", "jsonc", "yaml", "broken"}
Section == {"mcpServers", "servers", "context_servers", "list"}
Rule    == {"dangerous", "wildcard"}
Hit     == [rule : Rule, entry : Entry]

(* A config text: its syntax, permissions.allow, the key its servers are   *)
(* listed under, and the autoApprove list of each server.                  *)
Text == [syntax : Syntax, allow : Seq(Entry), section : Section, servers : Seq(Seq(Entry))]

ASSUME PlanAssumption == Dangerous \union Broad \union NonString \subseteq Entry

----------------------------------------------------------------------------
(* The scan.                                                               *)

Check(list) ==
  LET flagged == Sift(list, Dangerous \union Broad)
  IN  [i \in DOMAIN flagged |->
         [rule |-> IF flagged[i] \in Dangerous THEN "dangerous" ELSE "wildcard",
          entry |-> flagged[i]]]

Parses ==
  [h \in Host |-> CASE h \in {"vscode", "zed"} -> {"json", "jsonc"}
                    [] h = "continue" -> {"json", "yaml"}
                    [] OTHER -> {"json"}]

Reads ==
  [h \in Host |-> CASE h = "vscode" -> {"servers", "mcpServers"}
                    [] h = "zed" -> {"context_servers"}
                    [] h = "continue" -> {"list"}
                    [] OTHER -> {"mcpServers"}]

Nothing(t) == [allow |-> << >>, servers |-> [i \in DOMAIN t.servers |-> << >>]]

(* Only the Claude adapter looks at permissions.allow.                     *)
Findings(h, t) ==
  IF t.syntax \notin Parses[h] THEN Nothing(t) ELSE
    [allow   |-> IF h = "claude" THEN Check(t.allow) ELSE << >>,
     servers |-> [i \in DOMAIN t.servers |->
                    IF t.section \in Reads[h] THEN Check(t.servers[i]) ELSE << >>]]

----------------------------------------------------------------------------
(* The fixer.                                                              *)

(* Mutants: wildcards are forgotten; the wildcard rule comes first; every  *)
(* entry gets a rule.                                                      *)
RuleForDangerousOnly(e) == IF e \in Dangerous THEN "dangerous" ELSE "none"

RuleForWildcardFirst(e) ==
  CASE e \in Broad             -> "wildcard"
    [] e \in Dangerous \ Broad -> "dangerous"
    [] OTHER                   -> "none"

RuleFor(e) ==
  CASE e \in Dangerous         -> "dangerous"
    [] e \in Broad \ Dangerous -> "wildcard"
    [] OTHER                   -> "none"

(* What the fixer takes out of a list, and what it keeps, in order.        *)
Flagged == {e \in Entry \ NonString : RuleFor(e) # "none"}

Removals(list) ==
  LET gone == Sift(list, Flagged)
  IN  [i \in DOMAIN gone |-> [rule |-> RuleFor(gone[i]), entry |-> gone[i]]]

(* Mutant: an entry that is kept goes to the front.                        *)
PruneListFront(list) ==
  [kept |-> Reverse(Sift(list, Entry \ Flagged)), fixes |-> Removals(list)]

PruneList(list) == [kept |-> Sift(list, Entry \ Flagged), fixes |-> Removals(list)]

(* The fixer reads any file as strict JSON and knows two places in it.     *)
PruneServers(t, i) ==
  IF t.section = "mcpServers" THEN PruneList(t.servers[i])
                              ELSE [kept |-> t.servers[i], fixes |-> << >>]

Edits(t) ==
  IF t.syntax # "json" THEN Nothing(t) ELSE
    [allow   |-> PruneList(t.allow).fixes,
     servers |-> [i \in DOMAIN t.servers |-> PruneServers(t, i).fixes]]

Rewritten(t) ==
  IF t.syntax # "json" THEN t ELSE
    [t EXCEPT !.allow = PruneList(@).kept,
              !.servers = [i \in DOMAIN t.servers |-> PruneServers(t, i).kept]]
=============================================================================
