------------------------------ MODULE LanScope ------------------------------
(***************************************************************************)
(* resolve_scope (lan/scope.py): the raw targets of a verified manifest    *)
(* become a bounded list of hosts to probe, or a refusal.  One action per  *)
(* iteration of the code's two loops.                                      *)
(*                                                                         *)
(* An address is a model value.  A target is what ipaddress makes of the   *)
(* raw string: `addrs` are all addresses of the network, `hosts` the usable *)
(* ones in the order net.hosts() yields them.                              *)
(***************************************************************************)
EXTENDS LanBudgets, Sequences, FiniteSets

CONSTANTS
  Address,         \* addresses a target can name
  PrivateAddress,  \* the ones ipaddress calls private
  Port,            \* TCP ports
  Target,          \* targets a manifest can list
  Call,            \* invocations: manifest content, invoker, policy, ...
  Budgets          \* the ceilings of each invoker

Elems(s) == {s[i] : i \in 1 .. Len(s)}

Network ==
  [valid : BOOLEAN, single : BOOLEAN, addrs : SUBSET Address, hosts : Seq(Address)]

ASSUME ScopeAssumption ==
  /\ PrivateAddress \subseteq Address
  /\ Budgets \in [Invoker -> BudgetTable]
  /\ Target \subseteq Network
  /\ \A t \in Target : Elems(t.hosts) \subseteq t.addrs
  /\ \A c \in Call : /\ c.invoker \in Invoker
                     /\ c.targets \in Seq(Target)
                     /\ c.ports \in Seq(Port)

VARIABLES
  call,      \* the invocation under way, never assigned
  pc,        \* the next statement to execute
  target,    \* index of the manifest target the outer loop is at
  expanded,  \* the hosts of that target still to be added
  seen,      \* hosts already listed
  hosts      \* the hosts to probe, in order

scopeVars == <<call, pc, target, expanded, seen, hosts>>

Budget == Budgets[call.invoker]

----------------------------------------------------------------------------
(* What the code asks of a target.                                         *)

IsPrivate(t) == t.addrs \subseteq PrivateAddress

CoveredByPolicy(t, allow) == \E entry \in allow : t.addrs \subseteq entry

Admissible(c, t) ==
  /\ t.valid
  /\ t.single \/ c.invoker # "agent"
  /\ IsPrivate(t) \/ CoveredByPolicy(t, c.allow)
  /\ t.hosts # << >>

----------------------------------------------------------------------------
ScopeInit ==
  /\ call \in Call
  /\ pc = "ports"
  /\ target = 1
  /\ expanded = << >>
  /\ seen = {}
  /\ hosts = << >>

CheckPorts ==
  /\ pc = "ports"
  /\ pc' = IF Len(call.ports) > Budget.max_ports_per_host THEN "refused" ELSE "target"
  /\ UNCHANGED <<call, target, expanded, seen, hosts>>

(* Mutant: the private-address default is forgotten.                       *)
AdmitTargetPublic ==
  /\ pc = "target"
  /\ target <= Len(call.targets)
  /\ call.targets[target].valid
  /\ call.targets[target].single \/ call.invoker # "agent"
  /\ expanded' = call.targets[target].hosts
  /\ pc' = "host"
  /\ UNCHANGED <<call, target, seen, hosts>>

(* The whole target is materialised before any host is counted.            *)
AdmitTarget ==
  /\ pc = "target"
  /\ target <= Len(call.targets)
  /\ Admissible(call, call.targets[target])
  /\ expanded' = call.targets[target].hosts
  /\ pc' = "host"
  /\ UNCHANGED <<call, target, seen, hosts>>

RejectTarget ==
  /\ pc = "target"
  /\ target <= Len(call.targets)
  /\ ~ Admissible(call, call.targets[target])
  /\ pc' = "refused"
  /\ UNCHANGED <<call, target, expanded, seen, hosts>>

(* Mutant: overlapping targets list their common hosts again.              *)
AddHostAgain ==
  /\ pc = "host"
  /\ expanded # << >>
  /\ seen' = seen \union {Head(expanded)}
  /\ hosts' = Append(hosts, Head(expanded))
  /\ expanded' = Tail(expanded)
  /\ pc' = IF Len(hosts') > Budget.max_hosts THEN "refused" ELSE "host"
  /\ UNCHANGED <<call, target>>

AddHost ==
  /\ pc = "host"
  /\ expanded # << >>
  /\ LET h == Head(expanded)
     IN  /\ seen' = seen \union {h}
         /\ hosts' = IF h \in seen THEN hosts ELSE Append(hosts, h)
  /\ expanded' = Tail(expanded)
  /\ pc' = IF Len(hosts') > Budget.max_hosts THEN "refused" ELSE "host"
  /\ UNCHANGED <<call, target>>

NextTarget ==
  /\ pc = "host"
  /\ expanded = << >>
  /\ target' = target + 1
  /\ pc' = "target"
  /\ UNCHANGED <<call, expanded, seen, hosts>>

(* Mutants: the connection budget is exclusive, or is not checked.         *)
OverConnectionsAtLimit == Len(hosts) * Len(call.ports) >= Budget.max_total_connections
OverConnectionsIgnored == FALSE

OverConnections == Len(hosts) * Len(call.ports) > Budget.max_total_connections

ConcludeScope ==
  /\ pc = "target"
  /\ target > Len(call.targets)
  /\ pc' = IF hosts = << >> \/ OverConnections THEN "refused" ELSE "scoped"
  /\ UNCHANGED <<call, target, expanded, seen, hosts>>

ScopeNext ==
  \/ CheckPorts
  \/ AdmitTarget
  \/ RejectTarget
  \/ AddHost
  \/ NextTarget
  \/ ConcludeScope

ScopeDecided == pc \in {"scoped", "refused"} /\ UNCHANGED scopeVars

ScopeSpec ==
  /\ ScopeInit
  /\ [][ScopeNext \/ ScopeDecided]_scopeVars
  /\ WF_scopeVars(ScopeNext)

----------------------------------------------------------------------------
(* The meaning of a manifest, without the order in which it is resolved.   *)

ManifestHosts(c) == UNION {Elems(c.targets[i].hosts) : i \in 1 .. Len(c.targets)}

Acceptable(c) ==
  LET b == Budgets[c.invoker]
      n == Cardinality(ManifestHosts(c))
  IN  /\ Len(c.ports) <= b.max_ports_per_host
      /\ \A i \in 1 .. Len(c.targets) : Admissible(c, c.targets[i])
      /\ n \in 1 .. b.max_hosts
      /\ n * Len(c.ports) <= b.max_total_connections

----------------------------------------------------------------------------
(* The types of the variables of this module.                              *)
ScopeDataOK ==
  /\ call \in Call
  /\ target \in Nat \ {0}
  /\ expanded \in Seq(Address)
  /\ seen \in SUBSET Address
  /\ hosts \in Seq(Address)

ScopeTypeOK ==
  /\ ScopeDataOK
  /\ pc \in {"ports", "target", "host", "scoped", "refused"}

(* Scope resolution grants a manifest exactly when every target is         *)
(* admissible and the totals fit the invoker's budgets: the decision does  *)
(* not depend on the order of the targets, on duplicates or on overlaps,   *)
(* although the code counts incrementally and returns at the first         *)
(* objection (resolve_scope).                                              *)
ScopeDecision ==
  /\ pc = "scoped"  => Acceptable(call)
  /\ pc = "refused" => ~ Acceptable(call)

(* A granted scope lists each host of the manifest once and no other host: *)
(* overlapping targets neither repeat a host nor lose one, and the list    *)
(* fits the budgets (resolve_scope's seen/hosts bookkeeping).              *)
ScopeExact ==
  pc = "scoped" =>
    /\ Elems(hosts) = ManifestHosts(call)
    /\ \A i, j \in 1 .. Len(hosts) : hosts[i] = hosts[j] => i = j
    /\ Len(hosts) <= Budget.max_hosts
    /\ Len(hosts) * Len(call.ports) <= Budget.max_total_connections

(* Every host listed so far comes from an admissible target: an agent's    *)
(* list holds no host of a range, and no list holds a public host that the *)
(* enterprise policy does not cover, even while resolution is under way.   *)
ScopeAuthorised ==
  \A i \in 1 .. Len(hosts) :
    \E k \in 1 .. Len(call.targets) :
      /\ hosts[i] \in Elems(call.targets[k].hosts)
      /\ Admissible(call, call.targets[k])

(* A target expands only within the immutable host budget, as the module   *)
(* docstring of lan/scope.py states.                                       *)
ExpansionWithinBudget == Len(expanded) <= Budget.max_hosts

=============================================================================
