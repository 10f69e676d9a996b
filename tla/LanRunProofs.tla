---------------------------- MODULE LanRunProofs ----------------------------
(***************************************************************************)
(* What a `mcpscan lan` process guarantees for every manifest, policy,     *)
(* budget, timeout and behaviour of the remote hosts.  First what          *)
(* resolve_scope does, also on its own: its types, and that a granted      *)
(* scope is exactly the manifest's hosts, all admissible and within the    *)
(* budgets.                                                                *)
(***************************************************************************)
EXTENDS LanRun, FiniteSetTheorems, TLAPS

----------------------------------------------------------------------------
(* Facts about the elements of a sequence.                                 *)

(* Appending adds one element (hosts.append).                              *)
LEMMA ElemsAppend ==
  ASSUME NEW S, NEW s \in Seq(S), NEW x \in S
  PROVE  Elems(Append(s, x)) = Elems(s) \union {x}
<1>1. /\ Len(Append(s, x)) = Len(s) + 1
      /\ \A i \in 1 .. Len(s) : Append(s, x)[i] = s[i]
      /\ Append(s, x)[Len(s) + 1] = x
      /\ Len(s) \in Nat
  OBVIOUS
<1>2. 1 .. Len(s) + 1 = (1 .. Len(s)) \union {Len(s) + 1}
  BY <1>1
<1>3. QED
  BY <1>1, <1>2 DEF Elems

(* The head and the elements of the tail are the elements of a sequence    *)
(* (the inner loop of resolve_scope consumes one host per iteration).      *)
LEMMA ElemsTail ==
  ASSUME NEW S, NEW s \in Seq(S), s # << >>
  PROVE  /\ Head(s) \in S
         /\ Tail(s) \in Seq(S)
         /\ Elems(s) = {Head(s)} \union Elems(Tail(s))
<1>1. /\ Len(s) \in Nat \ {0}
      /\ Head(s) = s[1]
      /\ Head(s) \in S
      /\ Tail(s) \in Seq(S)
      /\ Len(Tail(s)) = Len(s) - 1
      /\ \A i \in 1 .. Len(s) - 1 : Tail(s)[i] = s[i + 1]
  OBVIOUS
<1>2. Elems(s) \subseteq {Head(s)} \union Elems(Tail(s))
  <2>1. ASSUME NEW i \in 1 .. Len(s) PROVE s[i] \in {Head(s)} \union Elems(Tail(s))
    <3>1. CASE i = 1
      BY <1>1, <3>1
    <3>2. CASE i # 1
      <4>1. i - 1 \in 1 .. Len(s) - 1 /\ Tail(s)[i - 1] = s[i]
        BY <1>1, <3>2
      <4>2. QED
        BY <1>1, <4>1 DEF Elems
    <3>3. QED
      BY <3>1, <3>2
  <2>2. QED
    BY <2>1 DEF Elems
<1>3. {Head(s)} \union Elems(Tail(s)) \subseteq Elems(s)
  <2>1. Head(s) \in Elems(s)
    BY <1>1 DEF Elems
  <2>2. ASSUME NEW i \in 1 .. Len(Tail(s)) PROVE Tail(s)[i] \in Elems(s)
    <3>1. i + 1 \in 1 .. Len(s) /\ Tail(s)[i] = s[i + 1]
      BY <1>1
    <3>2. QED
      BY <3>1 DEF Elems
  <2>3. QED
    BY <2>1, <2>2 DEF Elems
<1>4. QED
  BY <1>1, <1>2, <1>3

(* A sequence has finitely many elements.                                  *)
LEMMA ElemsFinite ==
  ASSUME NEW S, NEW s \in Seq(S)
  PROVE  IsFiniteSet(Elems(s))
<1>1. Len(s) \in Int
  OBVIOUS
<1>2. IsFiniteSet(1 .. Len(s))
  BY <1>1, FS_Interval
<1>3. [i \in 1 .. Len(s) |-> s[i]] \in Surjection(1 .. Len(s), Elems(s))
  BY DEF Surjection, Elems
<1>4. QED
  BY <1>2, <1>3, FS_Surjection

(* No element occurs twice.                                                *)
Distinct(s) == \A i, j \in 1 .. Len(s) : s[i] = s[j] => i = j

(* Appending a new element keeps a sequence free of repetitions.           *)
LEMMA DistinctAppend ==
  ASSUME NEW S, NEW s \in Seq(S), NEW x \in S, Distinct(s), x \notin Elems(s)
  PROVE  Distinct(Append(s, x))
<1>1. /\ Len(Append(s, x)) = Len(s) + 1
      /\ \A i \in 1 .. Len(s) : Append(s, x)[i] = s[i]
      /\ Append(s, x)[Len(s) + 1] = x
      /\ Len(s) \in Nat
  OBVIOUS
<1>2. \A i \in 1 .. Len(s) : s[i] # x
  BY DEF Elems
<1>3. QED
  BY <1>1, <1>2 DEF Distinct

(* A sequence without repetitions is as long as its set of elements is     *)
(* large (len(hosts) counts distinct hosts).                               *)
LEMMA DistinctCardinality ==
  ASSUME NEW S, NEW s \in Seq(S), Distinct(s)
  PROVE  IsFiniteSet(Elems(s)) /\ Cardinality(Elems(s)) = Len(s)
<1>1. Len(s) \in Nat
  OBVIOUS
<1>2. IsFiniteSet(1 .. Len(s)) /\ Cardinality(1 .. Len(s)) = Len(s)
  <2>1. IsFiniteSet(1 .. Len(s))
        /\ Cardinality(1 .. Len(s)) = IF 1 > Len(s) THEN 0 ELSE Len(s) - 1 + 1
    BY <1>1, FS_Interval
  <2>2. QED
    BY <1>1, <2>1
<1>3. [i \in 1 .. Len(s) |-> s[i]] \in Bijection(1 .. Len(s), Elems(s))
  BY DEF Bijection, Injection, Surjection, Elems, Distinct, IsInjective
<1>4. ExistsBijection(1 .. Len(s), Elems(s))
  BY <1>3 DEF ExistsBijection
<1>5. QED
  BY <1>2, <1>4, FS_Bijection

----------------------------------------------------------------------------
(* The inductive invariant.  A type invariant is not enough: that the      *)
(* granted list is the manifest's hosts needs what is true half way, when  *)
(* the targets before `target` are listed and the rest of the current one  *)
(* is in `expanded`.                                                       *)

(* Target k has been or is being listed.                                   *)
Reached(k) == k < target \/ (k = target /\ pc = "host")

Bookkeeping ==
  /\ seen = Elems(hosts)
  /\ Distinct(hosts)
  /\ \A h \in seen : \E k \in 1 .. Len(call.targets) :
       /\ h \in Elems(call.targets[k].hosts)
       /\ Admissible(call, call.targets[k])

Progress ==
  /\ Len(call.ports) <= Budget.max_ports_per_host
  /\ Len(hosts) <= Budget.max_hosts
  /\ target <= Len(call.targets) + 1
  /\ pc = "host" => target <= Len(call.targets)
  /\ \A k \in 1 .. Len(call.targets) :
       Reached(k) => /\ Admissible(call, call.targets[k])
                     /\ Elems(call.targets[k].hosts) \subseteq seen \union Elems(expanded)
  /\ pc = "target" => expanded = << >>
  /\ pc = "host" => Elems(expanded) \subseteq Elems(call.targets[target].hosts)

(* What a granted scope amounts to, in terms of the call and the list.     *)
ExactGrant(c, list) ==
  /\ Len(c.ports) <= Budgets[c.invoker].max_ports_per_host
  /\ \A k \in 1 .. Len(c.targets) : Admissible(c, c.targets[k])
  /\ Elems(list) = ManifestHosts(c)
  /\ Distinct(list)
  /\ list # << >>
  /\ Len(list) <= Budgets[c.invoker].max_hosts
  /\ Len(list) * Len(c.ports) <= Budgets[c.invoker].max_total_connections

ScopeInv ==
  /\ ScopeTypeOK
  /\ Bookkeeping
  /\ pc = "ports" => target = 1 /\ hosts = << >> /\ expanded = << >>
  /\ pc \in {"target", "host"} => Progress
  /\ pc = "scoped" => ExactGrant(call, hosts)
  /\ pc = "refused" => ~ Acceptable(call)

----------------------------------------------------------------------------
(* The facts about the constants that the steps use.                       *)
LEMMA CallFacts ==
  ASSUME NEW c \in Call
  PROVE  /\ c.invoker \in Invoker
         /\ c.targets \in Seq(Target)
         /\ c.ports \in Seq(Port)
         /\ Len(c.targets) \in Nat /\ Len(c.ports) \in Nat
         /\ Budgets[c.invoker] \in BudgetTable
         /\ \A k \in 1 .. Len(c.targets) :
              /\ c.targets[k].hosts \in Seq(Address)
              /\ Elems(c.targets[k].hosts) \subseteq ManifestHosts(c)
<1>1. /\ c.invoker \in Invoker
      /\ c.targets \in Seq(Target)
      /\ c.ports \in Seq(Port)
      /\ Budgets \in [Invoker -> BudgetTable]
      /\ Target \subseteq Network
  BY ScopeAssumption
<1>2. Len(c.targets) \in Nat /\ Len(c.ports) \in Nat
  BY <1>1
<1>3. ASSUME NEW k \in 1 .. Len(c.targets)
      PROVE  /\ c.targets[k].hosts \in Seq(Address)
             /\ Elems(c.targets[k].hosts) \subseteq ManifestHosts(c)
  <2>1. c.targets[k] \in Network
    BY <1>1
  <2>2. c.targets[k].hosts \in Seq(Address)
    BY <2>1 DEF Network
  <2>3. QED
    BY <2>2 DEF ManifestHosts
<1>4. QED
  BY <1>1, <1>2, <1>3

(* A manifest names finitely many hosts.                                   *)
LEMMA ManifestHostsFinite ==
  ASSUME NEW c \in Call
  PROVE  /\ IsFiniteSet(ManifestHosts(c))
         /\ Cardinality(ManifestHosts(c)) \in Nat
<1> DEFINE I == 1 .. Len(c.targets)
           F(k) == Elems(c.targets[k].hosts)
<1>1. IsFiniteSet(I)
  BY CallFacts, FS_Interval
<1>2. \A k \in I : IsFiniteSet(F(k))
  <2>1. ASSUME NEW k \in I PROVE IsFiniteSet(F(k))
    BY CallFacts, ElemsFinite
  <2>2. QED
    BY <2>1
<1>3. IsFiniteSet({F(k) : k \in I})
  <2>1. [k \in I |-> F(k)] \in Surjection(I, {F(k) : k \in I})
    BY DEF Surjection
  <2>2. QED
    BY <1>1, <2>1, FS_Surjection
<1>4. IsFiniteSet(UNION {F(k) : k \in I})
  BY <1>2, <1>3, FS_UNION
<1>5. QED
  BY <1>4, FS_CardinalityType DEF ManifestHosts

(* Hosts that come from admissible targets are hosts of the manifest.      *)
LEMMA SeenInManifest == Bookkeeping => Elems(hosts) \subseteq ManifestHosts(call)
BY DEF Bookkeeping, ManifestHosts

(* resolve_scope starts with nothing listed.                               *)
LEMMA ScopeInitInv == ScopeInit => ScopeInv
BY DEF ScopeInit, ScopeInv, ScopeTypeOK, ScopeDataOK, Bookkeeping, Distinct, Elems

(* One iteration of either loop of resolve_scope keeps the invariant.      *)
LEMMA ScopeStepInv == ScopeInv /\ ScopeNext => ScopeInv'
<1> SUFFICES ASSUME ScopeInv, ScopeNext PROVE ScopeInv'
  OBVIOUS
<1> USE DEF ScopeInv, ScopeTypeOK, ScopeDataOK, Bookkeeping
<1>c. /\ call \in Call
      /\ call.targets \in Seq(Target)
      /\ Len(call.targets) \in Nat /\ Len(call.ports) \in Nat
      /\ Budget \in BudgetTable
      /\ \A k \in 1 .. Len(call.targets) :
           /\ call.targets[k].hosts \in Seq(Address)
           /\ Elems(call.targets[k].hosts) \subseteq ManifestHosts(call)
  BY CallFacts DEF Budget
<1>1. CASE CheckPorts
  <2>1. CASE Len(call.ports) > Budget.max_ports_per_host
    <3>1. pc' = "refused" /\ UNCHANGED <<call, target, expanded, seen, hosts>>
      BY <1>1, <2>1 DEF CheckPorts
    <3>2. ~ (Len(call.ports) <= Budget.max_ports_per_host)
      BY <1>c, <2>1 DEF BudgetTable
    <3>3. ~ Acceptable(call)
      BY <3>2 DEF Acceptable, Budget
    <3>4. ScopeTypeOK' /\ Bookkeeping'
      BY <3>1
    <3>5. ~ Acceptable(call)'
      BY <3>1, <3>3 DEF Acceptable, Admissible, ManifestHosts
    <3>6. QED
      BY <3>1, <3>4, <3>5
  <2>2. CASE ~ (Len(call.ports) > Budget.max_ports_per_host)
    <3>1. Progress'
      BY <1>1, <1>c, <2>2, SMTT(30)
         DEF CheckPorts, Progress, Reached, Budget, BudgetTable, Elems
    <3>2. QED
      BY <1>1, <2>2, <3>1 DEF CheckPorts
  <2>3. QED
    BY <2>1, <2>2
<1>2. CASE AdmitTarget
  <2>1. expanded' \in Seq(Address)
    BY <1>2, <1>c, SMTT(30) DEF AdmitTarget
  <2>2. /\ expanded = << >> /\ pc = "target" /\ pc' = "host" /\ Progress
        /\ target \in 1 .. Len(call.targets)
        /\ Admissible(call, call.targets[target])
        /\ expanded' = call.targets[target].hosts
        /\ UNCHANGED <<call, target, seen, hosts>>
    BY <1>2, <1>c DEF AdmitTarget, Progress
  <2>3. Elems(expanded) = {}
    BY <2>2 DEF Elems
  <2>4. ASSUME NEW k \in 1 .. Len(call.targets), Reached(k)'
        PROVE  /\ Admissible(call, call.targets[k])
               /\ Elems(call.targets[k].hosts) \subseteq seen \union Elems(expanded')
    <3>1. CASE k = target
      BY <2>2, <3>1
    <3>2. CASE k # target
      <4>1. Reached(k)
        BY <2>2, <2>4, <3>2 DEF Reached
      <4>2. QED
        BY <2>2, <2>3, <4>1 DEF Progress
    <3>3. QED
      BY <3>1, <3>2
  <2>5. Progress'
    BY <2>2, <2>4, <1>c DEF Progress, Budget
  <2>6. QED
    BY <1>2, <2>1, <2>5 DEF AdmitTarget
<1>3. CASE RejectTarget
  <2>1. target \in 1 .. Len(call.targets)
    BY <1>3, <1>c DEF RejectTarget
  <2>2. ~ Acceptable(call)
    BY <1>3, <2>1 DEF RejectTarget, Acceptable
  <2>3. QED
    BY <1>3, <2>2 DEF RejectTarget
<1>4. CASE AddHost
  <2> DEFINE h == Head(expanded)
  <2>1. /\ h \in Address
        /\ expanded' \in Seq(Address)
        /\ Elems(expanded) = {h} \union Elems(expanded')
    BY <1>4, ElemsTail DEF AddHost
  <2>2. /\ hosts' \in Seq(Address)
        /\ seen' = Elems(hosts')
        /\ Distinct(hosts')
        /\ seen' = seen \union {h}
    <3>1. CASE h \in seen
      BY <1>4, <3>1 DEF AddHost
    <3>2. CASE h \notin seen
      <4>1. hosts' = Append(hosts, h) /\ seen' = seen \union {h}
        BY <1>4, <3>2 DEF AddHost
      <4>2. QED
        BY <2>1, <3>2, <4>1, ElemsAppend, DistinctAppend
    <3>3. QED
      BY <3>1, <3>2
  <2>3. ASSUME pc' = "host" PROVE Progress'
    <3>1. Len(hosts') <= Budget.max_hosts
      BY <1>4, <1>c, <2>2, <2>3 DEF AddHost, BudgetTable
    <3>2. seen \union Elems(expanded) = seen' \union Elems(expanded')
      BY <2>1, <2>2
    <3>4. /\ pc = "host" /\ Progress
          /\ UNCHANGED <<call, target>>
      BY <1>4 DEF AddHost
    <3>5. \A k \in 1 .. Len(call.targets) : Reached(k)' <=> Reached(k)
      BY <2>3, <3>4 DEF Reached
    <3>6. QED
      BY <2>1, <2>3, <3>1, <3>2, <3>4, <3>5 DEF Progress, Budget
  <2>4. seen' \in SUBSET Address
    BY <2>1, <2>2
  <2>5. pc' \in {"host", "refused"}
    BY <1>4 DEF AddHost
  <2>6. Bookkeeping'
    <3>0. pc = "host" /\ Progress
      BY <1>4 DEF AddHost
    <3>1. target \in 1 .. Len(call.targets) /\ h \in Elems(call.targets[target].hosts)
      <4>1. target \in 1 .. Len(call.targets)
        BY <1>c, <3>0 DEF Progress
      <4>2. h \in Elems(expanded)
        BY <2>1
      <4>3. Elems(expanded) \subseteq Elems(call.targets[target].hosts)
        BY <3>0 DEF Progress
      <4>4. QED
        BY <4>1, <4>2, <4>3
    <3>2. Admissible(call, call.targets[target])
      BY <1>4, <3>1 DEF AddHost, Progress, Reached
    <3>3. UNCHANGED call
      BY <1>4 DEF AddHost
    <3>4. QED
      BY <2>2, <3>1, <3>2, <3>3
  <2>7. ASSUME pc' = "refused" PROVE ~ Acceptable(call)
    <3>1. Len(hosts') > Budget.max_hosts
      BY <1>4, <2>7 DEF AddHost
    <3>2. Elems(hosts') \subseteq ManifestHosts(call)
      BY <1>4, <2>6, SeenInManifest DEF AddHost, ManifestHosts
    <3>3. Cardinality(Elems(hosts')) = Len(hosts')
      BY <2>2, DistinctCardinality
    <3>4. Len(hosts') <= Cardinality(ManifestHosts(call))
      BY <3>2, <3>3, ManifestHostsFinite, FS_Subset
    <3>5. QED
      BY <1>c, <2>2, <3>1, <3>4, ManifestHostsFinite DEF Acceptable, Budget, BudgetTable
  <2>8. UNCHANGED <<call, target>>
    BY <1>4 DEF AddHost
  <2>9. QED
    BY <2>1, <2>2, <2>3, <2>4, <2>5, <2>6, <2>7, <2>8
<1>5. CASE NextTarget
  <2>1. Progress'
    BY <1>5, <1>c DEF NextTarget, Progress, Reached, Budget
  <2>2. QED
    BY <1>5, <2>1 DEF NextTarget
<1>6. CASE ConcludeScope
  <2>0. /\ Elems(hosts) = ManifestHosts(call)
        /\ \A k \in 1 .. Len(call.targets) : Admissible(call, call.targets[k])
    <3>2. \A k \in 1 .. Len(call.targets) :
            /\ Admissible(call, call.targets[k])
            /\ Elems(call.targets[k].hosts) \subseteq seen
      <4>1. Elems(expanded) = {}
        BY <1>6 DEF ConcludeScope, Progress, Elems
      <4>2. QED
        BY <1>6, <1>c, <4>1 DEF ConcludeScope, Progress, Reached
    <3>3. QED
      BY <3>2, SeenInManifest DEF ManifestHosts
  <2>1. ASSUME pc' = "scoped" PROVE ExactGrant(call, hosts)'
    <3>1. /\ hosts # << >>
          /\ Len(hosts) * Len(call.ports) <= Budget.max_total_connections
      BY <1>6, <1>c, <2>1 DEF ConcludeScope, OverConnections, BudgetTable
    <3>2. QED
      BY <1>6, <2>0, <3>1 DEF ConcludeScope, Progress, ExactGrant, Budget
  <2>2. ASSUME pc' = "refused" PROVE ~ Acceptable(call)
    <3>1. Cardinality(ManifestHosts(call)) = Len(hosts)
      BY <2>0, DistinctCardinality
    <3>2. CASE hosts = << >>
      BY <1>c, <3>1, <3>2 DEF Acceptable
    <3>3. CASE OverConnections
      BY <1>c, <3>1, <3>3 DEF Acceptable, OverConnections, Budget, BudgetTable
    <3>4. QED
      BY <1>6, <2>2, <3>2, <3>3 DEF ConcludeScope
  <2>3. QED
    BY <1>6, <2>1, <2>2 DEF ConcludeScope
<1>7. QED
  BY <1>1, <1>2, <1>3, <1>4, <1>5, <1>6 DEF ScopeNext

----------------------------------------------------------------------------
(* The theorems.                                                           *)

(* The invariant holds of every behavior of resolve_scope.                 *)
THEOREM ScopeInvariant == ScopeSpec => []ScopeInv
<1>1. ScopeInv /\ [ScopeNext \/ ScopeDecided]_scopeVars => ScopeInv'
  <2>1. ScopeInv /\ UNCHANGED scopeVars => ScopeInv'
    BY DEF ScopeInv, ScopeTypeOK, ScopeDataOK, Bookkeeping, Progress, Reached,
           ExactGrant, Budget, scopeVars
  <2>2. QED
    BY <2>1, ScopeStepInv DEF ScopeDecided
<1>2. QED
  BY <1>1, ScopeInitInv, PTL DEF ScopeSpec

(* Every variable of resolve_scope keeps its type.                         *)
THEOREM ScopeTypeCorrect == ScopeSpec => []ScopeTypeOK
<1>1. ScopeInv => ScopeTypeOK
  BY DEF ScopeInv
<1>2. QED
  BY <1>1, ScopeInvariant, PTL

(* Whatever the manifest, no host is ever listed that does not come from   *)
(* an admissible target (agent: no range; public: only under a policy).    *)
THEOREM ScopeIsAuthorised == ScopeSpec => []ScopeAuthorised
<1>1. ScopeInv => ScopeAuthorised
  BY DEF ScopeInv, Bookkeeping, ScopeAuthorised, Elems
<1>2. QED
  BY <1>1, ScopeInvariant, PTL

(* A granted scope is exactly the manifest's hosts, without repetition and *)
(* within the budgets.                                                     *)
THEOREM ScopeIsExact == ScopeSpec => []ScopeExact
<1>1. ScopeInv => ScopeExact
  BY DEF ScopeInv, ExactGrant, ScopeExact, Distinct, Budget
<1>2. QED
  BY <1>1, ScopeInvariant, PTL

(* An exact grant is only ever given to an acceptable call.                *)
LEMMA GrantIsAcceptable ==
  ASSUME NEW c \in Call, NEW list \in Seq(Address), ExactGrant(c, list)
  PROVE  Acceptable(c)
<1>1. Cardinality(ManifestHosts(c)) = Len(list) /\ Len(list) \in Nat \ {0}
  BY DistinctCardinality DEF ExactGrant
<1>2. QED
  BY <1>1, CallFacts DEF ExactGrant, Acceptable, BudgetTable

(* The decision of resolve_scope is the order-free one.                    *)
THEOREM ScopeDecidesRightly == ScopeSpec => []ScopeDecision
<1>1. ScopeInv => ScopeDecision
  BY GrantIsAcceptable DEF ScopeInv, ScopeTypeOK, ScopeDataOK, ScopeDecision
<1>2. QED
  BY <1>1, ScopeInvariant, PTL

----------------------------------------------------------------------------
(* The inductive invariant: what each gate that was passed established,    *)
(* and, while the loop runs, the exact scope it runs over.                 *)

EarlyGates == {"arguments", "read", "policy", "parse", "expiry", "verify"}
Resolving  == {"ports", "target", "host", "scoped"}
InProbe    == {"connect", "get", "endless", "pause"}
Reporting  == {"json", "sarif", "exit"}

PassedGates ==
  /\ pc \in {"read", "policy", "parse", "expiry", "verify"} => call.complete
  /\ pc \in {"policy", "parse", "expiry", "verify"} => call.readable
  /\ pc \in {"parse", "expiry", "verify"} => call.policyOk
  /\ pc \in {"expiry", "verify"} => call.wellFormed
  /\ pc = "verify" => call.expires_at > 0
  /\ pc \in EarlyGates \ {"verify"} => clock = 0
  /\ pc \in Resolving \union Probing =>
       /\ call.complete /\ call.readable /\ call.policyOk /\ call.wellFormed
       /\ call.expires_at > 0 /\ call.signed

ScopeReady ==
  /\ pc \in EarlyGates =>
       target = 1 /\ hosts = << >> /\ expanded = << >> /\ seen = {}
  /\ pc \in Resolving => ScopeInv
  /\ pc \in Probing => ExactGrant(call, hosts) /\ ~ call.dryRun

(* Nothing has been sent or written while the run is being decided.        *)
Untouched ==
  pc \in EarlyGates \union Resolving \union {"denied", "refused"} =>
    /\ host = 1 /\ port = 1 /\ connections = 0
    /\ probed = << >> /\ servers = << >> /\ results = << >> /\ written = {}
    /\ sockets = 0 /\ exit = -1

Indices ==
  /\ pc \in Probing => port \in 1 .. Len(call.ports)
  /\ pc \in Probing \ {"loop"} => host \in 1 .. Len(hosts)

IInv ==
  /\ TypeOK
  /\ PassedGates
  /\ ScopeReady
  /\ Indices
  /\ Untouched
  /\ NoPacketWithoutAuthority

----------------------------------------------------------------------------
(* The endpoint under the loop indices is an endpoint of the grant.        *)
LEMMA CurrentFacts ==
  ASSUME IInv, pc \in Probing, pc = "loop" => host <= Len(hosts)
  PROVE  /\ Current \in Endpoint
         /\ Current \in Mandate(call)
<1>1. /\ host \in 1 .. Len(hosts)
      /\ port \in 1 .. Len(call.ports)
      /\ call \in Call /\ hosts \in Seq(Address)
      /\ Budget \in BudgetTable /\ call.ports \in Seq(Port)
      /\ ExactGrant(call, hosts) /\ ~ call.dryRun
      /\ call.complete /\ call.readable /\ call.policyOk /\ call.wellFormed
      /\ call.expires_at > 0 /\ call.signed
  BY CallFacts DEF IInv, TypeOK, ScopeDataOK, Indices, ScopeReady, PassedGates,
                   InProbe, Probing, Budget
<1>2. hosts[host] \in Address /\ call.ports[port] \in Port
  BY <1>1
<1>3. hosts[host] \in ManifestHosts(call) /\ call.ports[port] \in Elems(call.ports)
  BY <1>1 DEF ExactGrant, Elems
<1>4. Authorised(call)
  BY <1>1, GrantIsAcceptable DEF Authorised
<1>5. QED
  BY <1>1, <1>2, <1>3, <1>4 DEF Current, Endpoint, Mandate

(* A process starts with nothing decided and nothing sent.                 *)
LEMMA InitInv == Init => IInv
<1> SUFFICES ASSUME Init PROVE IInv
  OBVIOUS
<1>1. TypeOK
  <2>1. /\ call \in Call /\ pc \in PcValues
        /\ target = 1 /\ expanded = << >> /\ seen = {} /\ hosts = << >>
        /\ clock = 0 /\ started = 0 /\ host = 1 /\ port = 1 /\ path = 1
        /\ connections = 0 /\ results = << >> /\ servers = << >>
        /\ aborted = FALSE /\ written = {} /\ exit = -1 /\ probed = << >> /\ sockets = 0
        /\ committed = 0
    BY DEF Init, PcValues
  <2>2. DOMAIN results = {}
    BY <2>1
  <2>3. path \in 1 .. McpPaths
    BY <2>1, RunAssumption
  <2>4. ScopeDataOK /\ probed \in Seq(Endpoint) /\ servers \in Seq(Endpoint)
    BY <2>1 DEF ScopeDataOK
  <2>5. exit \in {-1, 0, 1, 2, 130} /\ written \subseteq {"json", "sarif"}
    BY <2>1
  <2>6. /\ DOMAIN results \subseteq Endpoint
        /\ \A e \in DOMAIN results : results[e] \in [reachable : BOOLEAN, mcp : BOOLEAN]
    BY <2>2
  <2>7. /\ pc \in PcValues
        /\ clock \in Nat /\ started \in Nat
        /\ host \in Nat \ {0} /\ port \in Nat \ {0}
        /\ connections \in Nat /\ sockets \in Nat /\ committed \in Nat
    BY <2>1
  <2>8. aborted \in BOOLEAN
    BY <2>1
  <2>9. QED
    BY <2>3, <2>4, <2>5, <2>6, <2>7, <2>8 DEF TypeOK
<1>2. PassedGates /\ ScopeReady /\ Indices /\ Untouched /\ NoPacketWithoutAuthority
  BY DEF Init, PassedGates, ScopeReady, Indices, Untouched, NoPacketWithoutAuthority,
         EarlyGates, Resolving, Probing, InProbe
<1>3. QED
  BY <1>1, <1>2 DEF IInv

(* A gate that passes adds its fact; one that fails only refuses.          *)
LEMMA GateSteps ==
  ASSUME IInv,
         \/ CheckArguments \/ ReadManifest \/ LoadPolicy \/ LoadManifest
         \/ CheckExpiry \/ VerifyManifest
  PROVE  IInv'
<1> USE DEF IInv
<1>0. call \in Call /\ call.expires_at \in Nat
  BY RunAssumption DEF TypeOK, ScopeDataOK
<1>1. CASE CheckArguments \/ ReadManifest \/ LoadPolicy \/ LoadManifest \/ CheckExpiry
  <2>1. /\ UNCHANGED <<scopeData, runVars>>
        /\ pc \in EarlyGates \ {"verify"}
        /\ pc' \in (EarlyGates \ {"arguments"}) \union {"denied"}
    BY <1>1 DEF CheckArguments, ReadManifest, LoadPolicy, LoadManifest, CheckExpiry,
                Gate, EarlyGates
  <2>2. TypeOK'
    BY <2>1 DEF TypeOK, ScopeDataOK, PcValues, EarlyGates, scopeData, runVars,
                loopVars, history
  <2>3. PassedGates'
    BY <1>0, <1>1, <2>1
       DEF PassedGates, CheckArguments, ReadManifest, LoadPolicy, LoadManifest,
           CheckExpiry, Gate, EarlyGates, Resolving, Probing, scopeData, runVars
  <2>4. (ScopeReady /\ Indices /\ Untouched)'
    BY <2>1 DEF ScopeReady, Indices, Untouched, EarlyGates, Resolving, Probing, InProbe,
                scopeData, runVars, loopVars, history
  <2>5. NoPacketWithoutAuthority'
    BY <2>1 DEF NoPacketWithoutAuthority, scopeData, runVars, history
  <2>6. QED
    BY <2>2, <2>3, <2>4, <2>5
<1>2. CASE VerifyManifest
  <2>1. /\ UNCHANGED <<scopeData, loopVars, path, aborted, written, exit, history>>
        /\ pc = "verify"
        /\ pc' = "denied" \/ (call.signed /\ pc' = "ports")
        /\ clock' \in Nat
    BY <1>2, RunAssumption DEF VerifyManifest, TypeOK
  <2>2. TypeOK'
    BY <2>1 DEF TypeOK, ScopeDataOK, PcValues, scopeData, loopVars, history
  <2>3. PassedGates'
    BY <2>1 DEF PassedGates, EarlyGates, Resolving, Probing, scopeData
  <2>4. (ScopeReady /\ Indices)'
    <3>1. CASE pc' = "denied"
      BY <2>1, <3>1 DEF ScopeReady, Indices, EarlyGates, Resolving, Probing, InProbe
    <3>2. CASE pc' = "ports"
      <4>1. ScopeInit'
        BY <2>1, <3>2 DEF ScopeReady, EarlyGates, ScopeInit, TypeOK, ScopeDataOK, scopeData
      <4>2. ScopeInv'
        BY <4>1, ScopeInitInv, PTL
      <4>3. QED
        BY <3>2, <4>2 DEF ScopeReady, Indices, EarlyGates, Resolving, Probing, InProbe
    <3>3. QED
      BY <2>1, <3>1, <3>2
  <2>5. (Untouched /\ NoPacketWithoutAuthority)'
    BY <2>1 DEF NoPacketWithoutAuthority, Untouched, EarlyGates, scopeData, loopVars, history
  <2>6. QED
    BY <2>2, <2>3, <2>4, <2>5
<1>3. QED
  BY <1>1, <1>2

(* Scope resolution keeps its own invariant and touches nothing else.      *)
LEMMA ResolveStep == ASSUME IInv, ResolveScope PROVE IInv'
<1> USE DEF IInv
<1>1. /\ pc \in {"ports", "target", "host"}
      /\ pc' \in {"target", "host", "scoped", "refused"}
      /\ UNCHANGED call /\ UNCHANGED runVars
  BY DEF ResolveScope, ScopeNext, CheckPorts, AdmitTarget, RejectTarget, AddHost,
         NextTarget, ConcludeScope
<1>2. ScopeInv'
  BY <1>1, ScopeStepInv DEF ScopeReady, Resolving, ResolveScope
<1>3. TypeOK'
  BY <1>1, <1>2 DEF TypeOK, ScopeInv, ScopeTypeOK, PcValues, runVars, loopVars, history
<1>4. PassedGates'
  BY <1>1 DEF PassedGates, EarlyGates, Resolving, Probing
<1>5. (ScopeReady /\ Indices)'
  BY <1>1, <1>2 DEF ScopeReady, Indices, EarlyGates, Resolving, Probing, InProbe
<1>6. (Untouched /\ NoPacketWithoutAuthority)'
  BY <1>1 DEF NoPacketWithoutAuthority, Untouched, Resolving, runVars, loopVars, history
<1>7. QED
  BY <1>3, <1>4, <1>5, <1>6

(* Starting the loop: the scope just granted is the one it runs over.      *)
LEMMA StartStep == ASSUME IInv, StartLoop PROVE IInv'
<1> USE DEF IInv
<1>1. /\ pc = "scoped" /\ pc' = "loop" /\ ~ call.dryRun
      /\ started' = clock
      /\ UNCHANGED <<scopeData, clock, host, port, connections, results, servers,
                     path, aborted, written, exit, history>>
  BY DEF StartLoop
<1>2. TypeOK'
  BY <1>1 DEF TypeOK, ScopeDataOK, PcValues, Probing, scopeData, history
<1>3. PassedGates'
  BY <1>1 DEF PassedGates, EarlyGates, Resolving, Probing, scopeData
<1>4. ScopeReady'
  BY <1>1 DEF ScopeReady, ScopeInv, EarlyGates, Resolving, Probing, scopeData
<1>5. Indices'
  <2>1. Len(call.ports) \in Nat \ {0}
    BY <1>1, RunAssumption, CallFacts DEF TypeOK, ScopeDataOK, PassedGates, Resolving
  <2>2. QED
    BY <1>1, <2>1 DEF Indices, Untouched, Resolving, InProbe, scopeData
<1>6. (Untouched /\ NoPacketWithoutAuthority)'
  BY <1>1 DEF NoPacketWithoutAuthority, Untouched, EarlyGates, Resolving, history, scopeData
<1>7. QED
  BY <1>2, <1>3, <1>4, <1>5, <1>6

(* Reading the abort switch and the counter changes neither.               *)
LEMMA PollStep == ASSUME IInv, PollAbort PROVE IInv'
<1> USE DEF IInv
<1>1. /\ pc = "loop" /\ pc' = "polled" /\ host <= Len(hosts)
      /\ UNCHANGED <<scopeData, runVars>>
  BY DEF PollAbort
<1>2. TypeOK'
  BY <1>1 DEF TypeOK, ScopeDataOK, PcValues, Probing, scopeData, runVars, loopVars, history
<1>3. (PassedGates /\ ScopeReady)'
  BY <1>1 DEF PassedGates, ScopeReady, EarlyGates, Resolving, Probing, scopeData, runVars
<1>4. Indices'
  BY <1>1 DEF Indices, Probing, scopeData, runVars, loopVars, TypeOK, ScopeDataOK
<1>5. (Untouched /\ NoPacketWithoutAuthority)'
  BY <1>1 DEF Untouched, EarlyGates, Resolving, NoPacketWithoutAuthority, scopeData,
              runVars, history
<1>6. QED
  BY <1>2, <1>3, <1>4, <1>5

(* A probe begins at an endpoint of the grant.                             *)
LEMMA BeginStep == ASSUME IInv, BeginProbe PROVE IInv'
<1> USE DEF IInv
<1>1. /\ pc = "polled" /\ pc' = "connect"
      /\ probed' = Append(probed, Current) /\ sockets' = sockets + 1
      /\ UNCHANGED <<scopeData, clock, loopVars, path, aborted, written, exit, committed>>
  BY DEF BeginProbe
<1>2. Current \in Endpoint /\ Current \in Mandate(call)
  BY <1>1, CurrentFacts DEF Probing
<1>3. probed' \in Seq(Endpoint)
  BY <1>1, <1>2 DEF TypeOK
<1>4. TypeOK'
  BY <1>1, <1>3 DEF TypeOK, ScopeDataOK, PcValues, Probing, scopeData, loopVars
<1>5. PassedGates'
  BY <1>1 DEF PassedGates, EarlyGates, Resolving, Probing, scopeData
<1>6. ScopeReady'
  BY <1>1 DEF ScopeReady, EarlyGates, Resolving, Probing, scopeData
<1>7. Indices'
  BY <1>1 DEF Indices, Probing, InProbe, scopeData, loopVars, TypeOK, ScopeDataOK
<1>8. NoPacketWithoutAuthority'
  <2>1. probed \in Seq(Endpoint) /\ call' = call
    BY <1>1 DEF TypeOK, scopeData
  <2>2. \A i \in 1 .. Len(probed') : probed'[i] \in Mandate(call)
    <3>1. ASSUME NEW i \in 1 .. Len(probed') PROVE probed'[i] \in Mandate(call)
      <4>1. CASE i \in 1 .. Len(probed)
        <5>1. probed'[i] = probed[i]
          BY <1>1, <1>2, <2>1, <4>1
        <5>2. QED
          BY <4>1, <5>1 DEF NoPacketWithoutAuthority
      <4>2. CASE i \notin 1 .. Len(probed)
        <5>1. probed'[i] = Current
          BY <1>1, <1>2, <2>1, <3>1, <4>2
        <5>2. QED
          BY <1>2, <5>1
      <4>3. QED
        BY <4>1, <4>2
    <3>2. QED
      BY <3>1
  <2>3. QED
    BY <2>1, <2>2 DEF NoPacketWithoutAuthority
<1>9. Untouched'
  BY <1>1 DEF Untouched, EarlyGates, Resolving
<1>10. QED
  BY <1>4, <1>5, <1>6, <1>7, <1>8, <1>9

(* Within a probe only its own bookkeeping moves.                          *)
LEMMA ProbeStep ==
  ASSUME IInv, Connect \/ HttpAnswer \/ GetFails \/ AnswerTrickles \/ AnswerNeverEnds
  PROVE  IInv'
<1> USE DEF IInv
<1>1. /\ pc \in InProbe /\ pc' \in InProbe
      /\ clock' \in Nat
      /\ UNCHANGED <<scopeData, host, port, started, probed, aborted, written, exit,
                     committed>>
  <2>1. clock \in Nat /\ Timeout \in Nat
    BY RunAssumption DEF TypeOK
  <2>2. clock' \in Nat
    <3>1. \/ clock' \in clock .. clock + Timeout
          \/ clock' \in clock .. clock + 2 * Timeout
          \/ clock' \in clock + 1 .. clock + Timeout
          \/ clock' = clock
      BY Zenon DEF Connect, HttpAnswer, GetFails, AnswerTrickles, AnswerNeverEnds, runVars
    <3>2. QED
      BY <2>1, <3>1, SMT
  <2>3. CASE Connect
    BY <2>2, <2>3 DEF Connect, Record, Request, InProbe, loopVars, history
  <2>4. CASE HttpAnswer
    BY <2>2, <2>4 DEF HttpAnswer, Record, InProbe, history
  <2>5. CASE GetFails
    BY <2>2, <2>5 DEF GetFails, Record, Request, InProbe, loopVars, history
  <2>6. CASE AnswerTrickles
    BY <2>2, <2>6 DEF AnswerTrickles, InProbe, scopeVars, scopeData, loopVars, history
  <2>7. CASE AnswerNeverEnds
    BY <2>2, <2>7 DEF AnswerNeverEnds, InProbe, runVars, loopVars, history
  <2>8. QED
    BY <2>3, <2>4, <2>5, <2>6, <2>7
<1>2. /\ path' \in 1 .. McpPaths
      /\ connections' \in Nat /\ sockets' \in Nat
  <2>1. /\ path \in 1 .. McpPaths /\ McpPaths \in Nat \ {0}
        /\ connections \in Nat /\ sockets \in Nat
    BY RunAssumption DEF TypeOK
  <2>2. CASE Connect
    BY <2>1, <2>2 DEF Connect, Record, Request, loopVars, history
  <2>3. CASE HttpAnswer
    BY <2>1, <2>3 DEF HttpAnswer, Record, history
  <2>4. CASE GetFails
    <3>1. CASE path < McpPaths
      BY <2>1, <2>4, <3>1 DEF GetFails, Request, loopVars
    <3>2. CASE ~ (path < McpPaths)
      BY <2>1, <2>4, <3>2 DEF GetFails, Record, history
    <3>3. QED
      BY <3>1, <3>2
  <2>5. CASE AnswerTrickles
    BY <2>1, <2>5 DEF AnswerTrickles, loopVars, history
  <2>6. CASE AnswerNeverEnds
    BY <2>1, <2>6 DEF AnswerNeverEnds, runVars, loopVars, history
  <2>7. QED
    BY <2>2, <2>3, <2>4, <2>5, <2>6
<1>3. /\ DOMAIN results' \subseteq Endpoint
      /\ \A e \in DOMAIN results' : results'[e] \in [reachable : BOOLEAN, mcp : BOOLEAN]
      /\ servers' \in Seq(Endpoint)
  <2>1. CASE UNCHANGED <<results, servers>>
    BY <2>1 DEF TypeOK
  <2>2. ASSUME NEW r \in BOOLEAN, NEW m \in BOOLEAN, Record(r, m)
        PROVE  /\ DOMAIN results' \subseteq Endpoint
               /\ \A e \in DOMAIN results' :
                    results'[e] \in [reachable : BOOLEAN, mcp : BOOLEAN]
               /\ servers' \in Seq(Endpoint)
    <3>1. Current \in Endpoint
      BY <1>1, CurrentFacts DEF InProbe, Probing
    <3>2. results' = [e \in DOMAIN results \union {Current} |->
                        IF e = Current THEN [reachable |-> r, mcp |-> m] ELSE results[e]]
      BY <2>2 DEF Record
    <3>3. servers' = Append(servers, Current) \/ servers' = servers
      BY <2>2 DEF Record
    <3>4. servers' \in Seq(Endpoint)
      BY <3>1, <3>3 DEF TypeOK
    <3>5. DOMAIN results' = DOMAIN results \union {Current}
      BY <3>2
    <3>6. ASSUME NEW e \in DOMAIN results'
          PROVE  results'[e] \in [reachable : BOOLEAN, mcp : BOOLEAN]
      BY <3>2, <3>5, <3>6 DEF TypeOK
    <3>7. QED
      BY <3>1, <3>4, <3>5, <3>6 DEF TypeOK
  <2>3. \/ Record(FALSE, FALSE) \/ Record(TRUE, TRUE) \/ Record(TRUE, FALSE)
        \/ UNCHANGED <<results, servers>>
    BY DEF Connect, HttpAnswer, GetFails, AnswerTrickles, AnswerNeverEnds, Request,
           runVars, loopVars
  <2>4. QED
    BY <2>1, <2>2, <2>3
<1>4. TypeOK'
  BY <1>1, <1>2, <1>3 DEF TypeOK, ScopeDataOK, PcValues, Probing, InProbe, scopeData
<1>5. PassedGates'
  BY <1>1 DEF PassedGates, EarlyGates, Resolving, Probing, InProbe, scopeData
<1>6. ScopeReady'
  BY <1>1 DEF ScopeReady, EarlyGates, Resolving, Probing, InProbe, scopeData
<1>7. Indices'
  BY <1>1 DEF Indices, Probing, InProbe, scopeData
<1>8. (Untouched /\ NoPacketWithoutAuthority)'
  BY <1>1 DEF Untouched, EarlyGates, Resolving, InProbe, NoPacketWithoutAuthority, scopeData
<1>9. QED
  BY <1>4, <1>5, <1>6, <1>7, <1>8

(* The pause moves the loop indices on and nothing else but the clock.     *)
LEMMA PauseStep == ASSUME IInv, Pause PROVE IInv'
<1> USE DEF IInv
<1>1. /\ pc = "pause" /\ pc' = "loop"
      /\ clock' = clock + Budget.cooldown
      /\ UNCHANGED <<scopeData, started, connections, results, servers, path,
                     aborted, written, exit, history>>
  BY DEF Pause
<1>2. /\ host' \in Nat \ {0}
      /\ port' \in 1 .. Len(call.ports)
  <2>1. /\ host \in Nat \ {0} /\ port \in Nat \ {0} /\ call \in Call
        /\ port \in 1 .. Len(call.ports)
    BY <1>1 DEF TypeOK, ScopeDataOK, Indices, Probing
  <2>2. Len(call.ports) \in Nat
    BY <2>1, CallFacts
  <2>3. QED
    BY <2>1, <2>2 DEF Pause
<1>3. clock' \in Nat
  <2>1. call \in Call /\ clock \in Nat
    BY DEF TypeOK, ScopeDataOK
  <2>2. Budget \in BudgetTable
    BY <2>1, CallFacts DEF Budget
  <2>3. Budget.cooldown \in Nat
    BY <2>2 DEF BudgetTable
  <2>4. QED
    BY <1>1, <2>1, <2>3
<1>4. TypeOK'
  BY <1>1, <1>2, <1>3 DEF TypeOK, ScopeDataOK, PcValues, Probing, scopeData, history
<1>5. PassedGates'
  BY <1>1 DEF PassedGates, EarlyGates, Resolving, Probing, scopeData
<1>6. ScopeReady'
  BY <1>1 DEF ScopeReady, EarlyGates, Resolving, Probing, scopeData
<1>7. Indices'
  BY <1>1, <1>2 DEF Indices, InProbe, scopeData
<1>8. (Untouched /\ NoPacketWithoutAuthority)'
  BY <1>1 DEF Untouched, EarlyGates, Resolving, NoPacketWithoutAuthority, scopeData, history
<1>9. QED
  BY <1>4, <1>5, <1>6, <1>7, <1>8

(* Refusing, previewing, leaving the loop, reporting and dying send        *)
(* nothing.                                                                *)
LEMMA ClosingStep ==
  ASSUME IInv,
         \/ Refuse \/ Preview \/ LeaveLoop \/ EmitJson \/ EmitSarif \/ Exit \/ Interrupt
  PROVE  IInv'
<1> USE DEF IInv
<1>1. /\ pc' \in Reporting \union Ended
      /\ UNCHANGED <<scopeData, clock, loopVars, path, aborted, history>>
      /\ written' \subseteq {"json", "sarif"}
      /\ exit' \in {-1, 0, 1, 2, 130}
  BY DEF Refuse, Preview, LeaveLoop, EmitJson, EmitSarif, Emit, Exit, Interrupt,
         Reporting, Ended, TypeOK, runVars
<1>2. TypeOK'
  BY <1>1 DEF TypeOK, ScopeDataOK, PcValues, Probing, Reporting, scopeData, loopVars, history
<1>3. (PassedGates /\ ScopeReady /\ Indices /\ Untouched)'
  BY <1>1 DEF PassedGates, ScopeReady, Indices, Untouched, EarlyGates, Resolving,
              Probing, InProbe, Reporting, Ended
<1>4. NoPacketWithoutAuthority'
  BY <1>1 DEF NoPacketWithoutAuthority, scopeData, history
<1>5. QED
  BY <1>2, <1>3, <1>4

(* The abort switch is only a flag until the loop reads it.                *)
LEMMA AbortStep == ASSUME IInv, Abort PROVE IInv'
<1> USE DEF IInv
<1>1. /\ aborted' = TRUE
      /\ UNCHANGED <<scopeVars, clock, loopVars, path, written, exit, probed, sockets>>
      /\ committed' \in Nat
  BY DEF Abort, TypeOK
<1>2. aborted' \in BOOLEAN
  BY <1>1
<1>3. TypeOK'
  BY <1>1, <1>2 DEF TypeOK, ScopeDataOK, scopeVars, loopVars, history
<1>4. (PassedGates /\ Indices /\ Untouched /\ NoPacketWithoutAuthority)'
  BY <1>1 DEF PassedGates, Indices, Untouched, NoPacketWithoutAuthority,
              scopeVars, loopVars, history
<1>5. ScopeReady'
  BY <1>1 DEF ScopeReady, ScopeInv, ScopeTypeOK, ScopeDataOK, Bookkeeping, Progress,
              Reached, Budget, scopeVars
<1>6. QED
  BY <1>3, <1>4, <1>5

(* Nothing happens: nothing changes.                                       *)
LEMMA StutterStep == ASSUME IInv, UNCHANGED vars PROVE IInv'
<1> USE DEF IInv, vars, scopeVars, runVars, loopVars, history
<1>1. TypeOK'
  BY DEF TypeOK, ScopeDataOK
<1>2. (PassedGates /\ Indices /\ Untouched /\ NoPacketWithoutAuthority)'
  BY DEF PassedGates, Indices, Untouched, NoPacketWithoutAuthority
<1>3. ScopeReady'
  BY DEF ScopeReady, ScopeInv, ScopeTypeOK, ScopeDataOK, Bookkeeping, Progress,
         Reached, Budget
<1>4. QED
  BY <1>1, <1>2, <1>3

(* Every step of a run keeps the invariant.                                *)
LEMMA StepInv == IInv /\ [Next]_vars => IInv'
<1> SUFFICES ASSUME IInv, [Next]_vars PROVE IInv'
  OBVIOUS
<1>1. CASE CheckArguments \/ ReadManifest \/ LoadPolicy \/ LoadManifest
           \/ CheckExpiry \/ VerifyManifest
  BY <1>1, GateSteps
<1>2. CASE ResolveScope
  BY <1>2, ResolveStep
<1>3. CASE StartLoop
  BY <1>3, StartStep
<1>4. CASE PollAbort \/ BeginProbe
  BY <1>4, PollStep, BeginStep
<1>5. CASE Connect \/ HttpAnswer \/ GetFails \/ AnswerTrickles \/ AnswerNeverEnds
  BY <1>5, ProbeStep
<1>6. CASE Pause
  BY <1>6, PauseStep
<1>7. CASE Refuse \/ Preview \/ LeaveLoop \/ EmitJson \/ EmitSarif \/ Exit \/ Interrupt
  BY <1>7, ClosingStep
<1>8. CASE Abort
  BY <1>8, AbortStep
<1>9. CASE UNCHANGED vars
  BY <1>9, StutterStep
<1>10. QED
  BY <1>1, <1>2, <1>3, <1>4, <1>5, <1>6, <1>7, <1>8, <1>9 DEF Next, Program, Answer, Terminated

----------------------------------------------------------------------------
(* The theorems.                                                           *)

(* The invariant holds of every run.                                       *)
THEOREM RunInvariant == Spec => []IInv
BY InitInv, StepInv, PTL DEF Spec

(* Every variable of a run keeps its type.                                 *)
THEOREM RunTypeCorrect == Spec => []TypeOK
<1>1. IInv => TypeOK
  BY DEF IInv
<1>2. QED
  BY <1>1, RunInvariant, PTL

(* Whatever the manifest, the policy, the verifier, the remote hosts and   *)
(* the clock do, a packet leaves only for an endpoint of a signed,         *)
(* unexpired manifest whose scope is acceptable, and never on a dry run.   *)
THEOREM AuthorityBeforePackets == Spec => []NoPacketWithoutAuthority
<1>1. IInv => NoPacketWithoutAuthority
  BY DEF IInv
<1>2. QED
  BY <1>1, RunInvariant, PTL

(* A probe that the abort did not find begun is one it found polled for.   *)
AbortInv ==
  /\ AbortHalts
  /\ aborted /\ pc = "polled" => Len(probed) + 1 <= committed

(* The switch, once on, keeps the loop from polling for another probe.     *)
LEMMA AbortKept == IInv /\ AbortInv /\ [Next]_vars => AbortInv'
<1> SUFFICES ASSUME IInv, AbortInv, [Next]_vars PROVE AbortInv'
  OBVIOUS
<1>1. probed \in Seq(Endpoint) /\ Len(probed) \in Nat /\ committed \in Nat
  BY DEF IInv, TypeOK
<1>2. CASE PollAbort
  <2>1. ~ aborted /\ aborted' = aborted
    BY <1>2 DEF PollAbort, OverBudget, runVars
  <2>2. QED
    BY <2>1 DEF AbortInv, AbortHalts
<1>3. CASE BeginProbe
  <2>1. /\ pc = "polled" /\ pc' = "connect"
        /\ aborted' = aborted /\ committed' = committed
        /\ probed' = Append(probed, Current)
    BY <1>3 DEF BeginProbe
  <2>2. Current \in Endpoint
    BY <2>1, CurrentFacts DEF Probing
  <2>3. Len(probed') = Len(probed) + 1
    BY <1>1, <2>1, <2>2
  <2>4. QED
    BY <1>1, <2>1, <2>3 DEF AbortInv, AbortHalts
<1>4. CASE Abort
  <2>1. /\ pc' = pc /\ probed' = probed
        /\ committed' = Len(probed) + IF pc = "polled" THEN 1 ELSE 0
    BY <1>4 DEF Abort, scopeVars
  <2>2. QED
    BY <1>1, <2>1 DEF AbortInv, AbortHalts
<1>5. ASSUME UNCHANGED <<aborted, probed, committed>>, pc' # "polled" \/ pc' = pc
      PROVE  AbortInv'
  BY <1>5 DEF AbortInv, AbortHalts
<1>6. CASE \/ CheckArguments \/ ReadManifest \/ LoadPolicy \/ LoadManifest
           \/ CheckExpiry \/ VerifyManifest
  BY <1>5, <1>6 DEF CheckArguments, ReadManifest, LoadPolicy, LoadManifest, CheckExpiry,
                    Gate, VerifyManifest, runVars, history
<1>7. CASE ResolveScope
  BY <1>5, <1>7 DEF ResolveScope, ScopeNext, CheckPorts, AdmitTarget, RejectTarget, AddHost,
                    NextTarget, ConcludeScope, runVars, history
<1>8. CASE Connect \/ HttpAnswer \/ GetFails \/ AnswerTrickles \/ AnswerNeverEnds
  BY <1>5, <1>8 DEF Connect, HttpAnswer, GetFails, AnswerTrickles, AnswerNeverEnds, Record,
                    Request, runVars, scopeVars, history
<1>9. CASE StartLoop \/ Pause \/ Refuse \/ Preview \/ LeaveLoop
  BY <1>5, <1>9 DEF StartLoop, Pause, Refuse, Preview, LeaveLoop, runVars, history
<1>10. CASE EmitJson \/ EmitSarif \/ Exit \/ Interrupt
  BY <1>5, <1>10 DEF EmitJson, EmitSarif, Emit, Exit, Interrupt, history
<1>11. CASE UNCHANGED vars
  BY <1>5, <1>11 DEF vars, scopeVars, runVars, history
<1>12. QED
  BY <1>2, <1>3, <1>4, <1>6, <1>7, <1>8, <1>9, <1>10, <1>11
     DEF Next, Program, Answer, Terminated

(* A caller that aborts is obeyed: no probe begins afterwards but the one, *)
(* if any, for which the loop had already read the switch.                 *)
THEOREM AbortIsObeyed == Spec => []AbortHalts
<1>1. Init => AbortInv
  BY DEF Init, AbortInv, AbortHalts
<1>2. AbortInv => AbortHalts
  BY DEF AbortInv
<1>3. QED
  BY <1>1, <1>2, AbortKept, RunInvariant, PTL DEF Spec

----------------------------------------------------------------------------
(* What the process spends and what its exit status says: the account of   *)
(* probes, connections and time that the loop keeps, and the agreement of  *)
(* status, findings and reports; and, of a manifest that names no port     *)
(* twice, that the process keeps what LanEngagement promises and that its  *)
(* findings and its results tell the same story.                           *)

Stations == (1 + McpPaths)
Deadline == started + Budget.max_runtime
Calm     == Later(Deadline, Horizon)

(* A probe in progress is not yet counted; the others are.                 *)
TrafficInv ==
  /\ Len(probed) <= Budget.max_total_connections
  /\ sockets <= Stations * Len(probed)
  /\ pc \in {"loop", "polled", "pause"} => Len(probed) = connections
  /\ pc = "polled" => connections < Budget.max_total_connections
  /\ pc \in {"connect", "get"} =>
       Len(probed) = connections + 1
  /\ pc = "connect" => sockets <= Stations * connections + 1
  /\ pc = "get" => sockets <= Stations * connections + 1 + path

(* Every finished probe but the one that still has to pause has cost a     *)
(* cooldown.                                                               *)
PaceInv ==
  /\ pc \in {"loop", "polled", "connect", "get"} \/ (pc = "json" /\ ~ call.dryRun) =>
       clock - started >= connections * Budget.cooldown
  /\ pc = "pause" =>
       clock - started >= (connections - 1) * Budget.cooldown /\ connections > 0

(* Whatever is late is late by what the probe in progress may still take.  *)
TimeInv ==
  /\ pc = "verify" => clock = 0
  /\ pc \in Resolving => clock < call.expires_at + VerifyTimeout
  /\ pc \in Probing \/ (pc = "json" /\ ~ call.dryRun) =>
       started < call.expires_at + VerifyTimeout
  /\ pc = "connect" => clock <= Deadline
  /\ pc = "get" => clock <= Calm + Timeout * (2 * path - 1)
  /\ pc = "pause" => clock <= Calm + ProbeLimit
  /\ pc \in {"loop", "polled"} \/ (pc = "json" /\ ~ call.dryRun) =>
       clock <= Calm + ProbeLimit + Budget.cooldown

(* What was seen is found, and what was wanted is written.                 *)
OutcomeInv ==
  /\ \A e \in DOMAIN results : results[e].mcp => e \in Elems(servers)
  /\ pc \in {"sarif", "exit"} /\ call.json => "json" \in written
  /\ pc = "exit" /\ call.sarif => "sarif" \in written
  /\ StatusTellsOutcome

(* The pairs behind the loop indices have been probed, and counted.        *)
Visited(i, j) ==
  \/ i < host
  \/ i = host /\ (j < port \/ (j = port /\ pc \in InProbe))

CoverInv ==
  /\ pc \in Probing =>
       /\ host <= Len(hosts) + 1
       /\ connections = (host - 1) * Len(call.ports) + (port - 1)
                          + (IF pc = "pause" THEN 1 ELSE 0)
       /\ \A i \in 1 .. Len(hosts), j \in 1 .. Len(call.ports) :
            Visited(i, j) => <<hosts[i], call.ports[j]>> \in Elems(probed)
  /\ CompleteUnlessStopped

AccountInv == TrafficInv /\ PaceInv /\ TimeInv /\ OutcomeInv /\ CoverInv

----------------------------------------------------------------------------
(* One more of a thing costs that thing once more.                         *)
LEMMA OneMore ==
  ASSUME NEW a \in Nat, NEW n \in Nat
  PROVE  /\ a * n \in Nat
         /\ a * (n + 1) = a * n + a
         /\ (n + 1) * a = n * a + a
         /\ n * a \in Nat
OBVIOUS

(* What the types say of the numbers of a run.                             *)
LEMMA NumberFacts ==
  ASSUME TypeOK
  PROVE  /\ Budget.max_total_connections \in Nat /\ Budget.max_runtime \in Nat
         /\ Budget.cooldown \in Nat
         /\ clock \in Nat /\ started \in Nat /\ path \in 1 .. McpPaths
         /\ connections \in Nat /\ sockets \in Nat /\ Len(probed) \in Nat
         /\ Timeout \in Nat /\ VerifyTimeout \in Nat /\ McpPaths \in Nat \ {0}
         /\ Horizon \in Nat /\ Stations \in Nat /\ path + 1 <= Stations
         /\ call.expires_at \in Nat
         /\ \A n \in 1 .. McpPaths : n + 1 <= Stations
<1>1. call \in Call /\ Budget \in BudgetTable
  BY CallFacts DEF TypeOK, ScopeDataOK, Budget
<1>2. /\ Budget.max_total_connections \in Nat /\ Budget.max_runtime \in Nat
      /\ Budget.cooldown \in Nat
  BY <1>1 DEF BudgetTable
<1>3. /\ clock \in Nat /\ started \in Nat /\ path \in 1 .. McpPaths
      /\ connections \in Nat /\ sockets \in Nat /\ probed \in Seq(Endpoint)
  BY DEF TypeOK
<1>4. /\ Timeout \in Nat /\ VerifyTimeout \in Nat /\ McpPaths \in Nat \ {0}
      /\ Horizon \in Nat /\ call.expires_at \in Nat
  BY <1>1, RunAssumption
<1>5. /\ Stations \in Nat /\ path + 1 <= Stations
      /\ \A n \in 1 .. McpPaths : n + 1 <= Stations
  BY <1>3, <1>4 DEF Stations
<1>6. Len(probed) \in Nat
  BY <1>3
<1>7. QED
  BY <1>2, <1>3, <1>4, <1>5, <1>6

(* While a run is being decided there is nothing to account for.           *)
Deciding == pc \in EarlyGates \union Resolving \union {"denied", "refused"}

LEMMA NothingSpentYet ==
  IInv /\ Deciding => TrafficInv /\ PaceInv /\ OutcomeInv /\ CoverInv
<1> SUFFICES ASSUME IInv, Deciding PROVE TrafficInv /\ PaceInv /\ OutcomeInv /\ CoverInv
  OBVIOUS
<1>1. TypeOK /\ Untouched
  BY DEF IInv
<1>2. probed = << >> /\ results = << >> /\ sockets = 0
  BY <1>1 DEF Untouched, Deciding
<1>3. Len(probed) = 0 /\ DOMAIN results = {}
  BY <1>2
<1>4. Stations * 0 = 0 /\ Budget.max_total_connections \in Nat
  BY <1>1, NumberFacts, OneMore
<1>5. pc \notin {"loop", "polled", "connect", "get", "endless", "pause", "json", "sarif",
               "exit", "ended"}
  BY DEF Deciding, EarlyGates, Resolving
<1>6. QED
  BY <1>2, <1>3, <1>4, <1>5
     DEF TrafficInv, PaceInv, OutcomeInv, StatusTellsOutcome, CoverInv, Probing,
         CompleteUnlessStopped

(* The steps after which a run is still being decided.                     *)
LEMMA DecidingSteps ==
  ASSUME \/ CheckArguments \/ ReadManifest \/ LoadPolicy \/ LoadManifest
         \/ CheckExpiry \/ VerifyManifest \/ ResolveScope
  PROVE  Deciding'
BY DEF CheckArguments, ReadManifest, LoadPolicy, LoadManifest, CheckExpiry, Gate,
       VerifyManifest, ResolveScope, ScopeNext, CheckPorts, AdmitTarget, RejectTarget,
       AddHost, NextTarget, ConcludeScope, Deciding, EarlyGates, Resolving

----------------------------------------------------------------------------
(* The account of probes and connections.                                  *)
LEMMA TrafficStep ==
  ASSUME IInv, IInv', TrafficInv, [Next]_vars
  PROVE  TrafficInv'
<1>1. TypeOK
  BY DEF IInv
<1>2. Stations * (connections + 1) = Stations * connections + Stations
  BY <1>1, NumberFacts, OneMore
<1>3. CASE \/ CheckArguments \/ ReadManifest \/ LoadPolicy \/ LoadManifest
           \/ CheckExpiry \/ VerifyManifest \/ ResolveScope
  <2>1. Deciding'
    BY <1>3, DecidingSteps
  <2>2. QED
    BY <2>1, NothingSpentYet, PTL
<1>4. CASE StartLoop
  <2>1. /\ pc = "scoped" /\ pc' = "loop"
        /\ UNCHANGED <<call, connections, probed, sockets>>
    BY <1>4 DEF StartLoop, scopeData, history
  <2>2. probed = << >> /\ connections = 0
    BY <2>1 DEF IInv, Untouched, Resolving
  <2>3. Len(probed) = 0
    BY <2>2
  <2>4. QED
    BY <2>1, <2>2, <2>3 DEF TrafficInv, Budget
<1>5. CASE BeginProbe
  <2>1. /\ pc = "polled" /\ pc' = "connect" /\ connections < Budget.max_total_connections
        /\ probed' = Append(probed, Current) /\ sockets' = sockets + 1
        /\ connections' = connections /\ Budget' = Budget
    BY <1>5 DEF BeginProbe, TrafficInv, loopVars, scopeData, Budget
  <2>2. Len(probed') = Len(probed) + 1
    BY <1>1, <2>1 DEF TypeOK
  <2>3. /\ Stations \in Nat /\ 1 <= Stations /\ sockets \in Nat /\ connections \in Nat
        /\ Budget.max_total_connections \in Nat /\ Stations * connections \in Nat
    BY <1>1, NumberFacts, OneMore, SMTT(30)
  <2>4. QED
    BY <1>2, <2>1, <2>2, <2>3 DEF TrafficInv
<1>6. ASSUME NEW n \in 1 .. McpPaths, Request(n), n = path + 1 \/ (n = 1 /\ pc = "connect"),
             pc \in {"connect", "get"}, UNCHANGED scopeData
      PROVE  TrafficInv'
  <2>1. /\ pc' = "get" /\ path' = n /\ sockets' = sockets + 1
        /\ connections' = connections /\ probed' = probed /\ Budget' = Budget
    BY <1>6 DEF Request, loopVars, scopeData, Budget
  <2>2. QED
    <3>1. /\ Stations \in Nat /\ n + 1 <= Stations /\ sockets \in Nat
          /\ connections \in Nat /\ path \in Nat /\ n \in Nat /\ n >= 1
          /\ Stations * connections \in Nat
      <4>1. /\ Stations \in Nat /\ sockets \in Nat /\ connections \in Nat
            /\ path \in 1 .. McpPaths /\ McpPaths \in Nat \ {0}
        BY <1>1, NumberFacts
      <4>2. n + 1 <= Stations
        BY <1>1, NumberFacts
      <4>3. Stations * connections \in Nat
        BY <4>1, OneMore
      <4>4. path \in Nat /\ n \in Nat /\ n >= 1
        BY <4>1
      <4>5. QED
        BY <4>1, <4>2, <4>3, <4>4
    <3>2. /\ Len(probed) = connections + 1
          /\ sockets <= Stations * connections + n
      BY <1>6, <3>1 DEF TrafficInv
    <3>3. QED
      BY <1>2, <2>1, <3>1, <3>2 DEF TrafficInv
<1>7. ASSUME NEW r, NEW m, Record(r, m), pc \in {"connect", "get"}, UNCHANGED scopeData
      PROVE  TrafficInv'
  <2>1. /\ pc' = "pause" /\ connections' = connections + 1
        /\ UNCHANGED <<probed, sockets, path>> /\ Budget' = Budget
    BY <1>7 DEF Record, history, scopeData, Budget
  <2>2. QED
    BY <1>7, <2>1 DEF TrafficInv
<1>8. CASE Connect \/ HttpAnswer \/ GetFails
  <2>1. /\ pc \in {"connect", "get"} /\ UNCHANGED scopeData
        /\ \/ \E r, m \in BOOLEAN : Record(r, m)
           \/ pc = "connect" /\ Request(1)
           \/ path < McpPaths /\ Request(path + 1)
    BY <1>8 DEF Connect, HttpAnswer, GetFails
  <2>2. 1 \in 1 .. McpPaths /\ (path < McpPaths => path + 1 \in 1 .. McpPaths)
    <3>1. McpPaths \in Nat \ {0} /\ path \in 1 .. McpPaths
      BY <1>1, NumberFacts
    <3>2. QED
      BY <3>1
  <2>3. QED
    BY <1>6, <1>7, <2>1, <2>2
<1>9. CASE Pause
  BY <1>9 DEF Pause, TrafficInv, history, scopeData, Budget
<1>10. CASE AnswerTrickles \/ Abort \/ UNCHANGED vars
  <2>1. UNCHANGED <<pc, call, connections, path, probed, sockets>>
    BY <1>10 DEF AnswerTrickles, Abort, vars, scopeVars, runVars, loopVars, history
  <2>2. QED
    BY <2>1 DEF TrafficInv, Budget
<1>11. CASE Preview \/ LeaveLoop \/ AnswerNeverEnds \/ EmitJson \/ EmitSarif \/ Exit \/ Refuse \/ Interrupt
  <2>1. /\ pc' \notin {"loop", "polled", "pause", "connect", "get"}
        /\ UNCHANGED <<call, probed, sockets>>
    BY <1>11 DEF Preview, LeaveLoop, AnswerNeverEnds, EmitJson, EmitSarif, Emit, Exit, Refuse, Interrupt,
       scopeData, runVars, history
  <2>2. QED
    BY <2>1 DEF TrafficInv, Budget
<1>12. CASE PollAbort
  <2>1. /\ pc = "loop" /\ pc' = "polled"
        /\ ~ (connections >= Budget.max_total_connections)
        /\ UNCHANGED <<call, connections, probed, sockets>> /\ Budget' = Budget
    BY <1>12 DEF PollAbort, OverBudget, scopeData, runVars, loopVars, history, Budget
  <2>2. connections \in Nat /\ Budget.max_total_connections \in Nat
    BY <1>1, NumberFacts
  <2>3. QED
    BY <2>1, <2>2 DEF TrafficInv
<1>13. QED
  BY <1>3, <1>4, <1>5, <1>8, <1>9, <1>10, <1>11, <1>12 DEF Next, Program, Answer, Terminated

----------------------------------------------------------------------------
(* The account of time.                                                    *)

(* What a wait is, and what it can lead to.                                *)
LEMMA WaitFacts ==
  ASSUME TypeOK, Connect \/ HttpAnswer \/ GetFails
  PROVE  /\ UNCHANGED <<call, started>> /\ Budget' = Budget
         /\ clock' \in Nat /\ clock <= clock'
         /\ \/ pc = "connect" /\ clock' <= clock + Timeout
            \/ pc = "get" /\ clock' <= clock + 2 * Timeout
         /\ \/ pc' = "pause" /\ connections' = connections + 1
            \/ /\ pc' = "get" /\ connections' = connections
               /\ \/ pc = "connect" /\ path' = 1
                  \/ pc = "get" /\ path < McpPaths /\ path' = path + 1
<1>1. clock \in Nat /\ Timeout \in Nat
  BY NumberFacts
<1>2. CASE Connect
  BY <1>1, <1>2 DEF Connect, Record, Request, loopVars, scopeData, Budget
<1>3. CASE HttpAnswer
  BY <1>1, <1>3 DEF HttpAnswer, Record, scopeData, Budget
<1>4. CASE GetFails
  BY <1>1, <1>4 DEF GetFails, Record, Request, loopVars, scopeData, Budget
<1>5. QED
  BY <1>2, <1>3, <1>4

(* No probe but the current one is still to be paid for.                   *)
LEMMA PaceStep ==
  ASSUME IInv, IInv', PaceInv, [Next]_vars
  PROVE  PaceInv'
<1>1. TypeOK
  BY DEF IInv
<1>2. /\ clock \in Nat /\ started \in Nat /\ connections \in Nat
      /\ Budget.cooldown \in Nat
      /\ 0 * Budget.cooldown = 0
      /\ connections > 0 =>
           connections * Budget.cooldown
             = (connections - 1) * Budget.cooldown + Budget.cooldown
  <2>1. /\ clock \in Nat /\ started \in Nat /\ connections \in Nat
        /\ Budget.cooldown \in Nat
    BY <1>1, NumberFacts
  <2>2. ASSUME connections > 0
        PROVE  connections * Budget.cooldown
                 = (connections - 1) * Budget.cooldown + Budget.cooldown
    <3>1. connections - 1 \in Nat /\ (connections - 1) + 1 = connections
      BY <2>1, <2>2
    <3>2. QED
      BY <2>1, <3>1, OneMore
  <2>3. QED
    BY <2>1, <2>2
<1>3. CASE \/ CheckArguments \/ ReadManifest \/ LoadPolicy \/ LoadManifest
           \/ CheckExpiry \/ VerifyManifest \/ ResolveScope
  <2>1. Deciding'
    BY <1>3, DecidingSteps
  <2>2. QED
    BY <2>1, NothingSpentYet, PTL
<1>4. CASE StartLoop
  <2>1. /\ pc = "scoped" /\ pc' = "loop" /\ started' = clock
        /\ UNCHANGED <<call, clock, connections>>
    BY <1>4 DEF StartLoop, scopeData
  <2>2. connections = 0
    BY <2>1 DEF IInv, Untouched, Resolving
  <2>3. Budget' = Budget
    BY <2>1 DEF Budget
  <2>4. QED
    BY <1>2, <2>1, <2>2, <2>3 DEF PaceInv
<1>5. CASE PollAbort \/ BeginProbe \/ LeaveLoop
  <2>1. /\ pc \in {"loop", "polled"} /\ pc' \in {"polled", "connect", "json"}
        /\ UNCHANGED <<call, clock, started, connections>> /\ Budget' = Budget
    BY <1>5 DEF PollAbort, BeginProbe, LeaveLoop, scopeData, runVars, loopVars, Budget
  <2>2. QED
    BY <2>1 DEF PaceInv
<1>6. CASE Connect \/ HttpAnswer \/ GetFails
  <2>1. /\ Budget' = Budget /\ started' = started
        /\ clock' \in Nat /\ clock <= clock' /\ pc \in {"connect", "get"}
        /\ \/ pc' = "pause" /\ connections' = connections + 1
           \/ pc' = "get" /\ connections' = connections
    BY <1>1, <1>6, WaitFacts
  <2>2. clock - started >= connections * Budget.cooldown
    BY <2>1 DEF PaceInv
  <2>3. clock' - started >= connections * Budget.cooldown
    <3>1. connections * Budget.cooldown \in Nat
      BY <1>2, OneMore
    <3>2. QED
      BY <1>2, <2>1, <2>2, <3>1
  <2>4. connections + 1 > 0 /\ (connections + 1) - 1 = connections
    BY <1>2
  <2>5. QED
    BY <2>1, <2>3, <2>4 DEF PaceInv
<1>7. CASE Pause
  <2>1. /\ pc = "pause" /\ pc' = "loop" /\ clock' = clock + Budget.cooldown
        /\ UNCHANGED <<call, started, connections>> /\ Budget' = Budget
    BY <1>7 DEF Pause, scopeData, Budget
  <2>2. connections > 0 /\ clock - started >= (connections - 1) * Budget.cooldown
    BY <2>1 DEF PaceInv
  <2>3. (connections - 1) * Budget.cooldown \in Nat
    <3>1. connections - 1 \in Nat
      BY <1>2, <2>2
    <3>2. QED
      BY <1>2, <3>1, OneMore
  <2>4. clock' - started >= connections * Budget.cooldown
    BY <1>2, <2>1, <2>2, <2>3
  <2>5. QED
    BY <2>1, <2>4 DEF PaceInv
<1>8. CASE AnswerTrickles
  <2>1. /\ pc = "get" /\ pc' = "get" /\ clock' >= clock /\ clock' \in Nat
        /\ UNCHANGED <<call, started, connections>> /\ Budget' = Budget
    BY <1>1, <1>8, NumberFacts
       DEF AnswerTrickles, scopeVars, loopVars, Budget
  <2>2. connections * Budget.cooldown \in Nat
    BY <1>2, OneMore
  <2>3. QED
    BY <1>2, <2>1, <2>2 DEF PaceInv
<1>9. CASE Abort \/ UNCHANGED vars
  <2>1. UNCHANGED <<pc, call, clock, started, connections>> /\ Budget' = Budget
    BY <1>9 DEF Abort, vars, scopeVars, runVars, loopVars, Budget
  <2>2. QED
    BY <2>1 DEF PaceInv
<1>10. CASE AnswerNeverEnds \/ Preview \/ EmitJson \/ EmitSarif \/ Exit \/ Refuse \/ Interrupt
  <2>1. \/ pc' \notin {"loop", "polled", "pause", "connect", "get", "json"}
        \/ pc' = "json" /\ call'.dryRun
    BY <1>10 DEF AnswerNeverEnds, Preview, EmitJson, EmitSarif, Emit, Exit, Refuse,
                 Interrupt, scopeData
  <2>2. QED
    BY <2>1 DEF PaceInv
<1>11. QED
  BY <1>3, <1>4, <1>5, <1>6, <1>7, <1>8, <1>9, <1>10 DEF Next, Program, Answer, Terminated

(* How long the requests of a probe may take, one after the other.         *)
LEMMA LimitFacts ==
  ASSUME TypeOK
  PROVE  /\ Timeout * (2 * 1 - 1) = Timeout
         /\ ProbeLimit \in Nat /\ Timeout <= ProbeLimit
         /\ \A n \in 1 .. McpPaths :
              /\ Timeout * (2 * n - 1) \in Nat
              /\ Timeout <= Timeout * (2 * n - 1)
              /\ Timeout * (2 * (n + 1) - 1) = Timeout * (2 * n - 1) + 2 * Timeout
              /\ Timeout * (2 * n - 1) + 2 * Timeout <= ProbeLimit
<1>1. Timeout \in Nat /\ McpPaths \in Nat \ {0}
  BY NumberFacts
<1>2. ProbeLimit = Timeout + 2 * (Timeout * McpPaths) /\ Timeout * McpPaths \in Nat
  BY <1>1 DEF ProbeLimit
<1>3. ASSUME NEW n \in 1 .. McpPaths
      PROVE  /\ Timeout * n \in Nat
             /\ Timeout <= Timeout * n
             /\ Timeout * n <= Timeout * McpPaths
             /\ Timeout * (2 * n - 1) = 2 * (Timeout * n) - Timeout
             /\ Timeout * (2 * (n + 1) - 1) = 2 * (Timeout * n) + Timeout
  <2>1. n \in Nat /\ n - 1 \in Nat /\ McpPaths - n \in Nat
    BY <1>1
  <2>2. /\ Timeout * (n - 1) \in Nat /\ Timeout * (McpPaths - n) \in Nat
        /\ Timeout * n \in Nat
    BY <1>1, <2>1, OneMore
  <2>3. /\ Timeout * n = Timeout * (n - 1) + Timeout
        /\ Timeout * McpPaths = Timeout * (McpPaths - n) + Timeout * n
    BY <1>1, <2>1
  <2>4. /\ Timeout <= Timeout * n
        /\ Timeout * n <= Timeout * McpPaths
    BY <1>1, <2>2, <2>3
  <2>5. /\ Timeout * (2 * n - 1) = 2 * (Timeout * n) - Timeout
        /\ Timeout * (2 * (n + 1) - 1) = 2 * (Timeout * n) + Timeout
    BY <1>1, <2>1
  <2>6. QED
    BY <2>2, <2>4, <2>5
<1>4. Timeout * (2 * 1 - 1) = Timeout
  BY <1>1
<1>5. QED
  BY <1>1, <1>2, <1>3, <1>4

(* The calm is after the deadline and after the last piece.                *)
LEMMA CalmFacts ==
  ASSUME TypeOK
  PROVE  /\ Deadline \in Nat /\ Calm \in Nat
         /\ Deadline <= Calm /\ Horizon <= Calm
<1>1. started \in Nat /\ Budget.max_runtime \in Nat /\ Horizon \in Nat
  BY NumberFacts
<1>2. Deadline \in Nat
  BY <1>1 DEF Deadline
<1>3. QED
  BY <1>1, <1>2 DEF Calm, Later

(* The clock never runs further past the deadline than one probe may.      *)
LEMMA TimeStep ==
  ASSUME IInv, IInv', TimeInv, [Next]_vars
  PROVE  TimeInv'
<1>1. TypeOK
  BY DEF IInv
<1>2. /\ clock \in Nat /\ started \in Nat /\ Timeout \in Nat /\ VerifyTimeout \in Nat
      /\ call.expires_at \in Nat /\ Budget.cooldown \in Nat /\ Budget.max_runtime \in Nat
      /\ Calm \in Nat /\ Deadline \in Nat /\ ProbeLimit \in Nat
      /\ Deadline <= Calm /\ Horizon <= Calm /\ Horizon \in Nat
      /\ path \in 1 .. McpPaths /\ McpPaths \in Nat
  BY <1>1, NumberFacts, LimitFacts, CalmFacts
<1>3. CASE CheckArguments \/ ReadManifest \/ LoadPolicy \/ LoadManifest \/ CheckExpiry
  <2>1. /\ pc \in EarlyGates \ {"verify"} /\ clock' = clock
        /\ pc' \in EarlyGates \union {"denied"}
    BY <1>3 DEF CheckArguments, ReadManifest, LoadPolicy, LoadManifest, CheckExpiry, Gate,
                EarlyGates, runVars
  <2>2. clock = 0
    BY <2>1 DEF IInv, PassedGates
  <2>3. QED
    BY <2>1, <2>2 DEF TimeInv, EarlyGates, Resolving, Probing
<1>4. CASE VerifyManifest
  <2>1. /\ pc = "verify" /\ pc' \in {"ports", "denied"} /\ call' = call
        /\ clock' \in clock .. clock + VerifyTimeout
    BY <1>4 DEF VerifyManifest, scopeData
  <2>2. clock = 0 /\ call.expires_at > 0
    BY <2>1 DEF TimeInv, IInv, PassedGates
  <2>3. clock' < call.expires_at + VerifyTimeout
    BY <1>2, <2>1, <2>2
  <2>4. QED
    BY <2>1, <2>3 DEF TimeInv, Probing
<1>5. CASE ResolveScope
  <2>1. /\ pc \in Resolving /\ pc' \in Resolving \union {"refused"}
        /\ UNCHANGED <<call, clock>>
    BY <1>5 DEF ResolveScope, ScopeNext, CheckPorts, AdmitTarget, RejectTarget, AddHost,
                NextTarget, ConcludeScope, Resolving, runVars
  <2>2. QED
    BY <2>1 DEF TimeInv, Resolving, Probing
<1>6. CASE StartLoop
  <2>1. /\ pc = "scoped" /\ pc' = "loop" /\ started' = clock
        /\ UNCHANGED <<call, clock>> /\ Budget' = Budget
    BY <1>6 DEF StartLoop, scopeData, Budget
  <2>2. clock < call.expires_at + VerifyTimeout
    BY <2>1 DEF TimeInv, Resolving
  <2>3. Calm' >= clock /\ Calm' \in Nat
    BY <1>2, <2>1 DEF Calm, Deadline, Later
  <2>4. ProbeLimit' = ProbeLimit
    BY DEF ProbeLimit
  <2>5. clock' <= Calm' + ProbeLimit' + Budget'.cooldown
    BY <1>2, <2>1, <2>3, <2>4
  <2>6. QED
    BY <2>1, <2>2, <2>5 DEF TimeInv, Resolving
<1>7. ASSUME started' = started, Budget' = Budget, call' = call
      PROVE  Calm' = Calm /\ Deadline' = Deadline /\ ProbeLimit' = ProbeLimit
  BY <1>7 DEF Calm, Deadline, Later, ProbeLimit
<1>8. CASE BeginProbe
  <2>1. /\ pc = "polled" /\ pc' = "connect" /\ ~ (clock - started > Budget.max_runtime)
        /\ UNCHANGED <<call, clock, started>> /\ Budget' = Budget
    BY <1>8 DEF BeginProbe, PastDeadline, scopeData, loopVars, Budget
  <2>2. clock <= Deadline
    BY <1>2, <2>1 DEF Deadline
  <2>3. QED
    BY <1>7, <2>1, <2>2 DEF TimeInv, Resolving, Probing
<1>9. CASE Connect \/ HttpAnswer \/ GetFails
  <2>1. /\ UNCHANGED <<call, started>> /\ Budget' = Budget /\ clock' \in Nat
        /\ \/ pc = "connect" /\ clock' <= clock + Timeout
           \/ pc = "get" /\ clock' <= clock + 2 * Timeout
        /\ \/ pc' = "pause"
           \/ /\ pc' = "get"
              /\ \/ pc = "connect" /\ path' = 1
                 \/ pc = "get" /\ path < McpPaths /\ path' = path + 1
    BY <1>1, <1>9, WaitFacts
  <2>2. started < call.expires_at + VerifyTimeout
    BY <2>1 DEF TimeInv, Probing
  <2>3. CASE pc = "connect"
    <3>1. clock' <= Calm + Timeout
      BY <1>2, <2>1, <2>3 DEF TimeInv
    <3>2. Timeout <= ProbeLimit /\ Timeout * (2 * 1 - 1) = Timeout
      BY <1>1, LimitFacts
    <3>3. clock' <= Calm + ProbeLimit
      BY <1>2, <2>1, <3>1, <3>2
    <3>4. pc' = "get" => clock' <= Calm + Timeout * (2 * path' - 1)
      BY <2>1, <2>3, <3>1, <3>2
    <3>5. QED
      BY <1>7, <2>1, <2>2, <3>3, <3>4 DEF TimeInv, Resolving, Probing
  <2>4. CASE pc = "get"
    <3>1. /\ clock <= Calm + Timeout * (2 * path - 1)
          /\ Timeout * (2 * path - 1) \in Nat
          /\ Timeout * (2 * (path + 1) - 1) = Timeout * (2 * path - 1) + 2 * Timeout
          /\ Timeout * (2 * path - 1) + 2 * Timeout <= ProbeLimit
      BY <1>1, <1>2, <2>4, LimitFacts DEF TimeInv
    <3>2. /\ clock' <= Calm + Timeout * (2 * (path + 1) - 1)
          /\ clock' <= Calm + ProbeLimit
      BY <1>2, <2>1, <2>4, <3>1
    <3>3. pc' = "get" => clock' <= Calm + Timeout * (2 * path' - 1)
      BY <2>1, <2>4, <3>2
    <3>4. QED
      BY <1>7, <2>1, <2>2, <3>2, <3>3 DEF TimeInv, Resolving, Probing
  <2>5. QED
    BY <2>1, <2>3, <2>4
<1>10. CASE AnswerTrickles
  <2>1. /\ pc = "get" /\ pc' = "get" /\ clock < Horizon
        /\ clock' \in clock + 1 .. clock + Timeout
        /\ UNCHANGED <<call, started, path>> /\ Budget' = Budget
    BY <1>10 DEF AnswerTrickles, scopeVars, loopVars, Budget
  <2>2. /\ Timeout <= Timeout * (2 * path - 1) /\ Timeout * (2 * path - 1) \in Nat
    BY <1>1, <1>2, LimitFacts
  <2>3. clock' <= Calm + Timeout * (2 * path - 1)
    BY <1>2, <2>1, <2>2
  <2>4. QED
    BY <1>7, <2>1, <2>3 DEF TimeInv, Resolving, Probing
<1>11. CASE Pause
  <2>1. /\ pc = "pause" /\ pc' = "loop" /\ clock' = clock + Budget.cooldown
        /\ UNCHANGED <<call, started>> /\ Budget' = Budget
    BY <1>11 DEF Pause, scopeData, Budget
  <2>2. clock' <= Calm + ProbeLimit + Budget.cooldown
    BY <1>2, <2>1 DEF TimeInv
  <2>3. QED
    BY <1>7, <2>1, <2>2 DEF TimeInv, Resolving, Probing
<1>12. CASE PollAbort \/ LeaveLoop
  <2>1. /\ pc \in {"loop", "polled"} /\ pc' \in {"polled", "json"}
        /\ UNCHANGED <<call, clock, started>> /\ Budget' = Budget
    BY <1>12 DEF PollAbort, LeaveLoop, scopeData, runVars, loopVars, Budget
  <2>2. QED
    BY <1>7, <2>1 DEF TimeInv, Resolving, Probing
<1>13. CASE Abort \/ UNCHANGED vars
  <2>1. UNCHANGED <<pc, call, clock, started, path>> /\ Budget' = Budget
    BY <1>13 DEF Abort, vars, scopeVars, runVars, loopVars, Budget
  <2>2. QED
    BY <1>7, <2>1 DEF TimeInv
<1>14. CASE Preview \/ EmitJson \/ EmitSarif \/ Exit \/ Refuse \/ Interrupt
  <2>1. \/ pc' \notin {"verify", "json"} \union Resolving \union Probing
        \/ pc' = "json" /\ call'.dryRun
    BY <1>14 DEF Preview, EmitJson, EmitSarif, Emit, Exit, Refuse, Interrupt, scopeData,
                 Resolving, Probing
  <2>2. QED
    BY <2>1 DEF TimeInv, Probing, Resolving
<1>15. CASE AnswerNeverEnds
  <2>1. /\ pc = "get" /\ pc' = "endless" /\ UNCHANGED <<call, started>>
    BY <1>15 DEF AnswerNeverEnds, scopeData, runVars, loopVars
  <2>2. QED
    BY <2>1 DEF TimeInv, Resolving, Probing
<1>16. QED
  BY <1>15, <1>3, <1>4, <1>5, <1>6, <1>8, <1>9, <1>10, <1>11, <1>12, <1>13, <1>14
     DEF Next, Program, Answer, Terminated

----------------------------------------------------------------------------
(* The exit status.                                                        *)
LEMMA OutcomeStep ==
  ASSUME IInv, IInv', OutcomeInv, [Next]_vars
  PROVE  OutcomeInv'
<1>1. TypeOK
  BY DEF IInv
<1>2. CASE \/ CheckArguments \/ ReadManifest \/ LoadPolicy \/ LoadManifest
           \/ CheckExpiry \/ VerifyManifest \/ ResolveScope
  <2>1. Deciding'
    BY <1>2, DecidingSteps
  <2>2. QED
    BY <2>1, NothingSpentYet, PTL
<1>3. CASE \/ StartLoop \/ PollAbort \/ BeginProbe \/ Pause \/ AnswerTrickles
           \/ AnswerNeverEnds \/ Abort
           \/ Preview \/ LeaveLoop \/ Interrupt
  <2>1. /\ UNCHANGED <<results, servers>>
        /\ pc' \in Probing \union {"json", "killed"}
    BY <1>3 DEF StartLoop, PollAbort, BeginProbe, Pause, AnswerTrickles, AnswerNeverEnds, Abort, Preview, LeaveLoop,
                Interrupt, loopVars, runVars, scopeVars, Probing
  <2>2. QED
    BY <2>1 DEF OutcomeInv, StatusTellsOutcome, Probing
<1>4. ASSUME NEW r \in BOOLEAN, NEW m \in BOOLEAN, Record(r, m), m => r,
             pc \in {"connect", "get"}
      PROVE  OutcomeInv'
  <2>1. /\ pc' = "pause"
        /\ results' = [e \in DOMAIN results \union {Current} |->
                         IF e = Current THEN [reachable |-> r, mcp |-> m] ELSE results[e]]
        /\ servers' = IF r /\ m THEN Append(servers, Current) ELSE servers
    BY <1>4 DEF Record
  <2>2. Current \in Endpoint /\ servers \in Seq(Endpoint)
    BY <1>1, <1>4, CurrentFacts DEF Probing, TypeOK
  <2>3. Elems(servers') = IF m THEN Elems(servers) \union {Current} ELSE Elems(servers)
    <3>1. CASE m
      BY <1>4, <2>1, <2>2, <3>1, ElemsAppend
    <3>2. CASE ~ m
      BY <2>1, <3>2
    <3>3. QED
      BY <3>1, <3>2
  <2>4. ASSUME NEW e \in DOMAIN results', results'[e].mcp
        PROVE  e \in Elems(servers')
    <3>1. CASE e = Current
      BY <2>1, <2>3, <2>4, <3>1
    <3>2. CASE e # Current
      <4>1. e \in DOMAIN results /\ results[e].mcp
        BY <2>1, <2>4, <3>2
      <4>2. QED
        BY <2>3, <4>1 DEF OutcomeInv
    <3>3. QED
      BY <3>1, <3>2
  <2>5. QED
    BY <2>1, <2>4 DEF OutcomeInv, StatusTellsOutcome
<1>5. CASE Connect \/ HttpAnswer \/ GetFails
  <2>1. CASE UNCHANGED <<results, servers>> /\ pc' = "get"
    BY <2>1 DEF OutcomeInv, StatusTellsOutcome
  <2>2. /\ pc \in {"connect", "get"}
        /\ \/ Record(FALSE, FALSE) \/ Record(TRUE, TRUE) \/ Record(TRUE, FALSE)
           \/ UNCHANGED <<results, servers>> /\ pc' = "get"
    BY <1>5 DEF Connect, HttpAnswer, GetFails, Request, loopVars
  <2>3. QED
    BY <1>4, <2>1, <2>2
<1>6. CASE Refuse
  <2>1. /\ pc' = "ended" /\ exit' = 2 /\ Deciding
        /\ UNCHANGED <<call, results, servers, written, probed>>
    BY <1>6 DEF Refuse, Deciding, scopeData, loopVars, history
  <2>2. probed = << >> /\ written = {}
    BY <2>1 DEF IInv, Untouched, Deciding
  <2>3. QED
    BY <2>1, <2>2 DEF OutcomeInv, StatusTellsOutcome
<1>7. CASE EmitJson
  <2>1. /\ UNCHANGED <<call, results, servers>>
        /\ \/ pc' = "sarif" /\ (call.json => "json" \in written')
           \/ pc' = "crashed"
    BY <1>7 DEF EmitJson, Emit, scopeData, loopVars
  <2>2. QED
    BY <2>1 DEF OutcomeInv, StatusTellsOutcome
<1>8. CASE EmitSarif
  <2>1. /\ UNCHANGED <<call, results, servers>> /\ pc = "sarif"
        /\ \/ /\ pc' = "exit" /\ (call.sarif => "sarif" \in written')
              /\ written \subseteq written'
           \/ pc' = "crashed"
    BY <1>8 DEF EmitSarif, Emit, scopeData, loopVars
  <2>2. QED
    BY <2>1 DEF OutcomeInv, StatusTellsOutcome
<1>9. CASE Exit
  <2>1. /\ UNCHANGED <<call, results, servers, written>> /\ pc = "exit" /\ pc' = "ended"
        /\ exit' = IF servers # << >> /\ call.failOn # "critical" THEN 1 ELSE 0
    BY <1>9 DEF Exit, scopeData, loopVars
  <2>2. /\ call.json => "json" \in written
        /\ call.sarif => "sarif" \in written
    BY <2>1 DEF OutcomeInv
  <2>3. ASSUME exit' = 0, call.failOn # "critical", NEW e \in DOMAIN results
        PROVE  ~ results[e].mcp
    <3>1. servers = << >>
      BY <2>1, <2>3
    <3>2. Elems(servers) = {}
      BY <3>1 DEF Elems
    <3>3. QED
      BY <3>2 DEF OutcomeInv
  <2>4. exit' # 2
    BY <2>1
  <2>5. StatusTellsOutcome'
    BY <2>1, <2>2, <2>3, <2>4 DEF StatusTellsOutcome
  <2>6. QED
    BY <2>1, <2>5 DEF OutcomeInv
<1>10. CASE UNCHANGED vars
  <2>1. UNCHANGED <<pc, call, results, servers, written, probed, exit>>
    BY <1>10 DEF vars, scopeVars, runVars, loopVars, history
  <2>2. QED
    BY <2>1 DEF OutcomeInv, StatusTellsOutcome
<1>11. QED
  BY <1>2, <1>3, <1>5, <1>6, <1>7, <1>8, <1>9, <1>10 DEF Next, Program, Answer, Terminated

----------------------------------------------------------------------------
(* The two nested loops.                                                   *)

(* What the grant and the indices say of the loops.                        *)
LEMMA LoopFacts ==
  ASSUME IInv, pc \in Probing
  PROVE  /\ Len(hosts) \in Nat /\ Len(call.ports) \in Nat
         /\ host \in Nat /\ host >= 1 /\ port \in Nat /\ port \in 1 .. Len(call.ports)
         /\ connections \in Nat /\ Budget.max_total_connections \in Nat
         /\ Elems(hosts) = ManifestHosts(call)
         /\ Len(hosts) * Len(call.ports) <= Budget.max_total_connections
         /\ hosts \in Seq(Address) /\ call.ports \in Seq(Port)
         /\ probed \in Seq(Endpoint)
<1>1. TypeOK /\ ExactGrant(call, hosts) /\ port \in 1 .. Len(call.ports)
  BY DEF IInv, ScopeReady, Indices
<1>2. call \in Call /\ hosts \in Seq(Address)
  BY <1>1 DEF TypeOK, ScopeDataOK
<1>3. Len(call.ports) \in Nat /\ call.ports \in Seq(Port)
  BY <1>2, CallFacts
<1>4. QED
  BY <1>1, <1>2, <1>3, NumberFacts DEF ExactGrant, Budget, TypeOK

(* There is room in the connection budget while there are hosts left.      *)
LEMMA RoomForCurrent ==
  ASSUME IInv, CoverInv, pc \in {"loop", "polled"}, host <= Len(hosts)
  PROVE  connections < Budget.max_total_connections
<1> DEFINE H == Len(hosts)
           P == Len(call.ports)
<1>1. /\ H \in Nat /\ P \in Nat /\ host \in 1 .. H /\ port \in 1 .. P
      /\ connections \in Nat /\ Budget.max_total_connections \in Nat
      /\ H * P <= Budget.max_total_connections
  BY LoopFacts DEF Probing
<1>2. /\ connections = (host - 1) * P + (port - 1) + (IF pc = "pause" THEN 1 ELSE 0)
      /\ pc # "pause"
  BY DEF CoverInv, Probing
<1>3. /\ (host - 1) * P \in Nat
      /\ H * P = (H - host) * P + host * P
      /\ host * P = (host - 1) * P + P
      /\ (H - host) * P \in Nat
  <2> HIDE DEF H, P
  <2>1. host - 1 \in Nat /\ H - host \in Nat /\ host \in Nat
    BY <1>1
  <2>2. (host - 1) * P \in Nat /\ (H - host) * P \in Nat
    BY <1>1, <2>1, OneMore
  <2>3. H * P = (H - host) * P + host * P /\ host * P = (host - 1) * P + P
    BY <1>1, <2>1
  <2>4. QED
    BY <2>2, <2>3
<1> HIDE DEF H, P
<1>4. QED
  BY <1>1, <1>2, <1>3

(* Counting on, to the next port or to the first port of the next host.    *)
LEMMA NextPair ==
  \A size, h, p, c \in Nat :
    h >= 1 /\ p >= 1 /\ c = (h - 1) * size + (p - 1) + 1 =>
      /\ c = (h - 1) * size + ((p + 1) - 1)
      /\ p = size => c = ((h + 1) - 1) * size + (1 - 1)
<1> SUFFICES ASSUME NEW size \in Nat, NEW h \in Nat, h >= 1, NEW p \in Nat, p >= 1,
                    NEW c \in Nat, c = (h - 1) * size + (p - 1) + 1
             PROVE  /\ c = (h - 1) * size + ((p + 1) - 1)
                    /\ p = size => c = ((h + 1) - 1) * size + (1 - 1)
  OBVIOUS
<1>1. h - 1 \in Nat /\ p - 1 \in Nat
  OBVIOUS
<1>2. /\ (h - 1) * size \in Nat
      /\ h * size = (h - 1) * size + size
  BY <1>1, OneMore
<1>3. c = (h - 1) * size + ((p + 1) - 1)
  BY <1>1, <1>2
<1>4. ASSUME p = size PROVE c = ((h + 1) - 1) * size + (1 - 1)
  <2>1. (h + 1) - 1 = h /\ (p - 1) + 1 = size
    BY <1>1, <1>4
  <2>2. c = h * size
    BY <1>1, <1>2, <1>4
  <2>3. h * size \in Nat
    BY OneMore
  <2>4. QED
    BY <2>1, <2>2, <2>3
<1>5. QED
  BY <1>3, <1>4

(* What the loop has passed it has probed, and it passes everything unless *)
(* it is stopped.                                                          *)
LEMMA CoverStep ==
  ASSUME IInv, IInv', CoverInv, [Next]_vars
  PROVE  CoverInv'
<1>1. CASE \/ CheckArguments \/ ReadManifest \/ LoadPolicy \/ LoadManifest
           \/ CheckExpiry \/ VerifyManifest \/ ResolveScope
  <2>1. Deciding'
    BY <1>1, DecidingSteps
  <2>2. QED
    BY <2>1, NothingSpentYet, PTL
<1>2. CASE StartLoop
  <2>1. /\ pc = "scoped" /\ pc' = "loop"
        /\ UNCHANGED <<call, hosts, host, port, connections, probed>>
    BY <1>2 DEF StartLoop, scopeData, history
  <2>2. host = 1 /\ port = 1 /\ connections = 0
    BY <2>1 DEF IInv, Untouched, Resolving
  <2>3. Len(hosts) \in Nat /\ Len(call.ports) \in Nat
    BY CallFacts DEF IInv, TypeOK, ScopeDataOK
  <2>4. 0 * Len(call.ports) = 0
    BY <2>3
  <2>5. \A i \in 1 .. Len(hosts), j \in 1 .. Len(call.ports) : ~ Visited(i, j)'
    BY <2>1, <2>2, <2>3 DEF Visited, InProbe
  <2>6. QED
    BY <2>1, <2>2, <2>3, <2>4, <2>5 DEF CoverInv, CompleteUnlessStopped
<1>3. CASE BeginProbe
  <2>1. /\ pc = "polled" /\ pc' = "connect"
        /\ UNCHANGED <<call, hosts, host, port, connections>>
        /\ probed' = Append(probed, Current)
    BY <1>3 DEF BeginProbe, scopeData, loopVars
  <2>2. Current \in Endpoint /\ probed \in Seq(Endpoint)
    BY <2>1, CurrentFacts, LoopFacts DEF Probing
  <2>3. Elems(probed') = Elems(probed) \union {Current}
    BY <2>1, <2>2, ElemsAppend
  <2>4. ASSUME NEW i \in 1 .. Len(hosts), NEW j \in 1 .. Len(call.ports), Visited(i, j)'
        PROVE  <<hosts[i], call.ports[j]>> \in Elems(probed')
    <3>1. CASE Visited(i, j)
      BY <2>1, <2>3, <3>1 DEF CoverInv, Probing
    <3>2. CASE i = host /\ j = port
      BY <2>3, <3>2 DEF Current
    <3>3. QED
      BY <2>1, <2>4, <3>1, <3>2 DEF Visited
  <2>5. QED
    BY <2>1, <2>4 DEF CoverInv, Probing, CompleteUnlessStopped
<1>4. CASE Connect \/ HttpAnswer \/ GetFails \/ AnswerTrickles \/ AnswerNeverEnds \/ Abort
           \/ PollAbort
  <2>1. /\ UNCHANGED <<call, hosts, host, port, probed>>
        /\ \/ /\ pc \in {"connect", "get"} /\ pc' = "pause"
              /\ connections' = connections + 1
           \/ /\ pc \in {"connect", "get"} /\ pc' \in {"get", "endless"}
              /\ connections' = connections
           \/ /\ pc = "loop" /\ pc' = "polled" /\ connections' = connections
           \/ /\ pc \in Probing /\ pc' = pc /\ connections' = connections
    BY <1>4 DEF Connect, HttpAnswer, GetFails, AnswerTrickles, AnswerNeverEnds, Abort,
                PollAbort, Record, Request, runVars, loopVars, scopeData, scopeVars, history
  <2>2. /\ pc \in Probing /\ pc' \in Probing
        /\ pc \in InProbe <=> pc' \in InProbe
    BY <2>1 DEF InProbe, Probing
  <2>3. \A i \in 1 .. Len(hosts), j \in 1 .. Len(call.ports) :
          Visited(i, j)' <=> Visited(i, j)
    BY <2>1, <2>2 DEF Visited
  <2>4. connections' = (host - 1) * Len(call.ports) + (port - 1)
                         + (IF pc' = "pause" THEN 1 ELSE 0)
    <3>1. /\ connections = (host - 1) * Len(call.ports) + (port - 1)
                              + (IF pc = "pause" THEN 1 ELSE 0)
          /\ host - 1 \in Nat /\ port - 1 \in Nat /\ Len(call.ports) \in Nat
      BY <2>2, LoopFacts, SMTT(30) DEF CoverInv
    <3>2. (host - 1) * Len(call.ports) \in Nat
      BY <3>1, OneMore
    <3>3. QED
      BY <2>1, <3>1, <3>2
  <2>5. QED
    BY <2>1, <2>2, <2>3, <2>4 DEF CoverInv, CompleteUnlessStopped, Probing
<1>5. CASE Pause
  <2>1. /\ pc = "pause" /\ pc' = "loop"
        /\ UNCHANGED <<call, hosts, connections, probed>>
        /\ \/ port < Len(call.ports) /\ port' = port + 1 /\ host' = host
           \/ ~ (port < Len(call.ports)) /\ port' = 1 /\ host' = host + 1
    BY <1>5 DEF Pause, scopeData, history
  <2>2. /\ Len(hosts) \in Nat /\ Len(call.ports) \in Nat /\ host \in 1 .. Len(hosts)
        /\ port \in 1 .. Len(call.ports) /\ connections \in Nat
    BY <2>1, LoopFacts DEF Probing, IInv, Indices
  <2>3. connections = (host - 1) * Len(call.ports) + (port - 1) + 1
    BY <2>1 DEF CoverInv, Probing
  <2>4. /\ connections = (host - 1) * Len(call.ports) + ((port + 1) - 1)
        /\ port = Len(call.ports) =>
             connections = ((host + 1) - 1) * Len(call.ports) + (1 - 1)
    <3>1. /\ host \in Nat /\ host >= 1 /\ port \in Nat /\ port >= 1
          /\ Len(call.ports) \in Nat /\ connections \in Nat
      BY <2>2
    <3> DEFINE L == Len(call.ports)
    <3>2. L \in Nat /\ connections = (host - 1) * L + (port - 1) + 1
      BY <2>3, <3>1
    <3>3. /\ connections = (host - 1) * L + ((port + 1) - 1)
          /\ port = L => connections = ((host + 1) - 1) * L + (1 - 1)
      <4> HIDE DEF L
      <4>1. QED
        BY <3>1, <3>2, NextPair
    <3>4. QED
      BY <3>3
  <2>5. /\ host' <= Len(hosts) + 1
        /\ connections = (host' - 1) * Len(call.ports) + (port' - 1)
    <3>1. CASE port < Len(call.ports)
      <4>1. host' = host /\ port' = port + 1
        BY <2>1, <3>1
      <4>2. host' <= Len(hosts) + 1
        BY <2>2, <4>1
      <4>3. QED
        BY <2>4, <4>1, <4>2
    <3>2. CASE ~ (port < Len(call.ports))
      <4>1. host' = host + 1 /\ port' = 1 /\ port = Len(call.ports)
        BY <2>1, <2>2, <3>2
      <4>2. host' <= Len(hosts) + 1
        BY <2>2, <4>1
      <4>3. QED
        BY <2>4, <4>1, <4>2
    <3>3. QED
      BY <3>1, <3>2
  <2>6. \A i \in 1 .. Len(hosts), j \in 1 .. Len(call.ports) :
          Visited(i, j)' => Visited(i, j)
    BY <2>1, <2>2 DEF Visited, InProbe
  <2>7. \A i \in 1 .. Len(hosts), j \in 1 .. Len(call.ports) :
          Visited(i, j)' => <<hosts[i], call.ports[j]>> \in Elems(probed)
    BY <2>1, <2>6 DEF CoverInv, Probing
  <2>8. CompleteUnlessStopped'
    BY <2>1 DEF CompleteUnlessStopped
  <2>9. connections' = (host' - 1) * Len(call'.ports) + (port' - 1)
                          + (IF pc' = "pause" THEN 1 ELSE 0)
    <3>1. connections' = (host' - 1) * Len(call.ports) + (port' - 1)
      BY <2>1, <2>5
    <3>2. connections' \in Nat
      BY <2>1, <2>2
    <3>3. QED
      BY <2>1, <3>1, <3>2
  <2>10. QED
    BY <2>1, <2>5, <2>7, <2>8, <2>9 DEF CoverInv
<1>6. CASE LeaveLoop
  <2>1. /\ pc \in {"loop", "polled"} /\ pc' = "json"
        /\ UNCHANGED <<call, hosts, host, clock, started, aborted, probed>>
        /\ \/ pc = "loop" /\ host > Len(hosts)
           \/ host <= Len(hosts) /\ OverBudget
           \/ pc = "polled" /\ PastDeadline
    BY <1>6 DEF LeaveLoop, scopeData, runVars, loopVars, history
  <2>2. PastDeadline' <=> PastDeadline
    BY <2>1 DEF PastDeadline, Budget
  <2>3. CASE host > Len(hosts)
    <3>1. /\ Elems(hosts) = ManifestHosts(call) /\ Len(hosts) \in Nat /\ host \in Nat
      BY <2>1, LoopFacts DEF Probing
    <3>2. \A i \in 1 .. Len(hosts), j \in 1 .. Len(call.ports) :
            <<hosts[i], call.ports[j]>> \in Elems(probed)
      <4>1. \A i \in 1 .. Len(hosts) : i < host
        BY <2>3, <3>1
      <4>2. pc \in Probing
        BY <2>1 DEF Probing
      <4>3. QED
        BY <4>1, <4>2 DEF CoverInv, Visited
    <3>3. ManifestHosts(call) \X Elems(call.ports) \subseteq Elems(probed)
      <4> SUFFICES ASSUME NEW h \in ManifestHosts(call), NEW q \in Elems(call.ports)
                   PROVE  <<h, q>> \in Elems(probed)
        OBVIOUS
      <4>1. PICK i \in 1 .. Len(hosts) : h = hosts[i]
        BY <3>1 DEF Elems
      <4>2. PICK j \in 1 .. Len(call.ports) : q = call.ports[j]
        BY DEF Elems
      <4>3. QED
        BY <3>2, <4>1, <4>2
    <3>4. Elems(probed) \subseteq ManifestHosts(call) \X Elems(call.ports)
      BY DEF IInv, NoPacketWithoutAuthority, Mandate, Elems
    <3>5. Elems(probed) = ManifestHosts(call) \X Elems(call.ports)
      BY <3>3, <3>4
    <3>6. QED
      BY <2>1, <3>5 DEF CoverInv, CompleteUnlessStopped, Probing
  <2>4. CASE host <= Len(hosts)
    <3>1. ~ (connections >= Budget.max_total_connections)
      <4>1. connections < Budget.max_total_connections
        BY <2>1, <2>4, RoomForCurrent
      <4>2. connections \in Nat /\ Budget.max_total_connections \in Nat
        BY <2>1, LoopFacts DEF Probing
      <4>3. QED
        BY <4>1, <4>2
    <3>2. host \in Nat /\ Len(hosts) \in Nat
      BY <2>1, LoopFacts DEF Probing
    <3>3. aborted \/ PastDeadline
      BY <2>1, <2>4, <3>1, <3>2 DEF OverBudget
    <3>4. (aborted \/ PastDeadline)'
      BY <2>1, <2>2, <3>3
    <3>5. CompleteUnlessStopped'
      BY <3>4 DEF CompleteUnlessStopped
    <3>6. QED
      BY <2>1, <3>5 DEF CoverInv, Probing
  <2>5. host \in Nat /\ Len(hosts) \in Nat
    BY <2>1, LoopFacts DEF Probing
  <2>6. QED
    BY <2>3, <2>4, <2>5
<1>7. CASE Preview \/ EmitJson \/ EmitSarif \/ Exit \/ Refuse \/ Interrupt
  <2>1. \/ pc' \notin {"json"} \union Probing
        \/ pc' = "json" /\ call'.dryRun
    BY <1>7 DEF Preview, EmitJson, EmitSarif, Emit, Exit, Refuse, Interrupt, scopeData,
                Probing
  <2>2. QED
    BY <2>1 DEF CoverInv, CompleteUnlessStopped, Probing
<1>8. CASE UNCHANGED vars
  <2>1. UNCHANGED <<pc, call, hosts, host, port, connections, probed, aborted, clock, started>>
    BY <1>8 DEF vars, scopeVars, runVars, loopVars, history
  <2>2. QED
    BY <2>1 DEF CoverInv, CompleteUnlessStopped, Visited, PastDeadline, Budget
<1>9. QED
  BY <1>1, <1>2, <1>3, <1>4, <1>5, <1>6, <1>7, <1>8 DEF Next, Program, Answer, Terminated

----------------------------------------------------------------------------
(* The theorems.                                                           *)

(* The account is kept by every run.                                       *)
THEOREM AccountIsKept == Spec => []AccountInv
<1>1. Init => AccountInv
  <2> SUFFICES ASSUME Init PROVE AccountInv
    OBVIOUS
  <2>1. IInv /\ Deciding /\ pc = "arguments"
    BY InitInv DEF Init, Deciding, EarlyGates
  <2>2. TimeInv
    BY <2>1 DEF TimeInv, Resolving, Probing
  <2>3. QED
    BY <2>1, <2>2, NothingSpentYet DEF AccountInv
<1>2. IInv /\ IInv' /\ AccountInv /\ [Next]_vars => AccountInv'
  BY TrafficStep, PaceStep, TimeStep, OutcomeStep, CoverStep DEF AccountInv
<1>3. QED
  BY <1>1, <1>2, RunInvariant, PTL DEF Spec

(* For any budget and any remote hosts, the probes of a run stay within    *)
(* the connection budget, each costs a bounded number of connections, and  *)
(* the cooldown is paid for every one of them (run_lan).                   *)
THEOREM TrafficIsBounded == Spec => []PacedAndBounded
<1>1. AccountInv => PacedAndBounded
  BY DEF AccountInv, TrafficInv, PaceInv, PacedAndBounded, Stations
<1>2. QED
  BY <1>1, AccountIsKept, PTL

(* Once the last answer has stopped trickling in, a run is over its        *)
(* deadline by at most one probe and one pause, and it did not begin later *)
(* after the expiry than the verifier may take (run_lan, verify_manifest). *)
THEOREM DeadlineIsHard == Spec => []HardDeadline
<1>1. IInv /\ AccountInv => HardDeadline
  <2> SUFFICES ASSUME IInv, AccountInv, pc \in (Probing \ {"endless"}) \union {"json"},
                      ~ call.dryRun
               PROVE  /\ clock <= Calm + ProbeLimit + Budget.cooldown
                      /\ started < call.expires_at + VerifyTimeout
    BY DEF HardDeadline, Calm, Deadline
  <2>1. TypeOK /\ TimeInv
    BY DEF IInv, AccountInv
  <2>2. started < call.expires_at + VerifyTimeout
    BY <2>1 DEF TimeInv
  <2>3. /\ clock \in Nat /\ Budget.cooldown \in Nat /\ path \in 1 .. McpPaths
        /\ Timeout \in Nat /\ ProbeLimit \in Nat
        /\ Calm \in Nat /\ Deadline \in Nat /\ Deadline <= Calm
    BY <2>1, NumberFacts, LimitFacts, CalmFacts
  <2>4. CASE pc \in {"loop", "polled", "json"}
    BY <2>1, <2>2, <2>4 DEF TimeInv
  <2>5. CASE pc \in {"connect", "pause"}
    BY <2>1, <2>2, <2>3, <2>5 DEF TimeInv
  <2>6. CASE pc = "get"
    <3>1. /\ clock <= Calm + Timeout * (2 * path - 1)
          /\ Timeout * (2 * path - 1) \in Nat
          /\ Timeout * (2 * path - 1) + 2 * Timeout <= ProbeLimit
      BY <2>1, <2>3, <2>6, LimitFacts DEF TimeInv
    <3>2. QED
      BY <2>2, <2>3, <3>1
  <2>7. QED
    BY <2>4, <2>5, <2>6 DEF Probing
<1>2. QED
  BY <1>1, RunInvariant, AccountIsKept, PTL

(* The exit status is true of every run: a refusal sent and wrote nothing, *)
(* and a run that passes found nothing and wrote what it was asked for     *)
(* (_run_lan).                                                             *)
THEOREM StatusIsTrue == Spec => []StatusTellsOutcome
<1>1. AccountInv => StatusTellsOutcome
  BY DEF AccountInv, OutcomeInv
<1>2. QED
  BY <1>1, AccountIsKept, PTL

(* A run that reports has probed every pair of its manifest, or its caller *)
(* aborted, or its deadline had passed; the connection budget never cuts   *)
(* it short, because the scope was refused if it did not fit (run_lan,     *)
(* resolve_scope).                                                         *)
THEOREM RunIsComplete == Spec => []CompleteUnlessStopped
<1>1. AccountInv => CompleteUnlessStopped
  BY DEF AccountInv, CoverInv
<1>2. QED
  BY <1>1, AccountIsKept, PTL

----------------------------------------------------------------------------
(* Nothing in load_manifest or resolve_scope removes a repeated port, so   *)
(* this is a property of the manifest.                                     *)
NoRepeatedPort == Distinct(call.ports)

(* Every probe is of a pair behind the loop indices, and no two are of     *)
(* the same.                                                               *)
OnceInv ==
  /\ pc \in Probing =>
       \A e \in Elems(probed) :
         \E i \in 1 .. Len(hosts), j \in 1 .. Len(call.ports) :
           Visited(i, j) /\ e = <<hosts[i], call.ports[j]>>
  /\ Distinct(probed)

(* A probe in progress has no result yet; every finished one has.          *)
StoryInv ==
  /\ Distinct(servers)
  /\ Elems(servers) = {e \in DOMAIN results : results[e].mcp}
  /\ pc \in {"connect", "get", "endless"} =>
       Current \in Elems(probed) /\ DOMAIN results = Elems(probed) \ {Current}
  /\ pc \notin {"connect", "get", "endless", "killed"} => DOMAIN results = Elems(probed)

(* The exit status is assigned once.                                       *)
RunningInv == pc \notin Ended => exit = -1

EngagedInv == OnceInv /\ StoryInv /\ RunningInv

----------------------------------------------------------------------------
(* The endpoint under the loop indices has not been probed before.         *)
LEMMA CurrentIsNew ==
  ASSUME NoRepeatedPort, IInv, OnceInv, pc \in {"loop", "polled"},
         host <= Len(hosts)
  PROVE  Current \notin Elems(probed)
<1>1. /\ call \in Call /\ ExactGrant(call, hosts) /\ Distinct(hosts)
  BY DEF IInv, TypeOK, ScopeDataOK, ScopeReady, Probing, ExactGrant
<1>2. Distinct(call.ports)
  BY DEF NoRepeatedPort
<1>3. host \in 1 .. Len(hosts) /\ port \in 1 .. Len(call.ports)
  BY LoopFacts DEF Probing
<1>4. ASSUME NEW i \in 1 .. Len(hosts), NEW j \in 1 .. Len(call.ports), Visited(i, j),
             Current = <<hosts[i], call.ports[j]>>
      PROVE  FALSE
  <2>1. hosts[i] = hosts[host] /\ call.ports[j] = call.ports[port]
    BY <1>4 DEF Current
  <2>2. i = host /\ j = port
    BY <1>1, <1>2, <1>3, <2>1 DEF Distinct
  <2>3. QED
    BY <1>3, <1>4, <2>2 DEF Visited, InProbe
<1>5. QED
  BY <1>4 DEF OnceInv, Probing

(* While a run is being decided nothing has been probed or found.          *)
LEMMA NothingFoundYet ==
  IInv /\ Deciding => EngagedInv
<1> SUFFICES ASSUME IInv, Deciding PROVE EngagedInv
  OBVIOUS
<1>1. probed = << >> /\ results = << >> /\ servers = << >> /\ exit = -1
  BY DEF IInv, Untouched, Deciding
<1>2. Elems(probed) = {} /\ Elems(servers) = {} /\ DOMAIN results = {}
  BY <1>1 DEF Elems
<1>3. Distinct(probed) /\ Distinct(servers)
  BY <1>1 DEF Distinct
<1>4. pc \notin Probing /\ pc \notin {"connect", "get", "endless"}
  BY DEF Deciding, EarlyGates, Resolving, Probing
<1>5. QED
  BY <1>1, <1>2, <1>3, <1>4 DEF EngagedInv, OnceInv, StoryInv, RunningInv

----------------------------------------------------------------------------
(* Nothing assigns the call.                                               *)
LEMMA CallStays == [Next]_vars => call' = call
BY DEF Next, Program, Answer, AnswerNeverEnds, CheckArguments, ReadManifest, LoadPolicy, LoadManifest,
       CheckExpiry, Gate, VerifyManifest, ResolveScope, ScopeNext, CheckPorts,
       AdmitTarget, RejectTarget, AddHost, NextTarget, ConcludeScope, StartLoop,
       PollAbort, BeginProbe, LeaveLoop, Preview, Pause, Connect, HttpAnswer, GetFails,
       AnswerTrickles, Abort, EmitJson, EmitSarif, Emit, Refuse, Exit, Interrupt,
       Terminated, vars, scopeVars, scopeData

(* The loops never come back to an endpoint.                               *)
LEMMA OnceStep ==
  ASSUME NoRepeatedPort, IInv, IInv', OnceInv, [Next]_vars
  PROVE  OnceInv'
<1>1. CASE \/ CheckArguments \/ ReadManifest \/ LoadPolicy \/ LoadManifest
           \/ CheckExpiry \/ VerifyManifest \/ ResolveScope
  <2>1. Deciding'
    BY <1>1, DecidingSteps
  <2>2. EngagedInv'
    BY <2>1, NothingFoundYet, PTL
  <2>3. QED
    BY <2>2 DEF EngagedInv
<1>2. CASE BeginProbe
  <2>1. /\ pc = "polled" /\ pc' = "connect" /\ host <= Len(hosts)
        /\ UNCHANGED <<call, hosts, host, port>>
        /\ probed' = Append(probed, Current)
    BY <1>2 DEF BeginProbe, scopeData, loopVars, IInv, Indices, Probing
  <2>2. /\ Current \in Endpoint /\ probed \in Seq(Endpoint)
        /\ host \in 1 .. Len(hosts) /\ port \in 1 .. Len(call.ports)
    BY <2>1, CurrentFacts, LoopFacts DEF Probing
  <2>3. Elems(probed') = Elems(probed) \union {Current} /\ Distinct(probed')
    BY <2>1, <2>2, CurrentIsNew, ElemsAppend, DistinctAppend DEF OnceInv
  <2>4. \A i \in 1 .. Len(hosts), j \in 1 .. Len(call.ports) :
          Visited(i, j) => Visited(i, j)'
    BY <2>1 DEF Visited, InProbe
  <2>5. Visited(host, port)' /\ Current = <<hosts[host], call.ports[port]>>
    BY <2>1 DEF Visited, InProbe, Current
  <2>6. ASSUME NEW e \in Elems(probed')
        PROVE  \E i \in 1 .. Len(hosts), j \in 1 .. Len(call.ports) :
                 Visited(i, j)' /\ e = <<hosts[i], call.ports[j]>>
    BY <2>1, <2>2, <2>3, <2>4, <2>5, <2>6 DEF OnceInv, Probing
  <2>7. QED
    BY <2>1, <2>3, <2>6 DEF OnceInv
<1>3. CASE Connect \/ HttpAnswer \/ GetFails \/ AnswerTrickles \/ AnswerNeverEnds \/ Abort
           \/ PollAbort
  <2>1. /\ UNCHANGED <<call, hosts, host, port, probed>>
        /\ pc \in Probing /\ pc' \in Probing
        /\ pc \in InProbe <=> pc' \in InProbe
    BY <1>3 DEF Connect, HttpAnswer, GetFails, AnswerTrickles, AnswerNeverEnds, Abort,
                PollAbort, Record, Request, runVars, loopVars, scopeData, scopeVars, history, Probing, InProbe
  <2>2. \A i \in 1 .. Len(hosts), j \in 1 .. Len(call.ports) :
          Visited(i, j)' <=> Visited(i, j)
    BY <2>1 DEF Visited
  <2>3. QED
    BY <2>1, <2>2 DEF OnceInv
<1>4. CASE Pause
  <2>1. /\ pc = "pause" /\ pc' = "loop"
        /\ UNCHANGED <<call, hosts, probed>>
        /\ \/ port < Len(call.ports) /\ port' = port + 1 /\ host' = host
           \/ ~ (port < Len(call.ports)) /\ port' = 1 /\ host' = host + 1
    BY <1>4 DEF Pause, scopeData, history
  <2>2. /\ Len(hosts) \in Nat /\ Len(call.ports) \in Nat
        /\ host \in Nat /\ port \in 1 .. Len(call.ports)
    BY <2>1, LoopFacts DEF Probing
  <2>3. \A i \in 1 .. Len(hosts), j \in 1 .. Len(call.ports) :
          Visited(i, j) => Visited(i, j)'
    BY <2>1, <2>2 DEF Visited, InProbe
  <2>4. QED
    BY <2>1, <2>3 DEF OnceInv, Probing
<1>5. CASE StartLoop
  <2>1. pc = "scoped" /\ probed' = probed
    BY <1>5 DEF StartLoop, history
  <2>2. probed' = << >>
    BY <2>1 DEF IInv, Untouched, Resolving
  <2>3. QED
    BY <2>2 DEF OnceInv, Elems, Distinct
<1>6. CASE Preview \/ LeaveLoop \/ EmitJson \/ EmitSarif \/ Exit \/ Refuse \/ Interrupt
  <2>1. probed' = probed /\ pc' \notin Probing
    BY <1>6 DEF Preview, LeaveLoop, EmitJson, EmitSarif, Emit, Exit, Refuse, Interrupt,
                runVars, history, Probing
  <2>2. QED
    BY <2>1 DEF OnceInv
<1>7. CASE UNCHANGED vars
  <2>1. UNCHANGED <<pc, call, hosts, host, port, probed>>
    BY <1>7 DEF vars, scopeVars, runVars, loopVars, history
  <2>2. QED
    BY <2>1 DEF OnceInv, Visited
<1>8. QED
  BY <1>1, <1>2, <1>3, <1>4, <1>5, <1>6, <1>7 DEF Next, Program, Answer, Terminated

(* A probe that ends leaves one result, and one finding if it is due.      *)
LEMMA RecordStep ==
  ASSUME IInv, OnceInv, StoryInv, pc \in {"connect", "get"}, probed' = probed,
         NEW r \in BOOLEAN, NEW m \in BOOLEAN, m => r, Record(r, m)
  PROVE  StoryInv'
<1>1. /\ pc' = "pause"
      /\ results' = [e \in DOMAIN results \union {Current} |->
                       IF e = Current THEN [reachable |-> r, mcp |-> m] ELSE results[e]]
      /\ servers' = IF m THEN Append(servers, Current) ELSE servers
  BY DEF Record
<1>2. /\ Current \in Endpoint /\ servers \in Seq(Endpoint)
      /\ host \in 1 .. Len(hosts) /\ port \in 1 .. Len(call.ports)
  BY CurrentFacts, LoopFacts DEF IInv, TypeOK, Indices, InProbe, Probing
<1>3. Current \notin DOMAIN results /\ DOMAIN results \union {Current} = Elems(probed)
  <2>1. DOMAIN results = Elems(probed) \ {Current}
    BY DEF StoryInv
  <2>2. Current \in Elems(probed)
    BY DEF StoryInv
  <2>3. QED
    BY <2>1, <2>2
<1>4. Current \notin Elems(servers)
  BY <1>3 DEF StoryInv
<1>5. Distinct(servers') /\ Elems(servers') = Elems(servers) \union (IF m THEN {Current} ELSE {})
  <2>1. CASE m
    BY <1>1, <1>2, <1>4, <2>1, ElemsAppend, DistinctAppend DEF StoryInv
  <2>2. CASE ~ m
    BY <1>1, <2>2 DEF StoryInv
  <2>3. QED
    BY <2>1, <2>2
<1>6. DOMAIN results' = Elems(probed')
  BY <1>1, <1>3
<1>7. Elems(servers') = {e \in DOMAIN results' : results'[e].mcp}
  <2>1. \A e \in DOMAIN results : results'[e] = results[e]
    BY <1>1, <1>3
  <2>2. results'[Current].mcp = m /\ DOMAIN results' = DOMAIN results \union {Current}
    BY <1>1
  <2>3. QED
    BY <1>5, <2>1, <2>2 DEF StoryInv
<1>8. QED
  BY <1>1, <1>5, <1>6, <1>7 DEF StoryInv

(* Findings, results and probes tell one story at every step.              *)
LEMMA StoryStep ==
  ASSUME NoRepeatedPort, IInv, IInv', OnceInv, StoryInv, [Next]_vars
  PROVE  StoryInv'
<1>1. CASE \/ CheckArguments \/ ReadManifest \/ LoadPolicy \/ LoadManifest
           \/ CheckExpiry \/ VerifyManifest \/ ResolveScope
  <2>1. Deciding'
    BY <1>1, DecidingSteps
  <2>2. EngagedInv'
    BY <2>1, NothingFoundYet, PTL
  <2>3. QED
    BY <2>2 DEF EngagedInv
<1>2. CASE BeginProbe
  <2>1. /\ pc = "polled" /\ pc' = "connect" /\ host <= Len(hosts)
        /\ UNCHANGED <<results, servers>> /\ Current' = Current
        /\ probed' = Append(probed, Current)
    BY <1>2 DEF BeginProbe, scopeData, loopVars, Current, IInv, Indices, Probing
  <2>2. Current \in Endpoint /\ probed \in Seq(Endpoint) /\ Current \notin Elems(probed)
    BY <2>1, CurrentFacts, CurrentIsNew, LoopFacts DEF Probing
  <2>3. Elems(probed') = Elems(probed) \union {Current}
    BY <2>1, <2>2, ElemsAppend
  <2>4. DOMAIN results' = Elems(probed') \ {Current}
    BY <2>1, <2>2, <2>3 DEF StoryInv
  <2>5. QED
    BY <2>1, <2>3, <2>4 DEF StoryInv
<1>3. CASE Connect \/ HttpAnswer \/ GetFails \/ AnswerNeverEnds
  <2>1. /\ pc \in {"connect", "get"} /\ probed' = probed
        /\ \/ Record(FALSE, FALSE) \/ Record(TRUE, TRUE) \/ Record(TRUE, FALSE)
           \/ /\ pc' \in {"get", "endless"}
              /\ UNCHANGED <<results, servers, hosts, call, host, port>>
    BY <1>3 DEF Connect, HttpAnswer, GetFails, AnswerNeverEnds, Record, Request, runVars,
                loopVars, history, scopeData
  <2>2. CASE pc' \in {"get", "endless"} /\ UNCHANGED <<results, servers, hosts, call, host, port>>
    <3>1. Current' = Current
      BY <2>2 DEF Current
    <3>2. QED
      BY <2>1, <2>2, <3>1 DEF StoryInv
  <2>3. QED
    BY <2>1, <2>2, RecordStep
<1>4. CASE AnswerTrickles \/ Abort \/ UNCHANGED vars
  <2>1. UNCHANGED <<pc, results, servers, probed, hosts, call, host, port>>
    BY <1>4 DEF AnswerTrickles, Abort, vars, scopeVars, runVars, loopVars, history
  <2>2. Current' = Current
    BY <2>1 DEF Current
  <2>3. QED
    BY <2>1, <2>2 DEF StoryInv
<1>5. CASE \/ StartLoop \/ PollAbort \/ Pause \/ LeaveLoop \/ Preview
           \/ EmitJson \/ EmitSarif \/ Exit \/ Refuse
  <2>1. /\ UNCHANGED <<results, servers, probed>>
        /\ pc \notin {"connect", "get", "endless", "killed"}
        /\ pc' \notin {"connect", "get", "endless", "killed"}
    BY <1>5 DEF StartLoop, PollAbort, Pause, LeaveLoop, Preview, EmitJson, EmitSarif, Emit, Exit,
                Refuse, runVars, loopVars, history
  <2>2. QED
    BY <2>1 DEF StoryInv
<1>6. CASE Interrupt
  <2>1. pc' = "killed" /\ UNCHANGED <<results, servers, probed>>
    BY <1>6 DEF Interrupt, loopVars, history
  <2>2. QED
    BY <2>1 DEF StoryInv
<1>7. QED
  BY <1>1, <1>2, <1>3, <1>4, <1>5, <1>6 DEF Next, Program, Answer, Terminated

(* Only the last step of a process assigns its exit status.                *)
LEMMA RunningStep == ASSUME RunningInv, [Next]_vars PROVE RunningInv'
<1>1. CASE \/ CheckArguments \/ ReadManifest \/ LoadPolicy \/ LoadManifest
           \/ CheckExpiry \/ VerifyManifest \/ ResolveScope
           \/ StartLoop \/ PollAbort \/ BeginProbe \/ LeaveLoop \/ Preview \/ Pause
           \/ Connect \/ HttpAnswer \/ GetFails \/ AnswerTrickles \/ AnswerNeverEnds \/ Abort
  <2>1. exit' = exit /\ pc \notin Ended
    BY <1>1 DEF CheckArguments, ReadManifest, LoadPolicy, LoadManifest, CheckExpiry, Gate,
         VerifyManifest, ResolveScope, ScopeNext, CheckPorts, AdmitTarget, RejectTarget,
         AddHost, NextTarget, ConcludeScope, StartLoop, PollAbort, BeginProbe, LeaveLoop, Preview,
         Pause, Connect, HttpAnswer, GetFails, AnswerTrickles, AnswerNeverEnds, Abort, runVars, Ended, Probing
  <2>2. QED
    BY <2>1 DEF RunningInv
<1>2. CASE EmitJson \/ EmitSarif
  <2>1. pc \notin Ended /\ (exit' = exit \/ pc' \in Ended)
    BY <1>2 DEF EmitJson, EmitSarif, Emit, Ended
  <2>2. QED
    BY <2>1 DEF RunningInv
<1>3. CASE Refuse \/ Exit \/ Interrupt
  <2>1. pc' \in Ended
    BY <1>3 DEF Refuse, Exit, Interrupt, Ended
  <2>2. QED
    BY <2>1 DEF RunningInv
<1>4. CASE UNCHANGED vars
  BY <1>4 DEF RunningInv, vars, scopeVars, runVars
<1>5. QED
  BY <1>1, <1>2, <1>3, <1>4 DEF Next, Program, Answer, Terminated

----------------------------------------------------------------------------
(* The theorems.                                                           *)

(* No endpoint is probed twice, and each has at most one result and one    *)
(* finding (run_lan).                                                      *)
THEOREM EngagementIsOnce == Spec /\ NoRepeatedPort => [](NoRepeatedPort /\ EngagedInv)
<1>1. Init => EngagedInv
  <2> SUFFICES ASSUME Init PROVE EngagedInv
    OBVIOUS
  <2>1. IInv /\ Deciding
    BY InitInv DEF Init, Deciding, EarlyGates
  <2>2. QED
    BY <2>1, NothingFoundYet
<1>2. IInv /\ IInv' /\ NoRepeatedPort /\ EngagedInv /\ [Next]_vars => EngagedInv'
  BY OnceStep, StoryStep, RunningStep DEF EngagedInv
<1>3. NoRepeatedPort /\ [Next]_vars => NoRepeatedPort'
  BY CallStays DEF NoRepeatedPort
<1>4. QED
  BY <1>1, <1>2, <1>3, RunInvariant, PTL DEF Spec

(* An endpoint has a finding exactly when its result looks like MCP, it    *)
(* has one finding only, and every endpoint probed has a result, however   *)
(* the hosts answer and whenever the run stops (run_lan).                  *)
THEOREM FindingsAreTheResults == Spec /\ NoRepeatedPort => []FindingsMatchResults
<1>1. EngagedInv => FindingsMatchResults
  BY DEF EngagedInv, StoryInv, FindingsMatchResults, Distinct
<1>2. QED
  BY <1>1, EngagementIsOnce, PTL

----------------------------------------------------------------------------
(* The refinement.                                                         *)

(* A granted scope is not empty, so an engagement has a mandate.           *)
LEMMA GrantIsAMandate ==
  ASSUME IInv, pc = "scoped", ~ call.dryRun
  PROVE  Mandate(call) # {}
<1>1. /\ call \in Call /\ hosts \in Seq(Address) /\ ExactGrant(call, hosts)
      /\ call.complete /\ call.readable /\ call.policyOk /\ call.wellFormed
      /\ call.expires_at > 0 /\ call.signed
  BY DEF IInv, TypeOK, ScopeDataOK, ScopeReady, ScopeInv, PassedGates, Resolving
<1>2. Authorised(call)
  BY <1>1, GrantIsAcceptable DEF Authorised
<1>3. Len(hosts) \in Nat \ {0} /\ Len(call.ports) \in Nat \ {0}
  BY <1>1, CallFacts, RunAssumption DEF ExactGrant
<1>4. <<hosts[1], call.ports[1]>> \in ManifestHosts(call) \X Elems(call.ports)
  BY <1>1, <1>3 DEF ExactGrant, Elems
<1>5. QED
  BY <1>2, <1>4 DEF Mandate

(* The variables of the abstract engagement.                               *)
LEMMA EngagementInit == Init => Engagement!Init
BY DEF Init, Engagement!Init, Phase, Probing, Ended

(* Every step of the process is a step of the engagement, or none.         *)
LEMMA EngagementStep ==
  ASSUME NoRepeatedPort, IInv, AccountInv, EngagedInv, [Next]_vars
  PROVE  [Engagement!Next]_(Engagement!vars)
<1> USE DEF Phase, Probing, Ended
<1>1. CASE \/ CheckArguments \/ ReadManifest \/ LoadPolicy \/ LoadManifest
           \/ CheckExpiry \/ VerifyManifest \/ ResolveScope
  <2>1. /\ pc \in EarlyGates \union Resolving
        /\ UNCHANGED <<call, probed, exit>>
    BY <1>1 DEF CheckArguments, ReadManifest, LoadPolicy, LoadManifest, CheckExpiry, Gate,
         VerifyManifest, ResolveScope, ScopeNext, CheckPorts, AdmitTarget, RejectTarget,
         AddHost, NextTarget, ConcludeScope, scopeData, runVars, history,
         EarlyGates, Resolving
  <2>2. Deciding'
    BY <1>1, DecidingSteps
  <2>3. Phase = "deciding" /\ Phase' = "deciding"
    BY <2>1, <2>2 DEF Deciding, EarlyGates, Resolving
  <2>4. QED
    BY <2>1, <2>3 DEF Engagement!vars
<1>2. CASE Refuse
  <2>1. /\ Phase = "deciding" /\ Phase' = "over" /\ exit' = 2
        /\ UNCHANGED <<call, probed>>
    BY <1>2 DEF Refuse, scopeData, history
  <2>2. Engagement!Decline
    BY <2>1 DEF Engagement!Decline
  <2>3. QED
    BY <2>2 DEF Engagement!Next
<1>3. CASE Preview
  <2>1. /\ Phase = "deciding" /\ Phase' = "closing"
        /\ UNCHANGED <<call, probed, exit>>
    BY <1>3 DEF Preview, scopeData, runVars, history
  <2>2. Engagement!Preview
    BY <2>1 DEF Engagement!Preview
  <2>3. QED
    BY <2>2 DEF Engagement!Next
<1>4. CASE StartLoop
  <2>1. /\ Phase = "deciding" /\ Phase' = "engaged"
        /\ UNCHANGED <<call, probed, exit>>
    BY <1>4 DEF StartLoop, scopeData, history
  <2>2. Mandate(call) # {}
    BY <1>4, GrantIsAMandate DEF StartLoop
  <2>3. Engagement!Engage
    BY <2>1, <2>2 DEF Engagement!Engage
  <2>4. QED
    BY <2>3 DEF Engagement!Next
<1>5. CASE BeginProbe
  <2>1. /\ pc = "polled" /\ host <= Len(hosts)
        /\ Phase = "engaged" /\ Phase' = "engaged"
        /\ probed' = Append(probed, Current)
        /\ UNCHANGED <<call, exit>>
    BY <1>5 DEF BeginProbe, scopeData, IInv, Indices, Probing
  <2>2. Current \in Mandate(call) /\ Current \notin Elems(probed)
    BY <2>1, CurrentFacts, CurrentIsNew DEF EngagedInv
  <2>3. Len(probed) < Ceiling(call)
    <3>1. connections < Budget.max_total_connections /\ Len(probed) = connections
      BY <2>1, RoomForCurrent DEF AccountInv, TrafficInv
    <3>2. QED
      BY <3>1 DEF Ceiling, Budget
  <2>4. Engagement!Touch(Current)
    BY <2>1, <2>2, <2>3 DEF Engagement!Touch, Elems
  <2>5. QED
    BY <2>2, <2>4 DEF Engagement!Next
<1>6. CASE Connect \/ HttpAnswer \/ GetFails \/ Pause \/ AnswerTrickles \/ AnswerNeverEnds
           \/ Abort \/ PollAbort
  <2>1. /\ Phase = "engaged" /\ Phase' = "engaged"
        /\ UNCHANGED <<call, probed, exit>>
    BY <1>6 DEF Connect, HttpAnswer, GetFails, Pause, AnswerTrickles, AnswerNeverEnds, Abort,
                PollAbort, Record, Request, runVars, scopeVars, scopeData, history
  <2>2. QED
    BY <2>1 DEF Engagement!vars
<1>7. CASE LeaveLoop
  <2>1. /\ Phase = "engaged" /\ Phase' = "closing"
        /\ UNCHANGED <<call, probed, exit>>
    BY <1>7 DEF LeaveLoop, scopeData, runVars, history
  <2>2. Engagement!Close
    BY <2>1 DEF Engagement!Close
  <2>3. QED
    BY <2>2 DEF Engagement!Next
<1>8. CASE EmitJson \/ EmitSarif
  <2>1. /\ Phase = "closing" /\ UNCHANGED <<call, probed>>
        /\ \/ Phase' = "closing" /\ exit' = exit
           \/ Phase' = "over" /\ exit' = 1
    BY <1>8 DEF EmitJson, EmitSarif, Emit, scopeData, history
  <2>2. CASE Phase' = "closing" /\ exit' = exit
    BY <2>1, <2>2 DEF Engagement!vars
  <2>3. CASE Phase' = "over" /\ exit' = 1
    <3>1. Engagement!Exit(1)
      BY <2>1, <2>3 DEF Engagement!Exit
    <3>2. QED
      BY <3>1 DEF Engagement!Next
  <2>4. QED
    BY <2>1, <2>2, <2>3
<1>9. CASE Exit
  <2>1. /\ Phase = "closing" /\ Phase' = "over" /\ exit' \in {0, 1}
        /\ UNCHANGED <<call, probed>>
    BY <1>9 DEF Exit, scopeData, history
  <2>2. Engagement!Exit(exit')
    BY <2>1 DEF Engagement!Exit
  <2>3. QED
    BY <2>1, <2>2 DEF Engagement!Next
<1>10. CASE Interrupt
  <2>1. /\ Phase = "engaged" /\ Phase' = "over" /\ exit' = 130
        /\ UNCHANGED <<call, probed>>
    BY <1>10 DEF Interrupt, scopeData, history
  <2>2. Engagement!Exit(130)
    BY <2>1 DEF Engagement!Exit
  <2>3. QED
    BY <2>2 DEF Engagement!Next
<1>11. CASE UNCHANGED vars
  BY <1>11 DEF vars, scopeVars, runVars, history, Engagement!vars
<1>12. QED
  BY <1>1, <1>2, <1>3, <1>4, <1>5, <1>6, <1>7, <1>8, <1>9, <1>10, <1>11
     DEF Next, Program, Answer, Terminated

(* A `mcpscan lan` process implements the engagement: decided first, only  *)
(* endpoints of the mandate, each at most once and never more than the     *)
(* ceiling, one exit status, and 2 only when nothing was sent (_run_lan,   *)
(* run_lan).                                                               *)
THEOREM RunIsAnEngagement == Spec /\ NoRepeatedPort => ImplementsEngagement
<1>1. /\ NoRepeatedPort /\ IInv /\ AccountInv /\ EngagedInv /\ [Next]_vars
      => [Engagement!Next]_(Engagement!vars)
  BY EngagementStep
<1>2. Spec /\ NoRepeatedPort => Engagement!Spec
  BY <1>1, EngagementInit, RunInvariant, AccountIsKept, EngagementIsOnce, PTL
     DEF Spec, Engagement!Spec
<1>3. QED
  BY <1>2 DEF ImplementsEngagement
=============================================================================
