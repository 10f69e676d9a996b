------------------------------ MODULE MCLanRun ------------------------------
(***************************************************************************)
(* Small calls for LanRun: a good call and the calls that differ from it   *)
(* in one respect, so that every gate is met in both directions; and every *)
(* small manifest, previewed, so that scope resolution meets every limit.  *)
(***************************************************************************)
EXTENDS LanRun

MCAddress == {"a", "b", "c", "d", "x"}
MCPrivate == MCAddress \ {"x"}
MCPort    == {1, 2, 3}

Single(h) == [valid |-> TRUE, single |-> TRUE, addrs |-> {h}, hosts |-> <<h>>]
Cidr(s, edge) ==
  [valid |-> TRUE, single |-> FALSE, addrs |-> Elems(s) \union edge, hosts |-> s]
Pair == Cidr(<<"a", "b">>, {})
Unparsable == [valid |-> FALSE, single |-> FALSE, addrs |-> {}, hosts |-> << >>]

(* ab and bcd overlap in b; cx reaches one public address.                 *)
Listed ==
  {Single("a"), Single("c"), Single("x"), Pair, Cidr(<<"b", "c", "d">>, {}),
   Cidr(<<"c">>, {"x"}), Cidr(<<"a", "b", "c", "d">>, {}), Unparsable}

MCTarget == Listed \union {Single("b")}

MCBudget(h, n, r, c) ==
  [max_hosts |-> h, max_ports_per_host |-> 2, max_concurrency |-> 1,
   max_total_connections |-> n, max_runtime |-> r, cooldown |-> c]

(* As in the shipped tables the connection budget of an agent is smaller   *)
(* than its hosts times its ports.                                         *)
MCBudgets ==
  [i \in Invoker |-> IF i = "agent" THEN MCBudget(2, 3, 6, 2) ELSE MCBudget(3, 4, 6, 1)]

GoodCall ==
  [complete |-> TRUE, readable |-> TRUE, policyOk |-> TRUE, wellFormed |-> TRUE,
   signed |-> TRUE, expires_at |-> 3, dryRun |-> FALSE, json |-> TRUE, sarif |-> TRUE,
   failOn |-> "high", abortable |-> FALSE, invoker |-> "human",
   targets |-> <<Single("a"), Pair>>, ports |-> <<1, 2>>, allow |-> {}]

Variants ==
  {GoodCall,
   [GoodCall EXCEPT !.complete = FALSE],
   [GoodCall EXCEPT !.readable = FALSE],
   [GoodCall EXCEPT !.policyOk = FALSE],
   [GoodCall EXCEPT !.wellFormed = FALSE],
   [GoodCall EXCEPT !.expires_at = 0],
   [GoodCall EXCEPT !.signed = FALSE],
   [GoodCall EXCEPT !.dryRun = TRUE],
   [GoodCall EXCEPT !.json = FALSE, !.failOn = "critical"],
   [GoodCall EXCEPT !.targets = <<Single("x")>>],
   [GoodCall EXCEPT !.targets = <<Single("x")>>, !.allow = {{"x"}}, !.sarif = FALSE],
   [GoodCall EXCEPT !.abortable = TRUE]}

(* A human with each variant; an agent, which may not use the range, with  *)
(* each variant on two hosts and one port; and an agent whose two hosts on *)
(* two ports exceed its connection budget.                                 *)
AgentCall(c, ports) ==
  [c EXCEPT !.invoker = "agent", !.targets = <<Single("b"), Single("a")>>, !.ports = ports]

Sequences(S, n) == UNION {[1 .. k -> S] : k \in 1 .. n}

(* A dry run goes through every gate and ends where the probes would begin. *)
Previews ==
  {[GoodCall EXCEPT !.dryRun = TRUE, !.json = FALSE, !.sarif = FALSE, !.invoker = i,
                    !.targets = t, !.ports = p, !.allow = a] :
     i \in Invoker, t \in Sequences(Listed, 3), p \in {<<1>>, <<1, 2>>, <<1, 2, 3>>},
     a \in {{}, {{"x"}}, {{"x", "c"}}}}

MCCall ==
  Previews
    \union Variants
    \union {AgentCall(c, <<2>>) : c \in Variants}
    \union {AgentCall(GoodCall, <<1, 2>>), [GoodCall EXCEPT !.invoker = "agent"]}
    \union {[AgentCall(GoodCall, <<2>>) EXCEPT !.targets = <<Single("x")>>, !.allow = a] :
              a \in {{}, {{"x"}}}}

(* A manifest that lists a port twice; nothing removes the duplicate.      *)
MCRepeatedPort == {[GoodCall EXCEPT !.targets = <<Single("a")>>, !.ports = <<1, 1>>]}
=============================================================================
