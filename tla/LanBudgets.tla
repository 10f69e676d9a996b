----------------------------- MODULE LanBudgets -----------------------------
(***************************************************************************)
(* The immutable ceilings of `mcpscan lan` (lan/budgets.py).  Time is      *)
(* counted in ticks of 50 ms, the shortest cooldown of either table.       *)
(***************************************************************************)
EXTENDS Integers

Invoker == {"human", "agent"}

(* One table of ceilings.  max_concurrency is carried although the run     *)
(* loop is sequential and never reads it.                                  *)
BudgetTable ==
  [max_hosts : Nat, max_ports_per_host : Nat, max_concurrency : Nat,
   max_total_connections : Nat, max_runtime : Nat, cooldown : Nat]

HumanBudgets ==
  [max_hosts |-> 256, max_ports_per_host |-> 16, max_concurrency |-> 16,
   max_total_connections |-> 2048, max_runtime |-> 6000, cooldown |-> 1]

AgentBudgets ==
  [max_hosts |-> 16, max_ports_per_host |-> 8, max_concurrency |-> 4,
   max_total_connections |-> 64, max_runtime |-> 1200, cooldown |-> 5]

ShippedBudgets ==
  [i \in Invoker |-> IF i = "agent" THEN AgentBudgets ELSE HumanBudgets]

(* Budgets.lowered: each requested value is clamped so that the result is  *)
(* never looser than b; the cooldown is a floor, so it can only grow.      *)
Smaller(x, y) == IF x <= y THEN x ELSE y
Larger(x, y)  == IF x >= y THEN x ELSE y

Lowered(b, wish) ==
  [max_hosts             |-> Smaller(b.max_hosts, wish.max_hosts),
   max_ports_per_host    |-> Smaller(b.max_ports_per_host, wish.max_ports_per_host),
   max_concurrency       |-> Smaller(b.max_concurrency, wish.max_concurrency),
   max_total_connections |-> Smaller(b.max_total_connections, wish.max_total_connections),
   max_runtime           |-> Smaller(b.max_runtime, wish.max_runtime),
   cooldown              |-> Larger(b.cooldown, wish.cooldown)]

(* a allows nothing that b forbids.                                        *)
NoLooser(a, b) ==
  /\ a.max_hosts <= b.max_hosts
  /\ a.max_ports_per_host <= b.max_ports_per_host
  /\ a.max_concurrency <= b.max_concurrency
  /\ a.max_total_connections <= b.max_total_connections
  /\ a.max_runtime <= b.max_runtime
  /\ a.cooldown >= b.cooldown
=============================================================================
