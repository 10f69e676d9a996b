------------------------------ MODULE Posture ------------------------------
(***************************************************************************)
(* From the machine to a snapshot: what a scan and an inventory report of  *)
(* the permission grants of a config file, a secret in an .env file and    *)
(* the listening sockets (engine.py, inventory/collect.py), and the facts  *)
(* drift/snapshot.py makes of the two.                                     *)
(*                                                                         *)
(* A machine is the grants in the allow-list, the line of the secret (0:   *)
(* none) and the set of sockets.  The files are read in a fixed order; the *)
(* sockets come in whatever order the operating system lists them.  A      *)
(* place is a file, or the address and port of a socket.                   *)
(***************************************************************************)
EXTENDS Drift, Inventory

CONSTANTS
  Grants,     \* the entries that may stand in the allow-list
  Dangerous,  \* those that name a shell or exec tool; the others are wildcards
  MaxLine,    \* bound: lines of the .env file
  Sockets     \* the sockets that may listen

ASSUME PostureAssumption ==
  /\ IsFiniteSet(Grants) /\ IsFiniteSet(Sockets)
  /\ \A s \in Sockets : s.ip \in Ip /\ s.port \in Nat
  /\ Dangerous \subseteq Grants
  /\ MaxLine \in Nat

Machine == [grants : SUBSET Grants, secret : 0 .. MaxLine, sockets : SUBSET Sockets]

----------------------------------------------------------------------------
(* scan: the servers of the report, in report order.                       *)

Rule(g) == IF g \in Dangerous THEN "SCOPE-DANGEROUS-ALLOW" ELSE "SCOPE-WILDCARD"

ConfigFile == <<"config", 0>>
EnvFile == <<"env", 0>>
Address(sock) == <<sock.ip, sock.port>>

Finding(id, path, line, title) ==
  [id |-> id, path |-> path, line |-> line, title |-> title]

GrantFindings(grants) ==
  LET allow == SetToSeq(grants)
  IN  [i \in DOMAIN allow |-> Finding(Rule(allow[i]), ConfigFile, 0, allow[i])]

PermissionServer(grants) ==
  IF grants = {} THEN <<>>
  ELSE << [id |-> <<"config#permissions", 0>>, exposed |-> FALSE, running |-> FALSE,
           findings |-> GrantFindings(grants)] >>

EnvServer(line) ==
  << [id |-> EnvFile, exposed |-> FALSE, running |-> FALSE,
      findings |-> IF line = 0 THEN <<>>
                   ELSE << Finding("CRED-PLAINTEXT", EnvFile, line, "secret") >>] >>

SocketServer(s) ==
  [id |-> Address(s), exposed |-> TRUE, running |-> TRUE,
   findings |-> << Finding("EXPOSE-BIND", Address(s), 0, "exposed") >>]

(* Only sockets that are exposed become servers.                           *)
Scan(machine, order) ==
  LET shown == Sift(order, {s \in ToSet(order) : Exposed(s)})
  IN  PermissionServer(machine.grants) \o EnvServer(machine.secret)
        \o [i \in DOMAIN shown |-> SocketServer(shown[i])]

(* collect_inventory: the agent host whose config exists, and the assets   *)
(* of the sockets.                                                         *)
HostAsset ==
  [kind |-> "agent_host", location |-> ConfigFile, product |-> "host", confidence |-> "high"]

CollectInventory(order, heard) ==
  LET found == SocketAssets(order, heard)
  IN  <<HostAsset>>
        \o [i \in DOMAIN found |->
             [kind |-> found[i].kind, location |-> Address(found[i]),
              product |-> found[i].product, confidence |-> found[i].confidence]]

----------------------------------------------------------------------------
(* build_snapshot                                                          *)

ServerFact(s) ==
  [kind |-> "server", key |-> <<"server", s.id>>, summary |-> "server",
   detail |-> [running |-> s.running,
               exposure |-> IF s.exposed THEN "exposed" ELSE "local"]]

FindingFacts(s) ==
  [i \in DOMAIN s.findings |->
    LET f == s.findings[i]
    IN  [kind |-> "finding", key |-> <<"finding", s.id, f.id, f.path, f.line>>,
         summary |-> f.title, detail |-> [id |-> f.id]]]

AssetFacts(assets) ==
  [i \in DOMAIN assets |->
    LET a == assets[i]
    IN  [kind |-> "asset", key |-> <<"asset", a.kind, a.location>>, summary |-> "asset",
         detail |-> [product |-> a.product, confidence |-> a.confidence]]]

BuildSnapshot(servers, assets) ==
  LET factsOf(s) == <<ServerFact(s)>> \o FindingFacts(s)
  IN  Sorted(FlattenSeq([i \in DOMAIN servers |-> factsOf(servers[i])])
               \o AssetFacts(assets))

----------------------------------------------------------------------------
(* What is wrong with a machine, as places: a rule broken by the allow-    *)
(* list, a line of the .env file with a secret in it, an exposed socket.   *)

Places(machine) ==
  {<<Rule(g), ConfigFile, 0>> : g \in machine.grants}
    \cup (IF machine.secret = 0 THEN {}
          ELSE {<<"CRED-PLAINTEXT", EnvFile, machine.secret>>})
    \cup {<<"EXPOSE-BIND", Address(s), 0>> : s \in {t \in machine.sockets : Exposed(t)}}
=============================================================================
