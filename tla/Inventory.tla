----------------------------- MODULE Inventory -----------------------------
(***************************************************************************)
(* The classification of listening sockets into assets: inventory/         *)
(* classify.py and the socket half of collect.py.  A socket is an address, *)
(* a port, and the pid and process name the operating system is willing    *)
(* to tell.  What a service is known by (the process names, the endpoints, *)
(* the default ports) are tables in the code and constants here.           *)
(***************************************************************************)
EXTENDS Naturals, FiniteSets, Lists

CONSTANTS
  Catalogue,  \* [kind, product] records, in the order assets are sorted by
  Signature,  \* process name -> the product it identifies
  PortHint,   \* default port -> the product usually found there
  Probe       \* is the loopback probe on?  --no-probe turns it off

Product == {Catalogue[i] : i \in DOMAIN Catalogue}

ASSUME InventoryAssumption ==
  /\ Catalogue \in Seq([kind : STRING, product : STRING])
  /\ \A name \in DOMAIN Signature : Signature[name] \in Product
  /\ \A port \in DOMAIN PortHint : PortHint[port] \in Product

(* 127.0.0.1, ::1, 0.0.0.0, :: and an address of the network.  serves is   *)
(* what the process behind the socket would say, and not part of what the  *)
(* operating system lists.                                                 *)
Ip == {"loop4", "loop6", "any4", "any6", "lan"}
Socket(ip, port, pid, proc, serves) ==
  [ip |-> ip, port |-> port, pid |-> pid, proc |-> proc, serves |-> serves]

Exposed(sock) == sock.ip \in {"any4", "any6", "lan"}

(* Loopback and wildcard binds are probed, through 127.0.0.1.              *)
Probeable(sock) == sock.ip # "lan"

(* What the endpoints of a service say when they are asked: nothing known, *)
(* or a product with some confidence.                                      *)
Silent == [confidence |-> "none"]
Says(what, confidence) == [what |-> what, confidence |-> confidence]
Hearable == {Silent} \cup {Says(p, c) : p \in Product, c \in {"high", "medium"}}

(* _match_endpoint asks 127.0.0.1: whoever listens there answers, a bind   *)
(* to the address before a bind to all of them.                            *)
Answer(sockets, port) ==
  LET at(ip) == {s \in sockets : s.port = port /\ s.ip = ip}
      first == IF at("loop4") # {} THEN at("loop4")
               ELSE IF at("any4") # {} THEN at("any4") ELSE at("any6")
  IN  IF first = {} THEN {Silent} ELSE {s.serves : s \in first}

Asset(sock, what, confidence) ==
  [kind |-> what.kind, product |-> what.product, ip |-> sock.ip, port |-> sock.port,
   pid |-> sock.pid, confidence |-> confidence]

(* Mutant: an answer overrules the name of the process.                    *)
ClassifyAnswerFirst(sock, answer) ==
  CASE answer # Silent -> {Asset(sock, answer.what, answer.confidence)}
    [] answer = Silent /\ sock.proc \in DOMAIN Signature ->
         {Asset(sock, Signature[sock.proc], "high")}
    [] OTHER -> IF sock.port \in DOMAIN PortHint
                THEN {Asset(sock, PortHint[sock.port], "low")} ELSE {}

(* classify_socket: the process name, then the endpoint, then the port; a  *)
(* socket that none of them knows is no asset.                             *)
Classify(sock, answer) ==
  CASE sock.proc \in DOMAIN Signature -> {Asset(sock, Signature[sock.proc], "high")}
    [] sock.proc \notin DOMAIN Signature /\ answer # Silent ->
         {Asset(sock, answer.what, answer.confidence)}
    [] OTHER -> IF sock.port \in DOMAIN PortHint
                THEN {Asset(sock, PortHint[sock.port], "low")} ELSE {}

----------------------------------------------------------------------------
(* collect_inventory: of the sockets with one port and one pid only the    *)
(* first that is listed counts, taken to be both stacks of one service.    *)
Service(sock) == <<sock.port, sock.pid>>

FirstSeen(order) ==
  LET first == {i \in DOMAIN order : \A j \in 1 .. i - 1 : Service(order[j]) # Service(order[i])}
      kept == Sift([i \in DOMAIN order |-> i], first)
  IN  [k \in DOMAIN kept |-> order[kept[k]]]

(* _sorted: by kind and product, then by location.  The order of locations *)
(* is that of their text; any fixed order does here.                       *)
IpOrder == <<"any4", "loop4", "lan", "loop6", "any6">>

(* Mutant: the location is not part of the sort key.                       *)
RankByProduct(a) == <<IndexOf([kind |-> a.kind, product |-> a.product], Catalogue), 0, 0>>

Rank(a) == << IndexOf([kind |-> a.kind, product |-> a.product], Catalogue),
              IndexOf(a.ip, IpOrder), a.port >>

InOrder(assets) == SortedBy(assets, [a \in ToSet(assets) |-> Rank(a)])

(* What the endpoints of each socket may be heard to say: any request may  *)
(* time out, and a bind to the network is not asked.                       *)
Hearings(sockets) ==
  {f \in [sockets -> {Silent} \cup {s.serves : s \in sockets}] :
     \A s \in sockets : f[s] = Silent \/ (Probeable(s) /\ f[s] \in Answer(sockets, s.port))}

(* The assets of sockets listed in an order, given what was heard of each. *)
SocketAssets(order, heard) ==
  LET once == FirstSeen(order)
  IN  InOrder(FlattenSeq([i \in DOMAIN once |->
                            SetToSeq(Classify(once[i], heard[once[i]]))]))
=============================================================================
