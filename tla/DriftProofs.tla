----------------------------- MODULE DriftProofs -----------------------------
(***************************************************************************)
(* What diff_snapshots promises for any two snapshots; what                *)
(* collect_inventory says of the sockets of a machine, whatever is listed, *)
(* stops, starts or times out; and what the gate judges by, for any number *)
(* of processes, changes, edits and runs.                                  *)
(***************************************************************************)
EXTENDS DriftGate, InventoryWalk, ListProofs

(* Two snapshots that agree on every key have no drift (diff.py:86-88).    *)
THEOREM SameSnapshotNoDrift ==
  ASSUME NEW s PROVE DiffSnapshots(s, s) = {}
BY Zenon DEF DiffSnapshots, Added, Removed, Changed

(* When there is no regression, every finding of the current snapshot has  *)
(* a fact of the same key in the baseline, and every exposed server was    *)
(* exposed there: the gate of cli._run_diff misses nothing but what shares *)
(* its key with something old (diff.py:29-55).  The kind is the first part *)
(* of the key, so facts of one key are of one kind.                        *)
THEOREM QuietDiffHasNoNewKey ==
  ASSUME NEW a, NEW b, NEW k \in DOMAIN b,
         k \in DOMAIN a => ByKey(a)[k].kind = ByKey(b)[k].kind,
         Regressions(DiffSnapshots(a, b)) = {}
  PROVE  /\ ByKey(b)[k].kind = "finding" => k \in DOMAIN a
         /\ IsExposed(ByKey(b)[k]) => k \in DOMAIN a /\ IsExposed(ByKey(a)[k])
<1> DEFINE old == ByKey(a)
           new == ByKey(b)
<1>1. DOMAIN old = DOMAIN a /\ DOMAIN new = DOMAIN b
  BY DEF ByKey
<1> HIDE DEF old, new
<1>2. \A e \in Added(old, new) \cup Changed(old, new) : e.direction # "regression"
  BY DEF Regressions, DiffSnapshots, old, new
<1>3. ASSUME k \notin DOMAIN a PROVE AddedDirection(new[k]) # "regression"
  <2> DEFINE e == [change |-> "added", key |-> k, direction |-> AddedDirection(new[k])]
  <2>1. e \in Added(old, new)
    BY <1>1, <1>3 DEF Added
  <2> QED
    BY <2>1, <1>2
<1>4. ASSUME k \in DOMAIN a, IsExposed(new[k]), ~IsExposed(old[k])
      PROVE  FALSE
  <2> DEFINE e == [change |-> "changed", key |-> k,
                   direction |-> ChangedDirection(old[k], new[k])]
  <2>1. new[k].kind = "server"
    BY <1>4 DEF IsExposed
  <2>2. ChangedDirection(old[k], new[k]) = "regression"
    BY <1>4, <2>1 DEF ChangedDirection
  <2>3. CASE old[k].detail # new[k].detail
    <3>1. e \in Changed(old, new)
      BY <1>1, <1>4, <2>3 DEF Changed
    <3> QED
      BY <3>1, <2>2, <1>2
  <2>4. CASE old[k].detail = new[k].detail
    BY <1>1, <1>4, <2>1, <2>4 DEF IsExposed, old, new
  <2> QED
    BY <2>3, <2>4
<1> QED
  BY <1>3, <1>4 DEF AddedDirection, new, old

----------------------------------------------------------------------------
(* Assets.                                                                 *)

(* A socket as it may be listed, with or without the name of its process.  *)
Told == {Named(s, s.proc) : s \in Known} \cup {Named(s, NoName) : s \in Known}

LEMMA NamedIs ==
  ASSUME NEW s, NEW name, NEW n, n = Named(s, name)
  PROVE  /\ n.ip = s.ip /\ n.port = s.port /\ n.pid = s.pid /\ n.proc = name
         /\ n.serves = s.serves /\ Service(n) = Service(s)
         /\ \A other : Named(n, other) = Named(s, other)
BY DEF Named, Socket, Service

LEMMA ToldIs ==
  ASSUME NEW n \in Told
  PROVE  n.ip \in Ip /\ n.port \in Nat
<1>1. PICK s \in Known : \E name : n = Named(s, name)
  BY DEF Told
<1>2. QED
  BY <1>1, NamedIs, WalkAssumption

Confidence == {"high", "medium", "low"}
Assets == {Asset(s, p, c) : s \in Told, p \in Product, c \in Confidence}
ProductOf(a) == [kind |-> a.kind, product |-> a.product]
ServiceOf(a) == <<a.port, a.pid>>

LEMMA ProductsAre == Product \subseteq [kind : STRING, product : STRING]
<1> DEFINE X == [kind : STRING, product : STRING]
<1>1. Catalogue \in Seq(X)
  BY InventoryAssumption
<1>2. \A i \in DOMAIN Catalogue : Catalogue[i] \in X
  <2> HIDE DEF X
  <2>1. QED
    BY <1>1
<1>3. QED
  BY <1>2 DEF Product

(* An asset has the address of its socket and the product it is taken for. *)
LEMMA AssetIs ==
  ASSUME NEW s \in Told, NEW p \in Product, NEW c \in Confidence, NEW a, a = Asset(s, p, c)
  PROVE  /\ a \in Assets
         /\ ProductOf(a) = p /\ ServiceOf(a) = Service(s)
         /\ a.ip = s.ip /\ a.port = s.port /\ a.confidence = c
<1>1. a \in Assets
  BY DEF Assets
<1>2. /\ a.kind = p.kind /\ a.product = p.product
      /\ a.ip = s.ip /\ a.port = s.port /\ a.pid = s.pid /\ a.confidence = c
  BY DEF Asset
<1>3. ProductOf(a) = p
  BY <1>2, ProductsAre DEF ProductOf
<1>4. QED
  BY <1>1, <1>2, <1>3 DEF ServiceOf, Service

LEMMA AssetsAre ==
  ASSUME NEW a \in Assets
  PROVE  ProductOf(a) \in Product /\ a.ip \in Ip /\ a.port \in Nat
<1>1. PICK s \in Told, p \in Product, c \in Confidence : a = Asset(s, p, c)
  BY DEF Assets
<1>2. QED
  BY <1>1, AssetIs, ToldIs

----------------------------------------------------------------------------
(* The order of the assets.                                                *)

LEMMA IpOrderIs == IpOrder \in Seq(Ip) /\ ToSet(IpOrder) = Ip
<1>1. IpOrder \in Seq(Ip) /\ DOMAIN IpOrder = 1 .. 5
  BY DEF IpOrder, Ip
<1>2. /\ IpOrder[1] = "any4" /\ IpOrder[2] = "loop4" /\ IpOrder[3] = "lan"
      /\ IpOrder[4] = "loop6" /\ IpOrder[5] = "any6"
  BY DEF IpOrder
<1>3. ToSet(IpOrder) = {IpOrder[i] : i \in 1 .. 5}
  BY <1>1 DEF ToSet
<1>4. 1 .. 5 = {1, 2, 3, 4, 5}
  OBVIOUS
<1>5. QED
  BY <1>1, <1>2, <1>3, <1>4 DEF Ip

(* The sort key tells the product and the location.                        *)
LEMMA RankIs ==
  ASSUME NEW a, ProductOf(a) \in Product, a.ip \in Ip, a.port \in Nat
  PROVE  /\ Rank(a) \in Triple
         /\ Catalogue[Rank(a)[1]] = ProductOf(a)
         /\ IpOrder[Rank(a)[2]] = a.ip
         /\ Rank(a)[3] = a.port
<1> DEFINE p == IndexOf(ProductOf(a), Catalogue)
           q == IndexOf(a.ip, IpOrder)
<1>1. p \in DOMAIN Catalogue /\ Catalogue[p] = ProductOf(a)
  BY IndexOfIs, InventoryAssumption DEF Product, ToSet
<1>2. q \in DOMAIN IpOrder /\ IpOrder[q] = a.ip
  BY IndexOfIs, IpOrderIs
<1>3. p \in Nat /\ q \in Nat
  <2>1. DOMAIN Catalogue \subseteq Nat /\ DOMAIN IpOrder \subseteq Nat
    BY InventoryAssumption, IpOrderIs
  <2>2. QED
    BY <1>1, <1>2, <2>1
<1>4. Rank(a) = <<p, q, a.port>>
  BY DEF Rank, ProductOf
<1>5. QED
  <2> HIDE DEF p, q
  <2>1. QED
    BY <1>1, <1>2, <1>3, <1>4 DEF Triple

LEMMA SameRank ==
  ASSUME NEW a \in Assets, NEW b \in Assets, Rank(a) = Rank(b)
  PROVE  ProductOf(a) = ProductOf(b) /\ a.ip = b.ip /\ a.port = b.port
  BY AssetsAre, RankIs

----------------------------------------------------------------------------
(* What sorting does to a list of assets.                                  *)

(* Assets have ranks.                                                      *)
LEMMA RanksOf ==
  ASSUME NEW list \in Seq(Assets), NEW rank, rank = [a \in ToSet(list) |-> Rank(a)]
  PROVE  /\ list \in Seq(ToSet(list)) /\ ToSet(list) \subseteq Assets
         /\ rank \in [ToSet(list) -> Triple]
<1>1. ToSet(list) \subseteq Assets
  BY ValuesOf
<1>2. list \in Seq(ToSet(list))
  BY ListOf
<1>3. \A a \in ToSet(list) : Rank(a) \in Triple
  BY <1>1, AssetsAre, RankIs
<1>4. QED
  BY <1>1, <1>2, <1>3

(* No asset is lost, added or doubled.                                     *)
LEMMA InOrderKeeps ==
  ASSUME NEW list \in Seq(Assets), NEW sorted, sorted = InOrder(list)
  PROVE  /\ sorted \in Seq(Assets) /\ Len(sorted) = Len(list)
         /\ ToSet(sorted) = ToSet(list)
         /\ (\A i, j \in DOMAIN list : ServiceOf(list[i]) = ServiceOf(list[j]) => i = j) =>
              \A i, j \in DOMAIN sorted : ServiceOf(sorted[i]) = ServiceOf(sorted[j]) => i = j
<1>1. PICK p \in [DOMAIN list -> DOMAIN list] :
           /\ sorted = [k \in DOMAIN list |-> list[p[k]]]
           /\ \A k, l \in DOMAIN list : p[k] = p[l] => k = l
           /\ \A i \in DOMAIN list : \E k \in DOMAIN list : p[k] = i
  <2>1. PICK rank : rank = [a \in ToSet(list) |-> Rank(a)]
    OBVIOUS
  <2>2. sorted = SortedBy(list, rank)
    BY <2>1 DEF InOrder
  <2>3. /\ list \in Seq(ToSet(list)) /\ rank \in [ToSet(list) -> Triple]
    BY <2>1, RanksOf
  <2>4. PICK p : Arranges(list, rank, p)
    BY <2>3, SortedPermutes
  <2>5. QED
    BY <2>2, <2>4 DEF Arranges
<1>2. /\ DOMAIN list = 1 .. Len(list) /\ Len(list) \in Nat
      /\ \A i \in DOMAIN list : list[i] \in Assets
  OBVIOUS
<1>3. /\ DOMAIN sorted = DOMAIN list
      /\ \A k \in DOMAIN list : sorted[k] = list[p[k]] /\ p[k] \in DOMAIN list
  BY <1>1
<1>4. sorted \in Seq(Assets) /\ Len(sorted) = Len(list)
  BY <1>1, <1>2, <1>3
<1>5. ToSet(sorted) = ToSet(list)
  BY <1>1, <1>3 DEF ToSet
<1>6. QED
  BY <1>1, <1>3, <1>4, <1>5

----------------------------------------------------------------------------
(* Classification.                                                         *)

(* A socket is one asset, or none; a named process is that of its name.    *)
LEMMA ClassifyIs ==
  ASSUME NEW s \in Told, NEW answer \in Hearable
  PROVE  /\ \/ Classify(s, answer) = {}
            \/ \E p \in Product, c \in Confidence : Classify(s, answer) = {Asset(s, p, c)}
         /\ s.proc \in DOMAIN Signature =>
              /\ Signature[s.proc] \in Product
              /\ Classify(s, answer) = {Asset(s, Signature[s.proc], "high")}
<1>1. CASE s.proc \in DOMAIN Signature
  <2>1. Classify(s, answer) = {Asset(s, Signature[s.proc], "high")}
    BY <1>1 DEF Classify
  <2>2. Signature[s.proc] \in Product /\ "high" \in Confidence
    BY <1>1, InventoryAssumption DEF Confidence
  <2>3. QED
    BY <2>1, <2>2
<1>2. CASE s.proc \notin DOMAIN Signature /\ answer # Silent
  <2>1. Classify(s, answer) = {Asset(s, answer.what, answer.confidence)}
    BY <1>2 DEF Classify
  <2>2. PICK p \in Product, c \in {"high", "medium"} : answer = Says(p, c)
    BY <1>2 DEF Hearable
  <2>3. answer.what = p /\ answer.confidence = c /\ c \in Confidence
    BY <2>2 DEF Says, Confidence
  <2>4. QED
    BY <1>2, <2>1, <2>3
<1>3. CASE s.proc \notin DOMAIN Signature /\ answer = Silent
  <2>1. Classify(s, answer) = IF s.port \in DOMAIN PortHint
                              THEN {Asset(s, PortHint[s.port], "low")} ELSE {}
    BY <1>3 DEF Classify
  <2>2. s.port \in DOMAIN PortHint => PortHint[s.port] \in Product /\ "low" \in Confidence
    BY InventoryAssumption DEF Confidence
  <2>3. QED
    BY <1>3, <2>1, <2>2
<1>4. QED
  BY <1>1, <1>2, <1>3

LEMMA ClassifyGives ==
  ASSUME NEW s \in Told, NEW answer \in Hearable
  PROVE  /\ IsFiniteSet(Classify(s, answer)) /\ Classify(s, answer) \subseteq Assets
         /\ \A a, b \in Classify(s, answer) : a = b
         /\ \A a \in Classify(s, answer) :
              ServiceOf(a) = Service(s) /\ a.ip = s.ip /\ a.port = s.port
<1>1. CASE Classify(s, answer) = {}
  BY <1>1, FS_EmptySet
<1>2. ASSUME NEW p \in Product, NEW c \in Confidence, Classify(s, answer) = {Asset(s, p, c)}
      PROVE  /\ IsFiniteSet(Classify(s, answer)) /\ Classify(s, answer) \subseteq Assets
             /\ \A a, b \in Classify(s, answer) : a = b
             /\ \A a \in Classify(s, answer) :
                  ServiceOf(a) = Service(s) /\ a.ip = s.ip /\ a.port = s.port
  <2>1. PICK x : x = Asset(s, p, c)
    OBVIOUS
  <2>2. x \in Assets /\ ServiceOf(x) = Service(s) /\ x.ip = s.ip /\ x.port = s.port
    BY <2>1, AssetIs
  <2>3. Classify(s, answer) = {x} /\ IsFiniteSet({x})
    BY <1>2, <2>1, FS_Singleton
  <2>4. QED
    BY <2>2, <2>3
<1>3. QED
  BY <1>1, <1>2, ClassifyIs

(* A request is answered, if at all, by something that can be heard.       *)
LEMMA AnswersAre ==
  ASSUME NEW socks \in SUBSET Known, NEW port
  PROVE  Answer(socks, port) \subseteq Hearable
<1> DEFINE on(ip) == {s \in socks : s.port = port /\ s.ip = ip}
           first == IF on("loop4") # {} THEN on("loop4")
                    ELSE IF on("any4") # {} THEN on("any4") ELSE on("any6")
<1>1. first \subseteq Known
  OBVIOUS
<1>2. Answer(socks, port) = IF first = {} THEN {Silent} ELSE {s.serves : s \in first}
  BY DEF Answer
<1> HIDE DEF first
<1>3. \A s \in first : s.serves \in Hearable
  BY <1>1, WalkAssumption
<1>4. QED
  BY <1>2, <1>3 DEF Hearable

LEMMA AudibleIs ==
  ASSUME sockets \in SUBSET Known, NEW s
  PROVE  Audible(s) \subseteq Hearable
<1>1. Silent \in Hearable
  BY DEF Hearable
<1>2. Answer(sockets, s.port) \subseteq Hearable
  BY AnswersAre
<1>3. \A a \in Hearable : Weaker[a] \subseteq Hearable
  BY WalkAssumption
<1>4. QED
  BY <1>1, <1>2, <1>3 DEF Audible

----------------------------------------------------------------------------
(* The sockets whose service was not met before, and what they gave.       *)

First(list, i) == \A j \in 1 .. i - 1 : Service(list[j]) # Service(list[i])

Gathered(list, ears, n) ==
  UNION {Classify(list[i], ears[i]) : i \in {k \in 1 .. n : First(list, k)}}

With(found, more) == found \cup more

LEMMA GatheredGrows ==
  ASSUME NEW list, NEW ears, NEW more, NEW n \in Nat, NEW m, m = n + 1,
         \A i \in 1 .. n : more[i] = ears[i],
         NEW new, new = IF First(list, m) THEN Classify(list[m], more[m]) ELSE {}
  PROVE  Gathered(list, more, m) = With(Gathered(list, ears, n), new)
<1> DEFINE K == {k \in 1 .. n : First(list, k)}
           L == {k \in 1 .. m : First(list, k)}
<1>1. /\ \A k \in 1 .. m : k \in 1 .. n \/ k = m
      /\ \A k \in 1 .. n : k \in 1 .. m
      /\ m \in 1 .. m
  OBVIOUS
<1>2. /\ First(list, m) => L = K \cup {m}
      /\ ~First(list, m) => L = K
  BY <1>1
<1>3. \A k \in K : more[k] = ears[k]
  OBVIOUS
<1>4. /\ Gathered(list, more, m) = UNION {Classify(list[i], more[i]) : i \in L}
      /\ Gathered(list, ears, n) = UNION {Classify(list[i], ears[i]) : i \in K}
  BY DEF Gathered
<1> HIDE DEF K, L
<1>5. QED
  BY <1>2, <1>3, <1>4 DEF With


----------------------------------------------------------------------------
(* The inductive invariant.                                                *)

Apart(list) ==
  \A i, j \in DOMAIN list : ServiceOf(list[i]) = ServiceOf(list[j]) => i = j

SocketsInv == sockets \subseteq Known /\ IsFiniteSet(sockets) /\ AtMostOne(sockets)

(* What was listed was there, each socket once.                            *)
Distinct(list) ==
  \A i, j \in DOMAIN list : <<list[i].ip, list[i].port>> = <<list[j].ip, list[j].port>> => i = j

ListingInv ==
  /\ listing \in Seq(Told) /\ Distinct(listing)
  /\ phase \in {"list", "classify", "done"}
  /\ phase = "list" => listing = << >> /\ at = 1
  /\ phase = "done" => at = Len(listing) + 1

(* The names are looked up before anything is classified; and while every  *)
(* lookup succeeds, nothing that was there is without its name.            *)
HasName(n) == \A s \in Known : s.pid = n.pid => n.proc = s.proc

NamesInv ==
  /\ named \in 0 .. Len(listing) /\ incomplete \in BOOLEAN
  /\ named # Len(listing) => at = 1
  /\ phase = "done" => named = Len(listing)
  /\ present \subseteq Known
  /\ phase # "list" /\ ~incomplete =>
       /\ \A s \in present : \E i \in DOMAIN listing : Service(listing[i]) = Service(s)
       /\ \A i \in 1 .. named : listing[i].pid # NoPid => HasName(listing[i])

(* The services met so far, and what was heard of them.                    *)
MetInv ==
  /\ at \in 1 .. Len(listing) + 1
  /\ heard \in Seq(Hearable) /\ Len(heard) = at - 1
  /\ seen = {Service(listing[i]) : i \in 1 .. at - 1}

(* The assets are what the first socket of each service gave.              *)
GatheredInv ==
  /\ assets \in Seq(Assets) /\ Apart(assets)
  /\ ToSet(assets) = Gathered(listing, heard, at - 1)

(* In the end they are sorted.                                             *)
SortedInv ==
  phase = "done" =>
    \E list \in Seq(Assets) :
      assets = InOrder(list) /\ ToSet(list) = ToSet(assets) /\ Apart(list)

WalkInv == SocketsInv /\ ListingInv /\ NamesInv /\ MetInv /\ GatheredInv /\ SortedInv

LEMMA WalkBegins == WalkInit => WalkInv
<1> SUFFICES ASSUME WalkInit PROVE WalkInv
  OBVIOUS
<1>1. /\ sockets \in Machines /\ present = {} /\ listing = << >> /\ named = 0
      /\ incomplete = FALSE /\ at = 1 /\ seen = {} /\ assets = << >>
      /\ heard = << >> /\ phase = "list"
  BY DEF WalkInit
<1>2. SocketsInv
  BY <1>1, WalkAssumption DEF SocketsInv, Known
<1>3. /\ << >> \in Seq(Told) /\ << >> \in Seq(Hearable) /\ << >> \in Seq(Assets)
      /\ Len(<< >>) = 0 /\ DOMAIN << >> = {} /\ 1 .. 1 - 1 = {} /\ 1 \in 1 .. 0 + 1
  OBVIOUS
<1>4. Distinct(<< >>) /\ Apart(<< >>)
  BY <1>3 DEF Distinct, Apart
<1>5. ListingInv /\ NamesInv
  <2>1. ListingInv
    BY <1>1, <1>3, <1>4 DEF ListingInv
  <2>2. Len(listing) = 0 /\ 0 \in 0 .. 0
    BY <1>1, <1>3
  <2>3. NamesInv
    BY <1>1, <2>2 DEF NamesInv
  <2>4. QED
    BY <2>1, <2>3
<1>6. MetInv
  BY <1>1, <1>3 DEF MetInv
<1>7. Gathered(listing, heard, at - 1) = {}
  BY <1>1, <1>3 DEF Gathered
<1>8. GatheredInv
  BY <1>1, <1>3, <1>4, <1>7, NothingHas DEF GatheredInv
<1>9. SortedInv
  BY <1>1 DEF SortedInv
<1>10. QED
  BY <1>2, <1>5, <1>6, <1>8, <1>9 DEF WalkInv

(* A service stops or starts: what was listed stays as it was.             *)
LEMMA ChangeKeeps ==
  ASSUME WalkInv, ServiceChanges PROVE WalkInv'
<1>1. UNCHANGED <<present, listing, named, incomplete, at, seen, assets, heard, phase>>
  BY DEF ServiceChanges
<1>2. sockets \subseteq Known /\ IsFiniteSet(sockets) /\ AtMostOne(sockets)
  BY DEF WalkInv, SocketsInv
<1>3. SocketsInv'
  <2>1. CASE \E s \in sockets : sockets' = sockets \ {s}
    <3>1. PICK s \in sockets : sockets' = sockets \ {s}
      BY <2>1
    <3>2. IsFiniteSet(sockets')
      BY <1>2, <3>1, FS_RemoveElement
    <3>3. QED
      BY <1>2, <3>1, <3>2 DEF SocketsInv, AtMostOne
  <2>2. CASE \E s \in Others \ sockets :
               /\ \A t \in sockets : <<t.ip, t.port>> # <<s.ip, s.port>>
               /\ sockets' = sockets \cup {s}
    <3>1. PICK s \in Others \ sockets :
               /\ \A t \in sockets : <<t.ip, t.port>> # <<s.ip, s.port>>
               /\ sockets' = sockets \cup {s}
      BY <2>2
    <3>2. IsFiniteSet(sockets')
      BY <1>2, <3>1, FS_AddElement
    <3>3. s \in Known
      BY <3>1 DEF Known
    <3>4. AtMostOne(sockets')
      BY <1>2, <3>1 DEF AtMostOne
    <3>5. sockets' \subseteq Known
      BY <1>2, <3>1, <3>3
    <3>6. QED
      BY <3>2, <3>4, <3>5 DEF SocketsInv
  <2>3. QED
    BY <2>1, <2>2 DEF ServiceChanges
<1>4. ListingInv' /\ NamesInv' /\ MetInv' /\ GatheredInv' /\ SortedInv'
  BY <1>1 DEF WalkInv, ListingInv, NamesInv, MetInv, GatheredInv, SortedInv
<1>5. QED
  BY <1>3, <1>4 DEF WalkInv

(* Before anything was classified, whatever is listed keeps the books.     *)
LEMMA NothingMet ==
  ASSUME WalkInv, at = 1, at' = 1, UNCHANGED <<seen, assets, heard>>, listing' \in Seq(Told)
  PROVE  MetInv' /\ GatheredInv'
<1>1. 1 .. at - 1 = {} /\ 1 .. at' - 1 = {} /\ at' \in 1 .. Len(listing') + 1
  OBVIOUS
<1>2. MetInv'
  BY <1>1 DEF WalkInv, MetInv
<1>3. Gathered(listing, heard, at - 1) = {} /\ Gathered(listing', heard', at' - 1) = {}
  BY <1>1 DEF Gathered
<1>4. QED
  BY <1>2, <1>3 DEF WalkInv, GatheredInv

LEMMA EnumerateKeeps ==
  ASSUME WalkInv, Enumerate PROVE WalkInv'
<1>1. /\ phase = "list" /\ phase' = "classify" /\ present' = sockets
      /\ UNCHANGED <<sockets, named, incomplete, at, seen, assets, heard>>
  BY DEF Enumerate
<1>2. /\ sockets \subseteq Known /\ IsFiniteSet(sockets) /\ AtMostOne(sockets)
      /\ listing = << >> /\ at = 1 /\ named = 0 /\ incomplete \in BOOLEAN
  BY <1>1 DEF WalkInv, SocketsInv, ListingInv, NamesInv
<1>3. PICK n \in Nat : n = Cardinality(sockets)
  BY <1>2, FS_CardinalityType
<1>4. PICK order \in SetToSeqs(sockets) :
        listing' = [i \in DOMAIN order |-> Named(order[i], NoName)]
  BY DEF Enumerate
<1>5. /\ order \in [1 .. n -> sockets]
      /\ \A i, j \in 1 .. n : i # j => order[i] # order[j]
  BY <1>3 DEF SetToSeqs
<1>6. /\ DOMAIN listing' = 1 .. n /\ Len(listing') = n /\ listing' \in Seq(Told)
      /\ \A i \in 1 .. n : listing'[i] = Named(order[i], NoName) /\ order[i] \in sockets
  <2>1. \A i \in 1 .. n : order[i] \in Known /\ Named(order[i], NoName) \in Told
    BY <1>2, <1>5 DEF Told
  <2>2. listing' = [i \in 1 .. n |-> Named(order[i], NoName)]
    BY <1>4, <1>5
  <2>3. QED
    BY <1>5, <2>1, <2>2
<1>7. Distinct(listing')
  <2> SUFFICES ASSUME NEW i \in 1 .. n, NEW j \in 1 .. n,
                      listing'[i].ip = listing'[j].ip, listing'[i].port = listing'[j].port
               PROVE  i = j
    BY <1>6 DEF Distinct
  <2>1. order[i].ip = order[j].ip /\ order[i].port = order[j].port
    BY <1>6, NamedIs
  <2>2. order[i] = order[j]
    BY <1>2, <1>6, <2>1 DEF AtMostOne
  <2>3. QED
    BY <1>5, <2>2
<1>8. SocketsInv' /\ ListingInv'
  BY <1>1, <1>6, <1>7 DEF WalkInv, SocketsInv, ListingInv
<1>9. \A s \in sockets : \E i \in DOMAIN listing' : Service(listing'[i]) = Service(s)
  <2> SUFFICES ASSUME NEW s \in sockets
               PROVE  \E i \in DOMAIN listing' : Service(listing'[i]) = Service(s)
    OBVIOUS
  <2>1. PICK i \in 1 .. n : order[i] = s
    <3>1. s \in ToSet(order)
      BY <1>2, SetToSeqsAre
    <3>2. QED
      BY <1>5, <3>1 DEF ToSet
  <2>2. QED
    BY <1>6, <2>1, NamedIs
<1>10. NamesInv'
  BY <1>1, <1>2, <1>3, <1>6, <1>9 DEF NamesInv
<1>11. MetInv' /\ GatheredInv'
  BY <1>1, <1>2, <1>6, NothingMet
<1>12. SortedInv'
  BY <1>1 DEF SortedInv
<1>13. QED
  BY <1>8, <1>10, <1>11, <1>12 DEF WalkInv

LEMMA DeniedKeeps ==
  ASSUME WalkInv, ListingDenied PROVE WalkInv'
<1>1. /\ phase = "list" /\ phase' = "classify" /\ incomplete' = TRUE /\ present' = sockets
      /\ UNCHANGED <<sockets, listing, named, at, seen, assets, heard>>
  BY DEF ListingDenied
<1>2. SocketsInv' /\ ListingInv' /\ NamesInv' /\ SortedInv'
  BY <1>1 DEF WalkInv, SocketsInv, ListingInv, NamesInv, SortedInv
<1>3. MetInv' /\ GatheredInv'
  BY <1>1 DEF WalkInv, MetInv, GatheredInv
<1>4. QED
  BY <1>2, <1>3 DEF WalkInv

(* A lookup changes one entry, and of that only the name.                  *)
LEMMA NameKeeps ==
  ASSUME WalkInv, NameNext PROVE WalkInv'
<1> DEFINE m == named + 1
<1>1. /\ phase = "classify" /\ named < Len(listing) /\ named' = m
      /\ UNCHANGED <<sockets, present, at, seen, assets, heard, phase>>
  BY DEF NameNext
<1>2. /\ listing \in Seq(Told) /\ Distinct(listing) /\ named \in 0 .. Len(listing)
      /\ incomplete \in BOOLEAN /\ at = 1 /\ present \subseteq Known
  BY <1>1 DEF WalkInv, ListingInv, NamesInv
<1>3. m \in DOMAIN listing /\ m \in Nat /\ m \in 0 .. Len(listing) /\ listing[m] \in Told
  BY <1>1, <1>2
<1>4. /\ listing' \in Seq(Told) /\ DOMAIN listing' = DOMAIN listing /\ Len(listing') = Len(listing)
      /\ \A i \in DOMAIN listing \ {m} : listing'[i] = listing[i]
      /\ \A i \in DOMAIN listing :
           /\ listing'[i].ip = listing[i].ip /\ listing'[i].port = listing[i].port
           /\ listing'[i].pid = listing[i].pid
      /\ incomplete' \in BOOLEAN /\ (~incomplete' => ~incomplete)
      /\ ~incomplete' /\ listing[m].pid # NoPid => HasName(listing'[m])
  <2>1. CASE listing[m].pid = NoPid /\ UNCHANGED <<listing, incomplete>>
    BY <1>2, <2>1
  <2>2. CASE incomplete' = TRUE /\ UNCHANGED listing
    BY <1>2, <2>2
  <2>3. CASE NameFound /\ UNCHANGED incomplete
    <3>1. PICK s \in Known : /\ s.pid = listing[m].pid
                             /\ listing' = [listing EXCEPT ![m] = Named(@, s.proc)]
      BY <2>3 DEF NameFound
    <3>2. PICK r \in Known : \E name : listing[m] = Named(r, name)
      BY <1>3 DEF Told
    <3>3. PICK new : new = Named(listing[m], s.proc)
      OBVIOUS
    <3>4. /\ new.ip = listing[m].ip /\ new.port = listing[m].port /\ new.pid = listing[m].pid
          /\ new.proc = s.proc
      BY <3>3, NamedIs
    <3>5. new \in Told
      <4>1. r.pid = s.pid
        BY <3>1, <3>2, NamedIs
      <4>2. r.proc = s.proc
        BY <4>1, WalkAssumption
      <4>3. new = Named(r, r.proc)
        BY <3>2, <3>3, <4>2, NamedIs
      <4>4. QED
        BY <4>3 DEF Told
    <3>6. HasName(new)
      BY <3>1, <3>4, WalkAssumption DEF HasName
    <3>7. listing' = [listing EXCEPT ![m] = new]
      BY <3>1, <3>3
    <3>8. /\ listing' \in Seq(Told) /\ DOMAIN listing' = DOMAIN listing
          /\ Len(listing') = Len(listing) /\ listing'[m] = new
          /\ \A i \in DOMAIN listing \ {m} : listing'[i] = listing[i]
      BY <1>2, <1>3, <3>5, <3>7
    <3>9. QED
      BY <1>2, <2>3, <3>4, <3>6, <3>8
  <2>4. QED
    BY <2>1, <2>2, <2>3 DEF NameNext
<1> HIDE DEF m
<1>5. SocketsInv' /\ SortedInv'
  BY <1>1 DEF WalkInv, SocketsInv, SortedInv
<1>6. ListingInv'
  <2>1. Distinct(listing')
    BY <1>2, <1>4 DEF Distinct
  <2>2. QED
    BY <1>1, <1>4, <2>1 DEF ListingInv
<1>7. NamesInv'
  <2>1. ASSUME ~incomplete', NEW s \in present
        PROVE  \E i \in DOMAIN listing' : Service(listing'[i]) = Service(s)
    <3>1. PICK i \in DOMAIN listing : Service(listing[i]) = Service(s)
      BY <1>1, <1>4, <2>1 DEF WalkInv, NamesInv
    <3>2. QED
      BY <1>4, <3>1 DEF Service
  <2>2. ASSUME ~incomplete', NEW i \in 1 .. named', listing'[i].pid # NoPid
        PROVE  HasName(listing'[i])
    <3>1. CASE i = m
      BY <1>3, <1>4, <2>2, <3>1
    <3>2. CASE i # m
      <4>1. i \in 1 .. named /\ i \in DOMAIN listing \ {m}
        BY <1>1, <1>2, <2>2, <3>2 DEF m
      <4>2. QED
        BY <1>1, <1>4, <2>2, <4>1 DEF WalkInv, NamesInv
    <3>3. QED
      BY <3>1, <3>2
  <2>3. QED
    BY <1>1, <1>2, <1>3, <1>4, <2>1, <2>2 DEF NamesInv
<1>8. MetInv' /\ GatheredInv'
  BY <1>1, <1>2, <1>4, NothingMet
<1>9. QED
  BY <1>5, <1>6, <1>7, <1>8 DEF WalkInv

(* The next socket of the list.                                            *)
LEMMA NextSocket ==
  ASSUME WalkInv, phase = "classify", at <= Len(listing)
  PROVE  /\ at \in Nat /\ at >= 1 /\ at \in 1 .. Len(listing) /\ at + 1 \in 1 .. Len(listing) + 1
         /\ listing[at] \in Told
         /\ Service(listing[at]) \in seen <=> ~First(listing, at)
<1>1. /\ listing \in Seq(Told) /\ at \in 1 .. Len(listing) + 1
      /\ seen = {Service(listing[i]) : i \in 1 .. at - 1}
  BY DEF WalkInv, ListingInv, MetInv
<1>2. QED
  BY <1>1 DEF First

(* What is heard of it is put behind what was heard of the others.         *)
LEMMA HeardMore ==
  ASSUME WalkInv, phase = "classify", at <= Len(listing), at' = at + 1,
         NEW answer \in Hearable, heard' = Append(heard, answer)
  PROVE  /\ heard' \in Seq(Hearable) /\ Len(heard') = at' - 1 /\ heard'[at] = answer
         /\ \A i \in 1 .. at - 1 : heard'[i] = heard[i]
<1>1. heard \in Seq(Hearable) /\ Len(heard) = at - 1
  BY DEF WalkInv, MetInv
<1>2. at \in Nat /\ at >= 1
  BY NextSocket
<1>3. QED
  BY <1>1, <1>2

LEMMA SkipKeeps ==
  ASSUME WalkInv, SkipKnown PROVE WalkInv'
<1>1. /\ phase = "classify" /\ named = Len(listing) /\ at <= Len(listing)
      /\ Service(listing[at]) \in seen
      /\ heard' = Append(heard, Silent) /\ at' = at + 1
      /\ UNCHANGED <<sockets, present, listing, named, incomplete, seen, assets, phase>>
  BY DEF SkipKnown, Classifying
<1>2. /\ at \in Nat /\ at >= 1 /\ at' \in 1 .. Len(listing) + 1 /\ ~First(listing, at)
  BY <1>1, NextSocket
<1>3. Silent \in Hearable
  BY DEF Hearable
<1>4. /\ heard' \in Seq(Hearable) /\ Len(heard') = at' - 1
      /\ \A i \in 1 .. at - 1 : heard'[i] = heard[i]
  BY <1>1, <1>3, HeardMore
<1>5. SocketsInv' /\ ListingInv' /\ NamesInv' /\ SortedInv'
  BY <1>1 DEF WalkInv, SocketsInv, ListingInv, NamesInv, SortedInv
<1>6. MetInv'
  <2>1. /\ \A i \in 1 .. at' - 1 : i \in 1 .. at - 1 \/ i = at
        /\ \A i \in 1 .. at - 1 : i \in 1 .. at' - 1
    BY <1>1, <1>2
  <2>2. seen = {Service(listing[i]) : i \in 1 .. at - 1}
    BY DEF WalkInv, MetInv
  <2>3. seen = {Service(listing[i]) : i \in 1 .. at' - 1}
    BY <1>1, <2>1, <2>2
  <2>4. QED
    BY <1>1, <1>2, <1>4, <2>3 DEF MetInv
<1>7. GatheredInv'
  <2>1. PICK n \in Nat : n = at - 1 /\ n + 1 = at
    BY <1>2
  <2>2. Gathered(listing, heard', at) = Gathered(listing, heard, n) \cup {}
    <3>1. PICK none : none = {}
      OBVIOUS
    <3>2. none = IF First(listing, at) THEN Classify(listing[at], heard'[at]) ELSE {}
      BY <1>2, <3>1
    <3>3. \A i \in 1 .. n : heard'[i] = heard[i]
      BY <1>4, <2>1
    <3>4. Gathered(listing, heard', at) = With(Gathered(listing, heard, n), none)
      BY <2>1, <3>2, <3>3, GatheredGrows
    <3>5. QED
      BY <3>1, <3>4 DEF With
  <2>3. at = at' - 1
    BY <1>1, <1>2, <2>1
  <2>4. QED
    BY <1>1, <2>1, <2>2, <2>3 DEF WalkInv, GatheredInv
<1>8. QED
  BY <1>5, <1>6, <1>7 DEF WalkInv

(* The assets of a service that was not met join those of others.          *)
LEMMA JoinedApart ==
  ASSUME NEW list \in Seq(Assets), Apart(list), NEW new, new \subseteq Assets, IsFiniteSet(new),
         NEW service, \A a \in ToSet(list) : ServiceOf(a) # service,
         \A a \in new : ServiceOf(a) = service, \A a, b \in new : a = b
  PROVE  /\ list \o SetToSeq(new) \in Seq(Assets)
         /\ ToSet(list \o SetToSeq(new)) = ToSet(list) \cup new
         /\ Apart(list \o SetToSeq(new))
<1>1. /\ SetToSeq(new) \in Seq(new) /\ ToSet(SetToSeq(new)) = new /\ IsInjective(SetToSeq(new))
  BY SetToSeqIs
<1>2. PICK t \in Seq(Assets) : t = SetToSeq(new) /\ ToSet(t) = new /\ IsInjective(t)
  BY <1>1
<1>3. PICK q : q = list \o t
  OBVIOUS
<1>4. /\ q \in Seq(Assets) /\ Len(list) \in Nat /\ Len(t) \in Nat
      /\ Len(q) = Len(list) + Len(t)
      /\ \A i \in 1 .. Len(list) : q[i] = list[i]
      /\ \A i \in 1 .. Len(t) : q[Len(list) + i] = t[i]
      /\ ToSet(q) = ToSet(list) \union new
  BY <1>2, <1>3, ConcatHas
<1>5. ASSUME NEW i \in DOMAIN q
      PROVE  \/ i \in 1 .. Len(list) /\ q[i] = list[i] /\ q[i] \in ToSet(list)
             \/ \E k \in 1 .. Len(t) : i = Len(list) + k /\ q[i] = t[k] /\ t[k] \in new
  <2>1. i \in 1 .. Len(list) + Len(t) /\ DOMAIN list = 1 .. Len(list) /\ DOMAIN t = 1 .. Len(t)
    BY <1>4
  <2>2. CASE i <= Len(list)
    BY <1>4, <2>1, <2>2 DEF ToSet
  <2>3. CASE ~(i <= Len(list))
    <3>1. PICK k \in 1 .. Len(t) : i = Len(list) + k
      <4>1. i - Len(list) \in 1 .. Len(t) /\ i = Len(list) + (i - Len(list))
        BY <1>4, <2>1, <2>3
      <4>2. QED
        BY <4>1
    <3>2. t[k] \in new
      BY <1>2, <2>1 DEF ToSet
    <3>3. QED
      BY <1>4, <3>1, <3>2
  <2>4. QED
    BY <2>2, <2>3
<1>6. DOMAIN list = 1 .. Len(list) /\ DOMAIN t = 1 .. Len(t)
  BY <1>4
<1>7. ASSUME NEW i \in DOMAIN q, NEW j \in DOMAIN q, ServiceOf(q[i]) = ServiceOf(q[j])
      PROVE  i = j
  <2>1. CASE i \in 1 .. Len(list) /\ q[i] = list[i] /\ q[i] \in ToSet(list)
    <3>1. ServiceOf(q[i]) # service
      BY <2>1
    <3>2. j \in 1 .. Len(list) /\ q[j] = list[j]
      BY <1>5, <1>7, <3>1
    <3>3. QED
      BY <1>6, <1>7, <2>1, <3>2 DEF Apart
  <2>2. ASSUME NEW k \in 1 .. Len(t), i = Len(list) + k, q[i] = t[k], t[k] \in new PROVE i = j
    <3>1. ServiceOf(q[j]) = service
      BY <1>7, <2>2
    <3>2. PICK l \in 1 .. Len(t) : j = Len(list) + l /\ q[j] = t[l] /\ t[l] \in new
      BY <1>5, <3>1
    <3>3. t[k] = t[l]
      BY <2>2, <3>2
    <3>4. k = l
      BY <1>2, <1>6, <3>3 DEF IsInjective
    <3>5. QED
      BY <2>2, <3>2, <3>4
  <2>3. QED
    BY <1>5, <2>1, <2>2
<1>8. Apart(q)
  BY <1>7 DEF Apart
<1>9. QED
  BY <1>2, <1>3, <1>4, <1>8

(* What was gathered so far is of services that were met.                  *)
LEMMA GatheredWasMet ==
  ASSUME WalkInv, NEW a \in ToSet(assets)
  PROVE  \E i \in 1 .. at - 1 :
           /\ First(listing, i) /\ a \in Classify(listing[i], heard[i])
           /\ i \in DOMAIN listing /\ listing[i] \in Told /\ heard[i] \in Hearable
           /\ ServiceOf(a) = Service(listing[i]) /\ ServiceOf(a) \in seen
<1>1. a \in Gathered(listing, heard, at - 1)
  BY DEF WalkInv, GatheredInv
<1>2. PICK i \in 1 .. at - 1 : First(listing, i) /\ a \in Classify(listing[i], heard[i])
  BY <1>1 DEF Gathered
<1>3. /\ listing \in Seq(Told) /\ heard \in Seq(Hearable) /\ Len(heard) = at - 1
      /\ at \in 1 .. Len(listing) + 1 /\ seen = {Service(listing[k]) : k \in 1 .. at - 1}
  BY DEF WalkInv, ListingInv, MetInv
<1>4. i \in DOMAIN listing /\ listing[i] \in Told /\ heard[i] \in Hearable
  BY <1>3
<1>5. ServiceOf(a) = Service(listing[i])
  BY <1>2, <1>4, ClassifyGives
<1>6. QED
  BY <1>2, <1>3, <1>4, <1>5

LEMMA ClassifyKeeps ==
  ASSUME WalkInv, ClassifyNext PROVE WalkInv'
<1>1. /\ phase = "classify" /\ named = Len(listing) /\ at <= Len(listing)
      /\ Service(listing[at]) \notin seen
      /\ seen' = seen \cup {Service(listing[at])} /\ at' = at + 1
      /\ UNCHANGED <<sockets, present, listing, named, incomplete, phase>>
  BY DEF ClassifyNext, Classifying
<1>2. /\ at \in Nat /\ at >= 1 /\ at' \in 1 .. Len(listing) + 1 /\ First(listing, at)
      /\ listing[at] \in Told
  BY <1>1, NextSocket
<1>3. PICK answer \in Hearable :
        /\ assets' = assets \o SetToSeq(Classify(listing[at], answer))
        /\ heard' = Append(heard, answer)
  <2>1. sockets \in SUBSET Known
    BY DEF WalkInv, SocketsInv
  <2>2. Audible(listing[at]) \subseteq Hearable
    BY <2>1, AudibleIs
  <2>3. QED
    BY <2>2 DEF ClassifyNext
<1>4. /\ heard' \in Seq(Hearable) /\ Len(heard') = at' - 1 /\ heard'[at] = answer
      /\ \A i \in 1 .. at - 1 : heard'[i] = heard[i]
  BY <1>1, <1>3, HeardMore
<1>5. SocketsInv' /\ ListingInv' /\ NamesInv' /\ SortedInv'
  BY <1>1 DEF WalkInv, SocketsInv, ListingInv, NamesInv, SortedInv
<1>6. MetInv'
  <2>1. /\ \A i \in 1 .. at' - 1 : i \in 1 .. at - 1 \/ i = at
        /\ \A i \in 1 .. at - 1 : i \in 1 .. at' - 1
        /\ at \in 1 .. at' - 1
    BY <1>1, <1>2
  <2>2. seen = {Service(listing[i]) : i \in 1 .. at - 1}
    BY DEF WalkInv, MetInv
  <2>3. seen' = {Service(listing[i]) : i \in 1 .. at' - 1}
    BY <1>1, <2>1, <2>2
  <2>4. QED
    BY <1>1, <1>2, <1>4, <2>3 DEF MetInv
<1>7. GatheredInv'
  <2>1. PICK new : new = Classify(listing[at], answer)
    OBVIOUS
  <2>2. /\ new \subseteq Assets /\ IsFiniteSet(new) /\ \A a, b \in new : a = b
        /\ \A a \in new : ServiceOf(a) = Service(listing[at])
    BY <1>2, <2>1, ClassifyGives
  <2>3. /\ assets \in Seq(Assets) /\ Apart(assets)
        /\ ToSet(assets) = Gathered(listing, heard, at - 1)
    BY DEF WalkInv, GatheredInv
  <2>4. \A a \in ToSet(assets) : ServiceOf(a) # Service(listing[at])
    BY <1>1, GatheredWasMet
  <2>5. /\ assets' \in Seq(Assets) /\ Apart(assets') /\ ToSet(assets') = ToSet(assets) \cup new
    BY <1>3, <2>1, <2>2, <2>3, <2>4, JoinedApart
  <2>6. PICK n \in Nat : n = at - 1 /\ n + 1 = at
    BY <1>2
  <2>7. Gathered(listing, heard', at) = With(Gathered(listing, heard, n), new)
    <3>1. new = IF First(listing, at) THEN Classify(listing[at], heard'[at]) ELSE {}
      BY <1>2, <1>4, <2>1
    <3>2. \A i \in 1 .. n : heard'[i] = heard[i]
      BY <1>4, <2>6
    <3>3. QED
      BY <2>6, <3>1, <3>2, GatheredGrows
  <2>8. at = at' - 1
    BY <1>1, <1>2, <2>6
  <2>9. QED
    BY <1>1, <2>3, <2>5, <2>6, <2>7, <2>8 DEF GatheredInv, With
<1>8. QED
  BY <1>5, <1>6, <1>7 DEF WalkInv

LEMMA AssembleKeeps ==
  ASSUME WalkInv, Assemble PROVE WalkInv'
<1>1. /\ phase = "classify" /\ at > Len(listing) /\ assets' = InOrder(assets) /\ phase' = "done"
      /\ named = Len(listing)
      /\ UNCHANGED <<sockets, present, listing, named, incomplete, at, seen, heard>>
  BY DEF Assemble, Classifying
<1>2. /\ assets \in Seq(Assets) /\ Apart(assets)
      /\ ToSet(assets) = Gathered(listing, heard, at - 1)
  BY DEF WalkInv, GatheredInv
<1>3. /\ assets' \in Seq(Assets) /\ ToSet(assets') = ToSet(assets) /\ Apart(assets')
  BY <1>1, <1>2, InOrderKeeps DEF Apart
<1>4. SocketsInv' /\ NamesInv' /\ MetInv' /\ GatheredInv'
  BY <1>1, <1>2, <1>3 DEF WalkInv, SocketsInv, NamesInv, MetInv, GatheredInv
<1>5. ListingInv'
  <2>1. at = Len(listing) + 1
    <3>1. at \in 1 .. Len(listing) + 1 /\ listing \in Seq(Told)
      BY DEF WalkInv, MetInv, ListingInv
    <3>2. QED
      BY <1>1, <3>1
  <2>2. QED
    BY <1>1, <2>1 DEF WalkInv, ListingInv
<1>6. SortedInv'
  <2>1. /\ assets \in Seq(Assets) /\ assets' = InOrder(assets)
        /\ ToSet(assets) = ToSet(assets') /\ Apart(assets)
    BY <1>1, <1>2, <1>3
  <2>2. QED
    BY <2>1 DEF SortedInv
<1>7. QED
  BY <1>4, <1>5, <1>6 DEF WalkInv

LEMMA WalkStep ==
  ASSUME WalkInv, [WalkNext]_walkVars PROVE WalkInv'
<1>1. CASE ServiceChanges
  BY <1>1, ChangeKeeps
<1>2. CASE Enumerate
  BY <1>2, EnumerateKeeps
<1>3. CASE SkipKnown
  BY <1>3, SkipKeeps
<1>4. CASE ClassifyNext
  BY <1>4, ClassifyKeeps
<1>5. CASE Assemble
  BY <1>5, AssembleKeeps
<1>6. CASE ListingDenied
  BY <1>6, DeniedKeeps
<1>7. CASE NameNext
  BY <1>7, NameKeeps
<1>8. CASE UNCHANGED walkVars
  BY <1>8 DEF walkVars, WalkInv, SocketsInv, ListingInv, NamesInv, MetInv, GatheredInv, SortedInv
<1>9. QED
  BY <1>1, <1>2, <1>3, <1>4, <1>5, <1>6, <1>7, <1>8 DEF WalkNext, Walk

(* The walk keeps its books, whatever happens around it (collect.py:86-105). *)
THEOREM WalkInvariant == WalkSpec => []WalkInv
<1>1. WalkInit => WalkInv
  BY WalkBegins
<1>2. WalkInv /\ [WalkNext]_walkVars => WalkInv'
  BY WalkStep
<1>3. QED
  BY <1>1, <1>2, PTL DEF WalkSpec

----------------------------------------------------------------------------
(* The properties.                                                         *)

(* The bind addresses of a service, however many and in whatever order     *)
(* they are listed, give one asset at the most (collect.py:91-96).         *)
THEOREM ServicesAreApart == WalkSpec => []OneAssetPerService
<1>1. WalkInv => OneAssetPerService
  BY DEF WalkInv, GatheredInv, Apart, ServiceOf, OneAssetPerService
<1>2. QED
  BY <1>1, WalkInvariant, PTL

(* Of the sockets of one service one was listed first.                     *)
LEMMA FirstExists ==
  ASSUME NEW list \in Seq(Told), NEW k \in DOMAIN list
  PROVE  \E i \in DOMAIN list : First(list, i) /\ Service(list[i]) = Service(list[k])
<1> DEFINE T == {i \in DOMAIN list : Service(list[i]) = Service(list[k])}
<1>1. DOMAIN list = 1 .. Len(list) /\ Len(list) \in Nat
  OBVIOUS
<1>2. T \in SUBSET Nat /\ k \in T
  BY <1>1
<1>3. PICK i \in T : \A j \in T : i <= j
  <2> HIDE DEF T
  <2>1. QED
    BY <1>2, LeastElement
<1>4. ASSUME NEW j \in 1 .. i - 1 PROVE Service(list[j]) # Service(list[i])
  <2>1. j \in DOMAIN list /\ ~(i <= j)
    BY <1>1, <1>2, <1>3
  <2>2. QED
    BY <1>3, <2>1
<1>5. QED
  BY <1>3, <1>4 DEF First

(* A process that is known by its name is in the inventory under that      *)
(* name, with high confidence, whatever answers, times out, stops or       *)
(* starts during the walk: where all its sockets on the port were listed   *)
(* with the name, and where the inventory has no mark, wherever it listened *)
(* (classify.py:13-20, 86-92, sockets.py:89-112).                          *)
THEOREM NamesAreListed == WalkSpec => []NamedIsListed
<1>1. ASSUME WalkInv, phase = "done", NEW s \in Listed, s.proc \in DOMAIN Signature,
             \A t \in Listed : Service(t) = Service(s) => t.proc = s.proc
      PROVE  UnderItsName(s)
  <2>1. /\ listing \in Seq(Told) /\ at - 1 = Len(listing)
        /\ heard \in Seq(Hearable) /\ Len(heard) = at - 1
        /\ Found = Gathered(listing, heard, at - 1)
    <3>1. Found = ToSet(assets)
      BY DEF Found, ToSet
    <3>2. QED
      BY <1>1, <3>1 DEF WalkInv, ListingInv, MetInv, GatheredInv
  <2>2. PICK k \in DOMAIN listing : listing[k] = s
    BY DEF Listed
  <2>3. PICK i \in DOMAIN listing : First(listing, i) /\ Service(listing[i]) = Service(listing[k])
    BY <2>1, FirstExists
  <2>4. i \in 1 .. at - 1 /\ heard[i] \in Hearable /\ listing[i] \in Told
    BY <2>1, <2>2
  <2>5. listing[i] \in Listed
    BY DEF Listed
  <2>6. listing[i].proc = s.proc
    BY <1>1, <2>2, <2>3, <2>5
  <2>7. PICK p \in Product : p = Signature[s.proc]
    BY <1>1, InventoryAssumption
  <2>8. Classify(listing[i], heard[i]) = {Asset(listing[i], p, "high")}
    BY <1>1, <2>4, <2>6, <2>7, ClassifyIs
  <2>9. PICK a : a = Asset(listing[i], p, "high")
    OBVIOUS
  <2>10. a \in Gathered(listing, heard, at - 1)
    BY <2>3, <2>4, <2>8, <2>9 DEF Gathered
  <2>11. ProductOf(a) = p /\ ServiceOf(a) = Service(listing[i]) /\ a.confidence = "high"
    <3>1. "high" \in Confidence
      BY DEF Confidence
    <3>2. QED
      BY <2>4, <2>9, <3>1, AssetIs
  <2>12. QED
    BY <2>1, <2>2, <2>3, <2>7, <2>10, <2>11 DEF ProductOf, ServiceOf, UnderItsName
<1>2. ASSUME WalkInv, phase = "done", ~incomplete, NEW s \in present, s.pid # NoPid,
             s.proc \in DOMAIN Signature
      PROVE  UnderItsName(s)
  <2>1. /\ listing \in Seq(Told) /\ named = Len(listing) /\ s \in Known
        /\ \A i \in 1 .. named : listing[i].pid # NoPid => HasName(listing[i])
    BY <1>2 DEF WalkInv, ListingInv, NamesInv
  <2>2. PICK i \in DOMAIN listing : Service(listing[i]) = Service(s)
    BY <1>2 DEF WalkInv, NamesInv
  <2>3. ASSUME NEW j \in DOMAIN listing, Service(listing[j]) = Service(s)
        PROVE  listing[j].proc = s.proc
    <3>1. listing[j].pid = s.pid /\ j \in 1 .. named
      BY <2>1, <2>3 DEF Service
    <3>2. QED
      BY <1>2, <2>1, <3>1 DEF HasName
  <2>4. listing[i] \in Listed /\ listing[i].proc = s.proc
    BY <2>2, <2>3 DEF Listed
  <2>5. \A t \in Listed : Service(t) = Service(listing[i]) => t.proc = listing[i].proc
    BY <2>2, <2>3, <2>4 DEF Listed
  <2>6. UnderItsName(listing[i])
    BY <1>1, <1>2, <2>4, <2>5
  <2>7. QED
    BY <2>2, <2>4, <2>6 DEF UnderItsName
<1>3. WalkInv => NamedIsListed
  BY <1>1, <1>2 DEF NamedIsListed
<1>4. QED
  BY <1>3, WalkInvariant, PTL

----------------------------------------------------------------------------
(* The order of the listing.                                               *)

Single(socks) == \A s, t \in socks : s # t => Service(s) # Service(t)

(* Of services with one socket each, every socket counts.                  *)
LEMMA FirstSeenIsAll ==
  ASSUME NEW X, NEW order \in Seq(X), IsInjective(order), Single(ToSet(order))
  PROVE  FirstSeen(order) = order /\ \A i \in DOMAIN order : First(order, i)
<1> DEFINE all == [i \in DOMAIN order |-> i]
           first == {i \in DOMAIN order :
                       \A j \in 1 .. i - 1 : Service(order[j]) # Service(order[i])}
           kept == Sift(all, first)
<1>1. DOMAIN order = 1 .. Len(order) /\ Len(order) \in Nat
  OBVIOUS
<1>2. ASSUME NEW i \in DOMAIN order, NEW j \in 1 .. i - 1
      PROVE  Service(order[j]) # Service(order[i])
  <2>1. j \in DOMAIN order /\ j # i
    BY <1>1, <1>2
  <2>2. order[j] # order[i] /\ order[j] \in ToSet(order) /\ order[i] \in ToSet(order)
    BY <1>2, <2>1 DEF IsInjective, ToSet
  <2>3. QED
    BY <2>2 DEF Single
<1>3. all \in Seq(Nat) /\ DOMAIN all = DOMAIN order /\ \A i \in DOMAIN order : all[i] = i
  BY <1>1
<1>4. ToSet(all) \subseteq first
  BY <1>2, <1>3 DEF ToSet
<1>5. kept = all
  <2> HIDE DEF all, first
  <2>1. QED
    BY <1>3, <1>4, SiftKeepsAll
<1>6. FirstSeen(order) = [k \in DOMAIN kept |-> order[kept[k]]]
  BY DEF FirstSeen
<1>7. [k \in DOMAIN kept |-> order[kept[k]]] = order
  <2> HIDE DEF kept, all
  <2>1. \A k \in DOMAIN kept : order[kept[k]] = order[k]
    BY <1>3, <1>5
  <2>2. DOMAIN kept = DOMAIN order
    BY <1>3, <1>5
  <2>3. order = [k \in DOMAIN order |-> order[k]]
    OBVIOUS
  <2>4. QED
    BY <2>1, <2>2, <2>3
<1>8. QED
  BY <1>2, <1>6, <1>7 DEF First

(* What sockets give when each is classified by what was heard of it.      *)
Given(socks, ears) == UNION {Classify(s, ears[s]) : s \in socks}

LEMMA ListedOnceGives ==
  ASSUME NEW order \in Seq(Told), IsInjective(order), Single(ToSet(order)),
         NEW ears, \A s \in ToSet(order) : ears[s] \in Hearable
  PROVE  \E flat \in Seq(Assets) :
           /\ SocketAssets(order, ears) = InOrder(flat)
           /\ IsInjective(flat) /\ ToSet(flat) = Given(ToSet(order), ears)
<1> DEFINE piece(i) == Classify(order[i], ears[order[i]])
           pieces == [i \in DOMAIN order |-> SetToSeq(piece(i))]
           flat == FlattenSeq(pieces)
<1>1. FirstSeen(order) = order
  BY FirstSeenIsAll
<1>2. SocketAssets(order, ears) = InOrder(flat)
  BY <1>1 DEF SocketAssets
<1>3. /\ DOMAIN order = 1 .. Len(order) /\ Len(order) \in Nat
      /\ \A i \in DOMAIN order : order[i] \in Told /\ order[i] \in ToSet(order)
  BY DEF ToSet
<1>4. ASSUME NEW i \in DOMAIN order
      PROVE  /\ SetToSeq(piece(i)) \in Seq(Assets) /\ IsInjective(SetToSeq(piece(i)))
             /\ ToSet(SetToSeq(piece(i))) = piece(i)
             /\ \A a \in piece(i) : ServiceOf(a) = Service(order[i])
  <2>1. order[i] \in Told /\ ears[order[i]] \in Hearable
    BY <1>3
  <2>2. /\ IsFiniteSet(piece(i)) /\ piece(i) \subseteq Assets
        /\ \A a \in piece(i) : ServiceOf(a) = Service(order[i])
    BY <2>1, ClassifyGives
  <2> HIDE DEF piece
  <2>3. /\ SetToSeq(piece(i)) \in Seq(piece(i)) /\ IsInjective(SetToSeq(piece(i)))
        /\ ToSet(SetToSeq(piece(i))) = piece(i)
    BY <2>2, SetToSeqIs
  <2>4. QED
    BY <2>2, <2>3
<1>5. /\ DOMAIN pieces = DOMAIN order /\ pieces \in Seq(Seq(Assets)) /\ Len(pieces) = Len(order)
      /\ \A i \in DOMAIN order : pieces[i] = SetToSeq(piece(i))
  <2> HIDE DEF piece
  <2>1. \A i \in DOMAIN order : SetToSeq(piece(i)) \in Seq(Assets)
    BY <1>4
  <2>2. QED
    BY <1>3, <2>1
<1>6. /\ \A i \in DOMAIN pieces : IsInjective(pieces[i])
      /\ \A i \in DOMAIN pieces : ToSet(pieces[i]) = piece(i)
  <2> HIDE DEF piece, pieces
  <2>1. QED
    BY <1>4, <1>5
<1>7. \A i, j \in DOMAIN pieces : i # j => ToSet(pieces[i]) \cap ToSet(pieces[j]) = {}
  <2>1. ASSUME NEW i \in DOMAIN order, NEW j \in DOMAIN order, NEW a, a \in piece(i), a \in piece(j)
        PROVE  i = j
    <3>1. Service(order[i]) = Service(order[j])
      <4> HIDE DEF piece
      <4>1. QED
        BY <1>4, <2>1
    <3>2. order[i] = order[j]
      BY <1>3, <3>1 DEF Single
    <3>3. QED
      BY <3>2 DEF IsInjective
  <2> HIDE DEF piece, pieces
  <2>2. QED
    BY <1>5, <1>6, <2>1
<1>8. /\ flat \in Seq(Assets) /\ IsInjective(flat) /\ ToSet(flat) = UpTo(pieces, Len(pieces))
  <2> HIDE DEF pieces
  <2>1. QED
    BY <1>5, <1>6, <1>7, FlattenHas DEF AllApart
<1>9. UpTo(pieces, Len(pieces)) = Given(ToSet(order), ears)
  <2>1. \A i \in 1 .. Len(pieces) : ToSet(pieces[i]) = piece(i) /\ i \in DOMAIN order
    <3> HIDE DEF pieces, piece
    <3>1. QED
      BY <1>3, <1>5, <1>6
  <2>2. UpTo(pieces, Len(pieces)) = UNION {piece(i) : i \in DOMAIN order}
    <3> HIDE DEF pieces, piece
    <3>1. QED
      BY <1>3, <1>5, <2>1 DEF UpTo
  <2>3. UNION {piece(i) : i \in DOMAIN order} = Given(ToSet(order), ears)
    BY DEF Given, ToSet
  <2>4. QED
    BY <2>2, <2>3
<1>10. QED
  <2> HIDE DEF flat
  <2>1. QED
    BY <1>2, <1>8, <1>9

(* Assets of different sockets differ in what they are sorted by.          *)
LEMMA RankTells ==
  ASSUME NEW socks \in SUBSET Told, AtMostOne(socks),
         NEW ears, \A s \in socks : ears[s] \in Hearable,
         NEW a \in Given(socks, ears), NEW b \in Given(socks, ears), Rank(a) = Rank(b)
  PROVE  a = b
<1>1. PICK s \in socks : a \in Classify(s, ears[s])
  BY DEF Given
<1>2. PICK t \in socks : b \in Classify(t, ears[t])
  BY DEF Given
<1>3. /\ a \in Assets /\ a.ip = s.ip /\ a.port = s.port
  BY <1>1, ClassifyGives
<1>4. /\ b \in Assets /\ b.ip = t.ip /\ b.port = t.port
  BY <1>2, ClassifyGives
<1>5. a.ip = b.ip /\ a.port = b.port
  BY <1>3, <1>4, SameRank
<1>6. s = t
  BY <1>3, <1>4, <1>5 DEF AtMostOne
<1>7. QED
  BY <1>1, <1>2, <1>6, ClassifyGives

(* Where every socket is a service of its own, the inventory does not tell *)
(* in which order the operating system listed them (collect.py:108-110).   *)
THEOREM OrderDoesNotShow == WalkSpec => []OrderOnlyMattersForStacks
<1>1. ASSUME WalkInv, phase = "done", Single(Listed), NEW order \in SetToSeqs(Listed)
      PROVE  SocketAssets(order, HeardOf) = assets
  <2>1. /\ listing \in Seq(Told) /\ IsInjective(listing) /\ AtMostOne(ToSet(listing))
        /\ at - 1 = Len(listing) /\ heard \in Seq(Hearable) /\ Len(heard) = at - 1
        /\ ToSet(assets) = Gathered(listing, heard, at - 1)
    <3>1. IsInjective(listing) /\ AtMostOne(ToSet(listing))
      BY <1>1 DEF WalkInv, ListingInv, Distinct, IsInjective, AtMostOne, ToSet
    <3>2. QED
      BY <1>1, <3>1 DEF WalkInv, ListingInv, MetInv, GatheredInv
  <2>2. /\ Listed = ToSet(listing) /\ Listed \subseteq Told
        /\ DOMAIN listing = 1 .. Len(listing) /\ DOMAIN heard = 1 .. Len(listing)
        /\ Len(listing) \in Nat
    BY <2>1 DEF Listed, ToSet
  <2>3. IsFiniteSet(Listed)
    <3>1. IsFiniteSet(DOMAIN listing)
      BY <2>2, FS_Interval
    <3>2. listing \in Surjection(DOMAIN listing, Listed)
      BY <2>1 DEF Surjection, Listed
    <3>3. QED
      BY <3>1, <3>2, FS_Surjection
  <2>4. order \in Seq(Told) /\ ToSet(order) = Listed /\ IsInjective(order)
    <3>1. order \in Seq(Listed) /\ ToSet(order) = Listed /\ IsInjective(order)
      BY <2>3, SetToSeqsAre
    <3>2. QED
      BY <2>2, <3>1
  <2>5. PICK ears : ears = HeardOf
    OBVIOUS
  <2>6. ASSUME NEW i \in DOMAIN listing
        PROVE  ears[listing[i]] = heard[i] /\ heard[i] \in Hearable
    <3>1. \A k \in DOMAIN listing : listing[k] = listing[i] => k = i
      BY <2>1 DEF IsInjective
    <3>2. (CHOOSE k \in DOMAIN listing : listing[k] = listing[i]) = i
      BY <3>1
    <3>3. listing[i] \in Listed
      BY DEF Listed
    <3>4. QED
      BY <2>1, <2>2, <2>5, <3>2, <3>3 DEF HeardOf
  <2>7. \A s \in Listed : ears[s] \in Hearable
    BY <2>6 DEF Listed
  <2>8. Gathered(listing, heard, at - 1) = Given(Listed, ears)
    <3>1. \A i \in DOMAIN listing : First(listing, i)
      BY <1>1, <2>1, <2>2, FirstSeenIsAll
    <3>2. {k \in 1 .. at - 1 : First(listing, k)} = DOMAIN listing
      BY <2>1, <2>2, <3>1
    <3>3. Gathered(listing, heard, at - 1)
            = UNION {Classify(listing[i], heard[i]) : i \in DOMAIN listing}
      BY <3>2 DEF Gathered
    <3>4. \A i \in DOMAIN listing :
            Classify(listing[i], heard[i]) = Classify(listing[i], ears[listing[i]])
      BY <2>6
    <3>5. QED
      BY <3>3, <3>4 DEF Given, Listed
  <2>9. PICK list \in Seq(Assets) :
          assets = InOrder(list) /\ ToSet(list) = ToSet(assets) /\ Apart(list)
    BY <1>1 DEF WalkInv, SortedInv
  <2>10. IsInjective(list)
    BY <2>9 DEF IsInjective, Apart
  <2>11. PICK flat \in Seq(Assets) :
           /\ SocketAssets(order, ears) = InOrder(flat)
           /\ IsInjective(flat) /\ ToSet(flat) = Given(Listed, ears)
    BY <1>1, <2>4, <2>7, ListedOnceGives
  <2>12. \A a, b \in ToSet(list) : Rank(a) = Rank(b) => a = b
    BY <2>1, <2>2, <2>7, <2>8, <2>9, RankTells
  <2>13. InOrder(flat) = InOrder(list)
    <3>1. ToSet(flat) = ToSet(list)
      BY <2>1, <2>8, <2>9, <2>11
    <3>2. PICK rank : rank = [a \in ToSet(list) |-> Rank(a)]
      OBVIOUS
    <3>3. InOrder(flat) = SortedBy(flat, rank) /\ InOrder(list) = SortedBy(list, rank)
      BY <3>1, <3>2 DEF InOrder
    <3>4. /\ list \in Seq(ToSet(list)) /\ rank \in [ToSet(list) -> Triple]
      BY <2>9, <3>2, RanksOf
    <3>5. flat \in Seq(ToSet(list))
      BY <2>11, <3>1, ListOf
    <3>6. \A a, b \in ToSet(list) : rank[a] = rank[b] => a = b
      BY <2>12, <3>2
    <3>7. SortedBy(flat, rank) = SortedBy(list, rank)
      BY <2>10, <2>11, <3>1, <3>4, <3>5, <3>6, SortedIsUnique
    <3>8. QED
      BY <3>3, <3>7
  <2>14. QED
    BY <2>5, <2>9, <2>11, <2>13
<1>2. WalkInv => OrderOnlyMattersForStacks
  BY <1>1 DEF OrderOnlyMattersForStacks, Single
<1>3. QED
  BY <1>2, WalkInvariant, PTL

----------------------------------------------------------------------------
(* A snapshot by its facts.                                                *)

(* Digests tell the lengths of what they digest.                           *)
LEMMA LengthIs ==
  ASSUME NEW s, NEW n \in Nat, DOMAIN s = 1 .. n
  PROVE  Len(s) = n
OBVIOUS

(* The keys of a snapshot are those of its facts, and by_key has one fact  *)
(* for each.                                                               *)
LEMMA SortedIs ==
  ASSUME NEW X, NEW facts \in Seq(X), NEW s, s = Sorted(facts)
  PROVE  /\ \A f \in ToSet(facts) : f.key \in DOMAIN s
         /\ \A k \in DOMAIN s : /\ s[k] \in Seq(X) /\ Len(s[k]) \in Nat /\ Len(s[k]) >= 1
                                /\ ByKey(s)[k] \in ToSet(facts) /\ ByKey(s)[k].key = k
<1> DEFINE of(k) == {f \in ToSet(facts) : f.key = k}
<1>1. DOMAIN s = Keys(facts) /\ \A k \in Keys(facts) : s[k] = Sift(facts, of(k))
  BY DEF Sorted
<1>2. Keys(facts) = {f.key : f \in ToSet(facts)}
  BY DEF Keys, ToSet
<1>3. ASSUME NEW k \in DOMAIN s
      PROVE  /\ s[k] \in Seq(X) /\ Len(s[k]) \in Nat /\ Len(s[k]) >= 1
             /\ ByKey(s)[k] \in ToSet(facts) /\ ByKey(s)[k].key = k
  <2>1. s[k] \in Seq(X) /\ ToSet(s[k]) = ToSet(facts) \cap of(k)
    <3> HIDE DEF of
    <3>1. QED
      BY <1>1, <1>3, SiftElements
  <2>2. PICK f \in ToSet(facts) : f.key = k
    BY <1>1, <1>2, <1>3
  <2>3. f \in ToSet(s[k])
    BY <2>1, <2>2
  <2>4. PICK t \in Seq(X) : t = s[k]
    BY <2>1
  <2>5. DOMAIN t = 1 .. Len(t) /\ Len(t) \in Nat
    OBVIOUS
  <2>6. Len(t) >= 1
    BY <2>3, <2>4, <2>5 DEF ToSet
  <2>7. t[Len(t)] \in ToSet(t)
    BY <2>5, <2>6 DEF ToSet
  <2>8. ByKey(s)[k] = t[Len(t)]
    BY <1>3, <2>4 DEF ByKey
  <2>9. t[Len(t)] \in of(k)
    <3> HIDE DEF of
    <3>1. QED
      BY <2>1, <2>4, <2>7
  <2>10. QED
    BY <2>4, <2>5, <2>6, <2>8, <2>9
<1>4. QED
  BY <1>1, <1>2, <1>3

(* What is compared is what is digested.                                   *)
LEMMA SameDigest ==
  ASSUME NEW s, NEW d, Digest(d) = Digest(s),
         NEW k \in DOMAIN s, NEW n \in Nat, n >= 1, DOMAIN s[k] = 1 .. n
  PROVE  /\ DOMAIN d = DOMAIN s
         /\ ByKey(d)[k].kind = ByKey(s)[k].kind
         /\ ByKey(d)[k].detail = ByKey(s)[k].detail
<1>1. DOMAIN d = DOMAIN Digest(d) /\ DOMAIN s = DOMAIN Digest(s)
  BY DEF Digest
<1>2. DOMAIN d = DOMAIN s
  BY <1>1
<1>3. /\ Digest(d)[k] = [i \in DOMAIN d[k] |-> Hashed(d[k][i])]
      /\ Digest(s)[k] = [i \in DOMAIN s[k] |-> Hashed(s[k][i])]
  BY <1>2 DEF Digest
<1>4. DOMAIN d[k] = 1 .. n /\ Hashed(d[k][n]) = Hashed(s[k][n])
  BY <1>3
<1>5. Len(d[k]) = n /\ Len(s[k]) = n
  BY <1>4, LengthIs
<1>6. ByKey(d)[k] = d[k][n] /\ ByKey(s)[k] = s[k][n]
  BY <1>2, <1>5 DEF ByKey
<1>7. QED
  BY <1>2, <1>4, <1>6 DEF Hashed

----------------------------------------------------------------------------
(* The facts of a scan.                                                    *)

Shown(m) == {s \in m.sockets : Exposed(s)}

ServersOf(m) ==
  ToSet(PermissionServer(m.grants)) \cup ToSet(EnvServer(m.secret))
    \cup {SocketServer(s) : s \in Shown(m)}

LEMMA MachineIs ==
  ASSUME NEW m \in Machine
  PROVE  /\ m.grants \subseteq Grants /\ IsFiniteSet(m.grants)
         /\ m.secret \in Nat
         /\ m.sockets \subseteq Sockets /\ IsFiniteSet(m.sockets)
<1>1. /\ m.grants \subseteq Grants /\ m.sockets \subseteq Sockets /\ m.secret \in 0 .. MaxLine
  BY DEF Machine
<1>2. QED
  BY <1>1, PostureAssumption, FS_Subset

LEMMA SingleHas ==
  ASSUME NEW X, NEW x \in X
  PROVE  << x >> \in Seq(X) /\ ToSet(<< x >>) = {x}
<1>1. << x >> \in Seq(X) /\ DOMAIN << x >> = {1} /\ << x >>[1] = x
  OBVIOUS
<1>2. QED
  BY <1>1 DEF ToSet

(* The servers of a scan, in whatever order the sockets are listed.        *)
LEMMA ScanHas ==
  ASSUME NEW m \in Machine, NEW order \in SetToSeqs(m.sockets)
  PROVE  Scan(m, order) \in Seq(ServersOf(m)) /\ ToSet(Scan(m, order)) = ServersOf(m)
<1> DEFINE X == ServersOf(m)
           open == {s \in ToSet(order) : Exposed(s)}
           shown == Sift(order, open)
           a == PermissionServer(m.grants)
           b == EnvServer(m.secret)
           c == [i \in DOMAIN shown |-> SocketServer(shown[i])]
<1>1. order \in Seq(m.sockets) /\ ToSet(order) = m.sockets
  BY MachineIs, SetToSeqsAre
<1>2. shown \in Seq(m.sockets) /\ ToSet(shown) = Shown(m)
  <2>1. open = Shown(m) /\ ToSet(order) \cap open = Shown(m)
    BY <1>1 DEF Shown
  <2> HIDE DEF open
  <2>2. QED
    BY <1>1, <2>1, SiftElements
<1>3. DOMAIN a = 1 .. Len(a) /\ Len(a) \in Nat /\ a \in Seq(ToSet(a))
  <2>1. a = << >> \/ \E x : a = << x >>
    BY DEF PermissionServer
  <2> HIDE DEF a
  <2>2. ASSUME NEW x, a = << x >>
        PROVE  DOMAIN a = 1 .. Len(a) /\ Len(a) \in Nat /\ a \in Seq(ToSet(a))
    <3>1. << x >> \in Seq({x}) /\ ToSet(<< x >>) = {x}
      BY SingleHas
    <3>2. QED
      BY <2>2, <3>1
  <2>3. << >> \in Seq({}) /\ DOMAIN << >> = 1 .. Len(<< >>) /\ Len(<< >>) \in Nat
    OBVIOUS
  <2>4. QED
    BY <2>1, <2>2, <2>3, NothingHas
<1>4. b \in Seq(ToSet(b))
  <2>1. \E x : b = << x >>
    BY DEF EnvServer
  <2> HIDE DEF b
  <2>2. QED
    BY <2>1, SingleHas
<1>5. c \in Seq({SocketServer(s) : s \in Shown(m)}) /\ ToSet(c) = {SocketServer(s) : s \in Shown(m)}
  <2> HIDE DEF shown, open
  <2>1. DOMAIN c = DOMAIN shown /\ \A i \in DOMAIN shown : c[i] = SocketServer(shown[i])
    OBVIOUS
  <2>2. DOMAIN shown = 1 .. Len(shown) /\ Len(shown) \in Nat /\ Len(c) = Len(shown)
    BY <1>2
  <2>3. \A s : s \in Shown(m) <=> \E i \in DOMAIN shown : shown[i] = s
    BY <1>2 DEF ToSet
  <2>4. QED
    BY <2>1, <2>2, <2>3 DEF ToSet
<1>6. a \in Seq(X) /\ b \in Seq(X) /\ c \in Seq(X)
  <2> HIDE DEF a, b, c
  <2>1. ToSet(a) \subseteq X /\ ToSet(b) \subseteq X /\ ToSet(c) \subseteq X
    BY <1>5 DEF ServersOf, a, b
  <2> HIDE DEF X
  <2>2. QED
    BY <1>3, <1>4, <1>5, <2>1, ListOf
<1>7. Scan(m, order) = a \o b \o c
  BY DEF Scan
<1>8. X = ToSet(a) \cup ToSet(b) \cup ToSet(c)
  <2> HIDE DEF c
  <2>1. QED
    BY <1>5 DEF ServersOf
<1>9. QED
  <2> HIDE DEF a, b, c, X
  <2>1. PICK u : u = a \o b
    OBVIOUS
  <2>2. u \in Seq(X) /\ ToSet(u) = ToSet(a) \cup ToSet(b)
    BY <1>6, <2>1, ConcatHas
  <2>3. u \o c \in Seq(X) /\ ToSet(u \o c) = ToSet(u) \cup ToSet(c)
    BY <1>6, <2>2, ConcatHas
  <2>4. QED
    BY <1>7, <1>8, <2>1, <2>2, <2>3 DEF X

(* The facts of one server.                                                *)
FindingFact(s, f) ==
  [kind |-> "finding", key |-> <<"finding", s.id, f.id, f.path, f.line>>,
   summary |-> f.title, detail |-> [id |-> f.id]]

FactsOf(s) == <<ServerFact(s)>> \o FindingFacts(s)
FactSet(s) == {ServerFact(s)} \cup {FindingFact(s, f) : f \in ToSet(s.findings)}

LEMMA FactsHas ==
  ASSUME NEW s, NEW Y, s.findings \in Seq(Y)
  PROVE  FactsOf(s) \in Seq(FactSet(s)) /\ ToSet(FactsOf(s)) = FactSet(s)
<1> DEFINE X == FactSet(s)
           a == <<ServerFact(s)>>
           b == FindingFacts(s)
<1>1. PICK list \in Seq(Y) : list = s.findings
  OBVIOUS
<1>2. DOMAIN list = 1 .. Len(list) /\ Len(list) \in Nat
  OBVIOUS
<1>3. b = [i \in 1 .. Len(list) |-> FindingFact(s, list[i])]
  BY <1>1, <1>2 DEF FindingFacts, FindingFact
<1>4. \A f : f \in ToSet(list) <=> \E i \in 1 .. Len(list) : list[i] = f
  BY <1>2 DEF ToSet
<1>5. b \in Seq(X)
  <2>1. \A i \in 1 .. Len(list) : FindingFact(s, list[i]) \in X
    BY <1>1, <1>4 DEF FactSet
  <2> HIDE DEF X, b
  <2>2. QED
    BY <1>2, <1>3, <2>1
<1>6. DOMAIN b = 1 .. Len(list) /\ \A i \in 1 .. Len(list) : b[i] = FindingFact(s, list[i])
  <2> HIDE DEF b
  <2>1. QED
    BY <1>3
<1>7. ToSet(b) = {FindingFact(s, f) : f \in ToSet(list)}
  <2> HIDE DEF b
  <2>1. QED
    BY <1>4, <1>6 DEF ToSet
<1>8. a \in Seq(X) /\ ToSet(a) = {ServerFact(s)}
  <2>1. ServerFact(s) \in X
    BY DEF FactSet
  <2> HIDE DEF X
  <2>2. QED
    BY <2>1, SingleHas
<1>9. a \o b \in Seq(X) /\ ToSet(a \o b) = ToSet(a) \cup ToSet(b)
  <2> HIDE DEF a, b, X
  <2>1. QED
    BY <1>5, <1>8, ConcatHas
<1>10. X = ToSet(a) \cup ToSet(b)
  <2> HIDE DEF a, b
  <2>1. QED
    BY <1>1, <1>7, <1>8 DEF FactSet
<1>11. QED
  <2> HIDE DEF a, b, X
  <2>1. QED
    BY <1>9, <1>10 DEF FactsOf, a, b, X

(* What a server is, and its findings.                                     *)
LEMMA ServersAre ==
  ASSUME NEW m \in Machine, NEW s \in ServersOf(m)
  PROVE  /\ s.findings \in Seq(ToSet(s.findings))
         /\ \/ /\ m.grants # {} /\ s.id = <<"config#permissions", 0>> /\ ~s.exposed
               /\ ToSet(s.findings) = {Finding(Rule(g), ConfigFile, 0, g) : g \in m.grants}
            \/ /\ s.id = EnvFile /\ ~s.exposed
               /\ ToSet(s.findings) =
                    IF m.secret = 0 THEN {}
                    ELSE {Finding("CRED-PLAINTEXT", EnvFile, m.secret, "secret")}
            \/ \E t \in Shown(m) :
                 /\ s.id = Address(t) /\ s.exposed
                 /\ ToSet(s.findings) = {Finding("EXPOSE-BIND", Address(t), 0, "exposed")}
<1>1. CASE s \in ToSet(PermissionServer(m.grants))
  <2> DEFINE list == GrantFindings(m.grants)
             p == [id |-> <<"config#permissions", 0>>, exposed |-> FALSE, running |-> FALSE,
                   findings |-> list]
  <2>1. m.grants # {}
    BY <1>1, NothingHas DEF PermissionServer
  <2>2. PermissionServer(m.grants) = << p >>
    BY <2>1 DEF PermissionServer
  <2>3. s = p
    <3> HIDE DEF p
    <3>1. QED
      BY <1>1, <2>2, SingleHas
  <2>4. PICK allow \in Seq(m.grants) : allow = SetToSeq(m.grants) /\ ToSet(allow) = m.grants
    BY MachineIs, SetToSeqIs
  <2>5. DOMAIN allow = 1 .. Len(allow) /\ Len(allow) \in Nat
    OBVIOUS
  <2>6. list = [i \in 1 .. Len(allow) |-> Finding(Rule(allow[i]), ConfigFile, 0, allow[i])]
    BY <2>4, <2>5 DEF GrantFindings
  <2>7. /\ DOMAIN list = 1 .. Len(allow)
        /\ \A i \in 1 .. Len(allow) : list[i] = Finding(Rule(allow[i]), ConfigFile, 0, allow[i])
    <3> HIDE DEF list
    <3>1. QED
      BY <2>6
  <2>8. \A g : g \in m.grants <=> \E i \in 1 .. Len(allow) : allow[i] = g
    BY <2>4, <2>5 DEF ToSet
  <2>9. ToSet(list) = {Finding(Rule(g), ConfigFile, 0, g) : g \in m.grants}
    <3> HIDE DEF list
    <3>1. \A x : x \in ToSet(list) <=> \E i \in 1 .. Len(allow) : list[i] = x
      BY <2>7 DEF ToSet
    <3>2. \A x : x \in ToSet(list) <=> \E g \in m.grants : x = Finding(Rule(g), ConfigFile, 0, g)
      <4>1. ASSUME NEW g \in m.grants PROVE Finding(Rule(g), ConfigFile, 0, g) \in ToSet(list)
        BY <2>7, <2>8, <3>1
      <4>2. ASSUME NEW x \in ToSet(list)
            PROVE \E g \in m.grants : x = Finding(Rule(g), ConfigFile, 0, g)
        <5>1. PICK i \in 1 .. Len(allow) : list[i] = x
          BY <3>1
        <5>2. x = Finding(Rule(allow[i]), ConfigFile, 0, allow[i]) /\ allow[i] \in m.grants
          BY <2>7, <2>8, <5>1
        <5>3. QED
          BY <5>2
      <4>3. QED
        BY <4>1, <4>2
    <3>3. QED
      BY <3>2
  <2>10. list \in Seq(ToSet(list))
    <3> HIDE DEF list
    <3>1. \A i \in 1 .. Len(allow) : list[i] \in ToSet(list)
      BY <2>7 DEF ToSet
    <3>2. list = [i \in 1 .. Len(allow) |-> list[i]]
      BY <2>6, <2>7
    <3>3. list \in [1 .. Len(allow) -> ToSet(list)]
      BY <3>1, <3>2
    <3>4. QED
      BY <2>5, <3>3, ListFrom
  <2>11. s.id = <<"config#permissions", 0>> /\ ~s.exposed /\ s.findings = list
    BY <2>3
  <2>12. QED
    BY <2>1, <2>9, <2>10, <2>11
<1>2. CASE s \in ToSet(EnvServer(m.secret))
  <2> DEFINE list == IF m.secret = 0 THEN << >>
                     ELSE << Finding("CRED-PLAINTEXT", EnvFile, m.secret, "secret") >>
             e == [id |-> EnvFile, exposed |-> FALSE, running |-> FALSE, findings |-> list]
  <2>1. EnvServer(m.secret) = << e >>
    BY DEF EnvServer
  <2>2. s = e
    <3> HIDE DEF e
    <3>1. QED
      BY <1>2, <2>1, SingleHas
  <2>3. s.id = EnvFile /\ ~s.exposed /\ s.findings = list
    BY <2>2
  <2>4. /\ list \in Seq(ToSet(list))
        /\ ToSet(list) = IF m.secret = 0 THEN {}
                         ELSE {Finding("CRED-PLAINTEXT", EnvFile, m.secret, "secret")}
    <3>1. PICK f : f = Finding("CRED-PLAINTEXT", EnvFile, m.secret, "secret")
      OBVIOUS
    <3>2. << f >> \in Seq({f}) /\ ToSet(<< f >>) = {f}
      BY SingleHas
    <3>3. << >> \in Seq({})
      OBVIOUS
    <3>4. CASE m.secret = 0
      BY <3>3, <3>4, NothingHas
    <3>5. CASE m.secret # 0
      BY <3>1, <3>2, <3>5
    <3>6. QED
      BY <3>4, <3>5
  <2>5. QED
    BY <2>3, <2>4
<1>3. CASE \E t \in Shown(m) : s = SocketServer(t)
  <2>1. PICK t \in Shown(m) : s = SocketServer(t)
    BY <1>3
  <2>2. PICK f : f = Finding("EXPOSE-BIND", Address(t), 0, "exposed")
    OBVIOUS
  <2>3. s.id = Address(t) /\ s.exposed /\ s.findings = << f >>
    BY <2>1, <2>2 DEF SocketServer
  <2>4. << f >> \in Seq({f}) /\ ToSet(<< f >>) = {f}
    BY SingleHas
  <2>5. QED
    BY <2>2, <2>3, <2>4
<1>4. QED
  BY <1>1, <1>2, <1>3 DEF ServersOf

(* The facts of an inventory are of a kind, and under keys, of their own.  *)
LEMMA ClassifyIsFinite ==
  ASSUME NEW s, NEW answer
  PROVE  IsFiniteSet(Classify(s, answer))
<1>1. CASE s.proc \in DOMAIN Signature
  <2>1. Classify(s, answer) = {Asset(s, Signature[s.proc], "high")}
    BY <1>1 DEF Classify
  <2>2. QED
    BY <2>1, FS_Singleton
<1>2. CASE s.proc \notin DOMAIN Signature /\ answer # Silent
  <2>1. Classify(s, answer) = {Asset(s, answer.what, answer.confidence)}
    BY <1>2 DEF Classify
  <2>2. QED
    BY <2>1, FS_Singleton
<1>3. CASE s.proc \notin DOMAIN Signature /\ answer = Silent
  <2>1. Classify(s, answer) = IF s.port \in DOMAIN PortHint
                             THEN {Asset(s, PortHint[s.port], "low")} ELSE {}
    BY <1>3 DEF Classify
  <2>2. QED
    BY <2>1, FS_Singleton, FS_EmptySet
<1>4. QED
  BY <1>1, <1>2, <1>3

LEMMA InventoryHas ==
  ASSUME NEW m \in Machine, NEW order \in SetToSeqs(m.sockets), NEW ears
  PROVE  \E n \in Nat : DOMAIN CollectInventory(order, ears) = 1 .. n
<1> DEFINE all == [i \in DOMAIN order |-> i]
           once == FirstSeen(order)
           piece(i) == Classify(once[i], ears[once[i]])
           pieces == [i \in DOMAIN once |-> SetToSeq(piece(i))]
           flat == FlattenSeq(pieces)
           found == SocketAssets(order, ears)
           X == UNION {piece(i) : i \in DOMAIN once}
<1>1. \E n \in Nat : DOMAIN once = 1 .. n
  <2>1. order \in Seq(m.sockets)
    BY MachineIs, SetToSeqsAre
  <2>2. all \in Seq(Nat)
    BY <2>1
  <2>3. PICK T : once = [k \in DOMAIN Sift(all, T) |-> order[Sift(all, T)[k]]]
    BY DEF FirstSeen
  <2>4. Sift(all, T) \in Seq(Nat)
    <3> HIDE DEF all
    <3>1. QED
      BY <2>2, SiftElements
  <2>5. PICK kept \in Seq(Nat) : kept = Sift(all, T)
    BY <2>4
  <2>6. DOMAIN once = DOMAIN kept
    <3> HIDE DEF once, all
    <3>1. QED
      BY <2>3, <2>5
  <2>7. QED
    BY <2>5, <2>6
<1>2. PICK n \in Nat : DOMAIN once = 1 .. n
  BY <1>1
<1>3. \A i \in DOMAIN once : SetToSeq(piece(i)) \in Seq(X)
  <2> SUFFICES ASSUME NEW i \in DOMAIN once PROVE SetToSeq(piece(i)) \in Seq(X)
    OBVIOUS
  <2>1. IsFiniteSet(piece(i)) /\ piece(i) \subseteq X
    BY ClassifyIsFinite
  <2> HIDE DEF piece, X
  <2>2. SetToSeq(piece(i)) \in Seq(piece(i))
    BY <2>1, SetToSeqIs
  <2>3. QED
    BY <2>1, <2>2
<1>4. pieces \in Seq(Seq(X))
  <2> HIDE DEF once, piece, X
  <2>1. QED
    BY <1>2, <1>3
<1>5. flat \in Seq(X)
  <2> HIDE DEF pieces, X
  <2>1. QED
    BY <1>4, FlattenHas
<1>6. DOMAIN found = DOMAIN flat
  <2>1. found = InOrder(flat)
    BY DEF SocketAssets
  <2> HIDE DEF found, flat
  <2>2. QED
    BY <2>1 DEF InOrder, SortedBy
<1>7. PICK k \in Nat : DOMAIN found = 1 .. k
  <2> HIDE DEF found, flat, X
  <2>1. QED
    BY <1>5, <1>6
<1> DEFINE g == [i \in DOMAIN found |->
                   [kind |-> found[i].kind, location |-> Address(found[i]),
                    product |-> found[i].product, confidence |-> found[i].confidence]]
           Y == {g[i] : i \in 1 .. k} \cup {HostAsset}
<1>8. CollectInventory(order, ears) = <<HostAsset>> \o g
  BY DEF CollectInventory
<1>9. DOMAIN g = 1 .. k /\ g = [i \in 1 .. k |-> g[i]]
  BY <1>7
<1>10. g \in Seq(Y)
  <2>1. \A i \in 1 .. k : g[i] \in Y
    OBVIOUS
  <2> HIDE DEF g, Y
  <2>2. QED
    BY <1>9, <2>1
<1>11. <<HostAsset>> \in Seq(Y)
  <2>1. HostAsset \in Y
    OBVIOUS
  <2> HIDE DEF Y
  <2>2. QED
    BY <2>1
<1>12. PICK h \in Seq(Y) : h = <<HostAsset>> \o g
  <2> HIDE DEF g, Y
  <2>1. PICK u \in Seq(Y) : u = <<HostAsset>>
    BY <1>11
  <2>2. PICK v \in Seq(Y) : v = g
    BY <1>10
  <2>3. u \o v \in Seq(Y)
    OBVIOUS
  <2>4. QED
    BY <2>1, <2>2, <2>3
<1>13. DOMAIN h = 1 .. Len(h) /\ Len(h) \in Nat
  <2> HIDE DEF Y
  <2>1. QED
    OBVIOUS
<1>14. QED
  <2> HIDE DEF g
  <2>1. QED
    BY <1>8, <1>12, <1>13

AssetLike(f) == f.kind = "asset" /\ f.key[1] = "asset"

LEMMA AssetFactsHas ==
  ASSUME NEW stocked, NEW n \in Nat, DOMAIN stocked = 1 .. n
  PROVE  /\ AssetFacts(stocked) \in Seq(ToSet(AssetFacts(stocked)))
         /\ \A f \in ToSet(AssetFacts(stocked)) : AssetLike(f)
<1> DEFINE t == AssetFacts(stocked)
<1>1. DOMAIN t = 1 .. n /\ t = [i \in 1 .. n |-> t[i]]
  BY DEF AssetFacts
<1>2. \A i \in 1 .. n : AssetLike(t[i])
  BY DEF AssetFacts, AssetLike
<1> HIDE DEF t
<1>3. \A i \in 1 .. n : t[i] \in ToSet(t)
  BY <1>1 DEF ToSet
<1>4. t \in Seq(ToSet(t))
  BY <1>1, <1>3
<1>5. \A f \in ToSet(t) : AssetLike(f)
  BY <1>1, <1>2 DEF ToSet
<1>6. QED
  BY <1>4, <1>5 DEF t

(* What build_snapshot makes of a scan and any inventory, before sorting.  *)
AllFactsOf(m) == UNION {FactSet(s) : s \in ServersOf(m)}

LEMMA SnapshotFacts ==
  ASSUME NEW m \in Machine, NEW stock \in Machine, NEW s \in Snapshots(m, stock)
  PROVE  \E X : \E facts \in Seq(X) :
           /\ s = Sorted(facts)
           /\ AllFactsOf(m) \subseteq ToSet(facts)
           /\ \A f \in ToSet(facts) : f \in AllFactsOf(m) \/ AssetLike(f)
           /\ \E order \in SetToSeqs(stock.sockets), ears \in Heard(stock.sockets) :
                ToSet(facts) = AllFactsOf(m) \cup ToSet(AssetFacts(CollectInventory(order, ears)))
<1>1. PICK o1 \in SetToSeqs(m.sockets), o2 \in SetToSeqs(stock.sockets),
          ears \in Heard(stock.sockets) :
        s = BuildSnapshot(Scan(m, o1), CollectInventory(o2, ears))
  BY DEF Snapshots
<1> DEFINE A == ToSet(AssetFacts(CollectInventory(o2, ears)))
           X == AllFactsOf(m) \cup A
<1>2. PICK scanned \in Seq(ServersOf(m)) : scanned = Scan(m, o1) /\ ToSet(scanned) = ServersOf(m)
  BY ScanHas
<1>3. PICK stocked : stocked = AssetFacts(CollectInventory(o2, ears))
  OBVIOUS
<1>4. stocked \in Seq(A) /\ ToSet(stocked) = A /\ \A f \in A : AssetLike(f)
  <2>1. PICK n \in Nat : DOMAIN CollectInventory(o2, ears) = 1 .. n
    BY InventoryHas
  <2>2. QED
    BY <1>3, <2>1, AssetFactsHas
<1> DEFINE pieces == [i \in DOMAIN scanned |-> FactsOf(scanned[i])]
           flat == FlattenSeq(pieces)
<1>5. /\ DOMAIN scanned = 1 .. Len(scanned) /\ Len(scanned) \in Nat
      /\ \A i \in 1 .. Len(scanned) : scanned[i] \in ServersOf(m)
  OBVIOUS
<1>6. \A i \in 1 .. Len(scanned) :
        /\ FactsOf(scanned[i]) \in Seq(FactSet(scanned[i]))
        /\ ToSet(FactsOf(scanned[i])) = FactSet(scanned[i])
  BY <1>5, ServersAre, FactsHas
<1>7. \A i \in 1 .. Len(scanned) : FactsOf(scanned[i]) \in Seq(AllFactsOf(m))
  <2>1. \A i \in 1 .. Len(scanned) : FactSet(scanned[i]) \subseteq AllFactsOf(m)
    BY <1>5 DEF AllFactsOf
  <2>2. QED
    BY <1>6, <2>1
<1>8. /\ pieces \in Seq(Seq(AllFactsOf(m))) /\ Len(pieces) = Len(scanned)
      /\ \A i \in 1 .. Len(scanned) : ToSet(pieces[i]) = FactSet(scanned[i])
  BY <1>5, <1>6, <1>7
<1>9. flat \in Seq(AllFactsOf(m)) /\ ToSet(flat) = AllFactsOf(m)
  <2> HIDE DEF pieces
  <2>1. flat \in Seq(AllFactsOf(m)) /\ ToSet(flat) = UpTo(pieces, Len(scanned))
    BY <1>8, FlattenHas
  <2>2. UpTo(pieces, Len(scanned)) = UNION {FactSet(scanned[i]) : i \in 1 .. Len(scanned)}
    BY <1>8 DEF UpTo
  <2>3. \A v : v \in ServersOf(m) <=> \E i \in 1 .. Len(scanned) : scanned[i] = v
    BY <1>2, <1>5 DEF ToSet
  <2>4. UNION {FactSet(scanned[i]) : i \in 1 .. Len(scanned)} = AllFactsOf(m)
    BY <2>3 DEF AllFactsOf
  <2>5. QED
    BY <2>1, <2>2, <2>4
<1>10. s = Sorted(flat \o stocked)
  BY <1>1, <1>2, <1>3 DEF BuildSnapshot, FactsOf
<1>11. PICK all : all = flat \o stocked
  OBVIOUS
<1>12. flat \in Seq(X) /\ stocked \in Seq(X)
  <2> HIDE DEF flat, A
  <2>1. QED
    BY <1>4, <1>9
<1>13. all \in Seq(X) /\ ToSet(all) = AllFactsOf(m) \cup A
  <2> HIDE DEF flat, A, X
  <2>1. QED
    BY <1>4, <1>9, <1>11, <1>12, ConcatHas
<1>14. \E order \in SetToSeqs(stock.sockets), hear \in Heard(stock.sockets) :
         ToSet(all) = AllFactsOf(m) \cup ToSet(AssetFacts(CollectInventory(order, hear)))
  <2>1. ToSet(all) = AllFactsOf(m) \cup ToSet(AssetFacts(CollectInventory(o2, ears)))
    BY <1>13
  <2>2. QED
    BY <2>1
<1>15. QED
  <2> HIDE DEF flat, A, X
  <2>1. QED
    BY <1>4, <1>10, <1>11, <1>13, <1>14

----------------------------------------------------------------------------
(* What a snapshot tells of the machine that was scanned.                  *)

(* The keys of the findings at a place, and of the server at an address.   *)
PlaceKey(place) ==
  <<"finding", IF place[2] = ConfigFile THEN <<"config#permissions", 0>> ELSE place[2],
    place[1], place[2], place[3]>>
ServerKey(t) == <<"server", Address(t)>>

Tells(s, m) ==
  /\ \A k \in DOMAIN s :
       /\ ByKey(s)[k].kind = k[1]
       /\ ByKey(s)[k].kind = "finding" => \E place \in Places(m) : k = PlaceKey(place)
       /\ IsExposed(ByKey(s)[k]) => \E t \in Shown(m) : k = ServerKey(t)
  /\ \A place \in Places(m) : PlaceKey(place) \in DOMAIN s
  /\ \A t \in Shown(m) : ServerKey(t) \in DOMAIN s /\ IsExposed(ByKey(s)[ServerKey(t)])

(* An address is not one of the files.                                     *)
LEMMA AddressIsNoFile ==
  ASSUME NEW m \in Machine, NEW t \in Shown(m)
  PROVE  /\ Address(t) # ConfigFile /\ Address(t) # EnvFile
         /\ Address(t) # <<"config#permissions", 0>>
<1>1. t.ip \in Ip
  BY MachineIs, PostureAssumption DEF Shown
<1>2. t.ip \notin {"config", "env", "config#permissions"}
  BY <1>1 DEF Ip
<1>3. QED
  BY <1>2 DEF Address, ConfigFile, EnvFile

LEMMA FilesDiffer ==
  EnvFile # ConfigFile /\ EnvFile # <<"config#permissions", 0>>
BY DEF EnvFile, ConfigFile

LEMMA PlacesAre ==
  ASSUME NEW m \in Machine, NEW place
  PROVE  place \in Places(m) <=>
           \/ \E g \in m.grants : place = <<Rule(g), ConfigFile, 0>>
           \/ m.secret # 0 /\ place = <<"CRED-PLAINTEXT", EnvFile, m.secret>>
           \/ \E t \in Shown(m) : place = <<"EXPOSE-BIND", Address(t), 0>>
BY DEF Places, Shown

(* The findings of the servers are at the places, and nowhere else.        *)
LEMMA FindingsAreAtPlaces ==
  ASSUME NEW m \in Machine, NEW s \in ServersOf(m), NEW f \in ToSet(s.findings)
  PROVE  \E place \in Places(m) : FindingFact(s, f).key = PlaceKey(place)
<1> DEFINE key == <<"finding", s.id, f.id, f.path, f.line>>
<1>1. FindingFact(s, f).key = key
  BY DEF FindingFact
<1>2. CASE \E g \in m.grants : /\ f = Finding(Rule(g), ConfigFile, 0, g)
                               /\ s.id = <<"config#permissions", 0>>
  <2>1. PICK g \in m.grants : /\ f = Finding(Rule(g), ConfigFile, 0, g)
                              /\ s.id = <<"config#permissions", 0>>
    BY <1>2
  <2>2. PICK place : place = <<Rule(g), ConfigFile, 0>>
    OBVIOUS
  <2>3. place \in Places(m)
    BY <2>2, PlacesAre
  <2>4. key = PlaceKey(place)
    BY <2>1, <2>2 DEF PlaceKey, Finding
  <2>5. QED
    BY <1>1, <2>3, <2>4
<1>3. CASE /\ f = Finding("CRED-PLAINTEXT", EnvFile, m.secret, "secret") /\ m.secret # 0
           /\ s.id = EnvFile
  <2>1. PICK place : place = <<"CRED-PLAINTEXT", EnvFile, m.secret>>
    OBVIOUS
  <2>2. place \in Places(m)
    BY <1>3, <2>1, PlacesAre
  <2>3. key = PlaceKey(place)
    BY <1>3, <2>1 DEF PlaceKey, Finding, EnvFile, ConfigFile
  <2>4. QED
    BY <1>1, <2>2, <2>3
<1>4. CASE \E t \in Shown(m) : /\ f = Finding("EXPOSE-BIND", Address(t), 0, "exposed")
                               /\ s.id = Address(t)
  <2>1. PICK t \in Shown(m) : /\ f = Finding("EXPOSE-BIND", Address(t), 0, "exposed")
                              /\ s.id = Address(t)
    BY <1>4
  <2>2. PICK place : place = <<"EXPOSE-BIND", Address(t), 0>>
    OBVIOUS
  <2>3. place \in Places(m)
    BY <2>2, PlacesAre
  <2>4. key = PlaceKey(place)
    BY <2>1, <2>2, AddressIsNoFile DEF PlaceKey, Finding
  <2>5. QED
    BY <1>1, <2>3, <2>4
<1>5. QED
  <2>1. CASE /\ s.id = <<"config#permissions", 0>>
             /\ ToSet(s.findings) = {Finding(Rule(g), ConfigFile, 0, g) : g \in m.grants}
    BY <1>2, <2>1
  <2>2. CASE /\ s.id = EnvFile
             /\ ToSet(s.findings) =
                  IF m.secret = 0 THEN {}
                  ELSE {Finding("CRED-PLAINTEXT", EnvFile, m.secret, "secret")}
    BY <1>3, <2>2
  <2>3. ASSUME NEW t \in Shown(m), s.id = Address(t),
               ToSet(s.findings) = {Finding("EXPOSE-BIND", Address(t), 0, "exposed")}
        PROVE  \E place \in Places(m) : FindingFact(s, f).key = PlaceKey(place)
    <3>1. f = Finding("EXPOSE-BIND", Address(t), 0, "exposed")
      BY <2>3
    <3>2. QED
      BY <1>4, <2>3, <3>1
  <2>4. QED
    BY <2>1, <2>2, <2>3, ServersAre

LEMMA PlacesHaveFindings ==
  ASSUME NEW m \in Machine, NEW place \in Places(m)
  PROVE  \E f \in AllFactsOf(m) : f.key = PlaceKey(place)
<1>1. ASSUME NEW s \in ServersOf(m), NEW f \in ToSet(s.findings),
             <<s.id, f.id, f.path, f.line>> =
               <<IF place[2] = ConfigFile THEN <<"config#permissions", 0>> ELSE place[2],
                 place[1], place[2], place[3]>>
      PROVE  \E fact \in AllFactsOf(m) : fact.key = PlaceKey(place)
  <2>1. FindingFact(s, f) \in AllFactsOf(m)
    BY DEF AllFactsOf, FactSet
  <2>2. FindingFact(s, f).key = PlaceKey(place)
    BY <1>1 DEF FindingFact, PlaceKey
  <2>3. QED
    BY <2>1, <2>2
<1>2. CASE \E g \in m.grants : place = <<Rule(g), ConfigFile, 0>>
  <2>1. PICK g \in m.grants : place = <<Rule(g), ConfigFile, 0>>
    BY <1>2
  <2>2. PICK s : s \in ToSet(PermissionServer(m.grants)) /\ s.id = <<"config#permissions", 0>>
    <3>1. PICK p : PermissionServer(m.grants) = << p >> /\ p.id = <<"config#permissions", 0>>
      BY <2>1 DEF PermissionServer
    <3>2. QED
      BY <3>1, SingleHas
  <2>3. s \in ServersOf(m)
    BY <2>2 DEF ServersOf
  <2>4. ToSet(s.findings) = {Finding(Rule(h), ConfigFile, 0, h) : h \in m.grants}
    <3>1. \A t \in Shown(m) : s.id # Address(t)
      BY <2>2, AddressIsNoFile
    <3>2. s.id # EnvFile
      BY <2>2, FilesDiffer
    <3>3. QED
      BY <2>3, <3>1, <3>2, ServersAre
  <2>5. PICK f \in ToSet(s.findings) : f = Finding(Rule(g), ConfigFile, 0, g)
    BY <2>4
  <2>6. <<s.id, f.id, f.path, f.line>> =
          <<IF place[2] = ConfigFile THEN <<"config#permissions", 0>> ELSE place[2],
            place[1], place[2], place[3]>>
    BY <2>1, <2>2, <2>5 DEF Finding
  <2>7. QED
    BY <1>1, <2>3, <2>6
<1>3. CASE m.secret # 0 /\ place = <<"CRED-PLAINTEXT", EnvFile, m.secret>>
  <2>1. PICK s : s \in ToSet(EnvServer(m.secret)) /\ s.id = EnvFile
    <3> DEFINE e == [id |-> EnvFile, exposed |-> FALSE, running |-> FALSE,
                     findings |-> IF m.secret = 0 THEN <<>>
                       ELSE << Finding("CRED-PLAINTEXT", EnvFile, m.secret, "secret") >>]
    <3>1. EnvServer(m.secret) = << e >> /\ e.id = EnvFile
      BY DEF EnvServer
    <3> HIDE DEF e
    <3>2. QED
      BY <3>1, SingleHas
  <2>2. s \in ServersOf(m)
    BY <2>1 DEF ServersOf
  <2>3. ToSet(s.findings) = {Finding("CRED-PLAINTEXT", EnvFile, m.secret, "secret")}
    <3>1. \A t \in Shown(m) : s.id # Address(t)
      BY <2>1, AddressIsNoFile
    <3>2. s.id # <<"config#permissions", 0>>
      BY <2>1, FilesDiffer
    <3>3. QED
      BY <1>3, <2>2, <3>1, <3>2, ServersAre
  <2>4. PICK f \in ToSet(s.findings) : f = Finding("CRED-PLAINTEXT", EnvFile, m.secret, "secret")
    BY <2>3
  <2>5. <<s.id, f.id, f.path, f.line>> =
          <<IF place[2] = ConfigFile THEN <<"config#permissions", 0>> ELSE place[2],
            place[1], place[2], place[3]>>
    BY <1>3, <2>1, <2>4, FilesDiffer DEF Finding
  <2>6. QED
    BY <1>1, <2>2, <2>5
<1>4. CASE \E t \in Shown(m) : place = <<"EXPOSE-BIND", Address(t), 0>>
  <2>1. PICK t \in Shown(m) : place = <<"EXPOSE-BIND", Address(t), 0>>
    BY <1>4
  <2>2. PICK f : f = Finding("EXPOSE-BIND", Address(t), 0, "exposed")
    OBVIOUS
  <2>3. PICK s : s = SocketServer(t)
    OBVIOUS
  <2>4. s \in ServersOf(m) /\ s.id = Address(t) /\ s.findings = << f >>
    BY <2>2, <2>3 DEF ServersOf, SocketServer
  <2>5. f \in ToSet(s.findings)
    BY <2>4, SingleHas
  <2>6. <<s.id, f.id, f.path, f.line>> =
          <<IF place[2] = ConfigFile THEN <<"config#permissions", 0>> ELSE place[2],
            place[1], place[2], place[3]>>
    BY <2>1, <2>2, <2>4, AddressIsNoFile DEF Finding
  <2>7. QED
    BY <1>1, <2>4, <2>5, <2>6
<1>5. QED
  BY <1>2, <1>3, <1>4, PlacesAre

LEMMA SnapshotTells ==
  ASSUME NEW m \in Machine, NEW stock \in Machine, NEW s \in Snapshots(m, stock)
  PROVE  Tells(s, m)
<1>1. PICK X : \E facts \in Seq(X) :
        /\ s = Sorted(facts)
        /\ AllFactsOf(m) \subseteq ToSet(facts)
        /\ \A f \in ToSet(facts) : f \in AllFactsOf(m) \/ AssetLike(f)
  BY SnapshotFacts
<1>2. PICK facts \in Seq(X) :
        /\ s = Sorted(facts)
        /\ AllFactsOf(m) \subseteq ToSet(facts)
        /\ \A f \in ToSet(facts) : f \in AllFactsOf(m) \/ AssetLike(f)
  BY <1>1
<1>3. /\ \A f \in ToSet(facts) : f.key \in DOMAIN s
      /\ \A k \in DOMAIN s : ByKey(s)[k] \in ToSet(facts) /\ ByKey(s)[k].key = k
  BY <1>2, SortedIs
<1>4. ASSUME NEW f \in AllFactsOf(m)
      PROVE  /\ f.kind = f.key[1]
             /\ f.kind = "finding" => \E place \in Places(m) : f.key = PlaceKey(place)
             /\ IsExposed(f) => \E t \in Shown(m) : f.key = ServerKey(t)
             /\ \A t \in Shown(m) : f.key = ServerKey(t) => IsExposed(f)
  <2>1. PICK v \in ServersOf(m) : f \in FactSet(v)
    BY DEF AllFactsOf
  <2>2. CASE f = ServerFact(v)
    <3>1. /\ f.kind = "server" /\ f.key = <<"server", v.id>>
          /\ f.detail.exposure = IF v.exposed THEN "exposed" ELSE "local"
      BY <2>2 DEF ServerFact
    <3>2. IsExposed(f) <=> v.exposed
      BY <3>1 DEF IsExposed
    <3>3. v.exposed <=> \E t \in Shown(m) : v.id = Address(t)
      <4>1. \A t \in Shown(m) : /\ EnvFile # Address(t)
                                /\ <<"config#permissions", 0>> # Address(t)
        BY AddressIsNoFile
      <4>2. QED
        BY <4>1, ServersAre
    <3>4. \A t \in Shown(m) : f.key = ServerKey(t) <=> v.id = Address(t)
      BY <3>1 DEF ServerKey
    <3>5. f.kind = f.key[1] /\ f.kind # "finding"
      BY <3>1
    <3>6. QED
      BY <3>2, <3>3, <3>4, <3>5
  <2>3. CASE \E w \in ToSet(v.findings) : f = FindingFact(v, w)
    <3>1. PICK w \in ToSet(v.findings) : f = FindingFact(v, w)
      BY <2>3
    <3>2. f.kind = "finding" /\ f.key[1] = "finding" /\ ~IsExposed(f)
      BY <3>1 DEF FindingFact, IsExposed
    <3>3. \E place \in Places(m) : f.key = PlaceKey(place)
      BY <3>1, FindingsAreAtPlaces
    <3>4. \A t \in Shown(m) : f.key # ServerKey(t)
      BY <3>2 DEF ServerKey
    <3>5. QED
      BY <3>2, <3>3, <3>4
  <2>4. QED
    BY <2>1, <2>2, <2>3 DEF FactSet
<1>5. ASSUME NEW f, AssetLike(f)
      PROVE  /\ f.kind = f.key[1] /\ f.kind # "finding" /\ ~IsExposed(f)
             /\ \A t \in Shown(m) : f.key # ServerKey(t)
  BY <1>5 DEF AssetLike, IsExposed, ServerKey
<1>6. ASSUME NEW k \in DOMAIN s
      PROVE  /\ ByKey(s)[k].kind = k[1]
             /\ ByKey(s)[k].kind = "finding" => \E place \in Places(m) : k = PlaceKey(place)
             /\ IsExposed(ByKey(s)[k]) => \E t \in Shown(m) : k = ServerKey(t)
             /\ \A t \in Shown(m) : k = ServerKey(t) => IsExposed(ByKey(s)[k])
  <2>1. PICK f : f = ByKey(s)[k] /\ f \in ToSet(facts) /\ f.key = k
    BY <1>3
  <2>2. QED
    BY <1>2, <1>4, <1>5, <2>1
<1>7. \A place \in Places(m) : PlaceKey(place) \in DOMAIN s
  BY <1>2, <1>3, PlacesHaveFindings
<1>8. ASSUME NEW t \in Shown(m) PROVE ServerKey(t) \in DOMAIN s
  <2>1. SocketServer(t) \in ServersOf(m) /\ SocketServer(t).id = Address(t)
    BY DEF ServersOf, SocketServer
  <2>2. ServerFact(SocketServer(t)) \in AllFactsOf(m)
    BY <2>1 DEF AllFactsOf, FactSet
  <2>3. ServerFact(SocketServer(t)).key = ServerKey(t)
    BY <2>1 DEF ServerFact, ServerKey
  <2>4. QED
    BY <1>2, <1>3, <2>2, <2>3
<1>9. QED
  BY <1>6, <1>7, <1>8 DEF Tells

(* So does a document with the digest of a snapshot.                       *)
LEMMA DocumentTells ==
  ASSUME NEW m \in Machine, NEW stock \in Machine, NEW s \in Snapshots(m, stock),
         NEW d, Digest(d) = Digest(s)
  PROVE  Tells(d, m)
<1>1. Tells(s, m)
  BY SnapshotTells
<1>2. PICK X : \E facts \in Seq(X) : s = Sorted(facts)
  BY SnapshotFacts
<1>3. \A k \in DOMAIN s : s[k] \in Seq(X) /\ Len(s[k]) \in Nat /\ Len(s[k]) >= 1
  BY <1>2, SortedIs
<1>4. ASSUME NEW k \in DOMAIN s
      PROVE  /\ DOMAIN d = DOMAIN s
             /\ ByKey(d)[k].kind = ByKey(s)[k].kind
             /\ ByKey(d)[k].detail = ByKey(s)[k].detail
  <2>1. PICK n \in Nat : n = Len(s[k]) /\ n >= 1
    BY <1>3
  <2>2. DOMAIN s[k] = 1 .. n
    BY <1>3, <2>1
  <2>3. QED
    BY <2>1, <2>2, SameDigest
<1>5. DOMAIN d = DOMAIN s
  BY DEF Digest
<1>6. \A k \in DOMAIN s : IsExposed(ByKey(d)[k]) <=> IsExposed(ByKey(s)[k])
  BY <1>4 DEF IsExposed
<1>7. QED
  BY <1>1, <1>4, <1>5, <1>6 DEF Tells

(* The gate is quiet exactly if no place is new.                           *)
LEMMA QuietIsNoNewPlace ==
  ASSUME NEW m \in Machine, NEW n \in Machine, NEW a, Tells(a, m), NEW b, Tells(b, n)
  PROVE  Regressions(DiffSnapshots(a, b)) = {} <=> Places(n) \subseteq Places(m)
<1>1. \A p, q : PlaceKey(p) = PlaceKey(q) => p[1] = q[1] /\ p[2] = q[2] /\ p[3] = q[3]
  BY DEF PlaceKey
<1>2. \A p \in Places(m) \cup Places(n) : p = <<p[1], p[2], p[3]>>
  BY PlacesAre
<1>3. ASSUME Regressions(DiffSnapshots(a, b)) = {}, NEW p \in Places(n)
      PROVE  p \in Places(m)
  <2>1. PICK k : k = PlaceKey(p)
    OBVIOUS
  <2>2. k \in DOMAIN b /\ k[1] = "finding"
    BY <2>1 DEF Tells, PlaceKey
  <2>3. ByKey(b)[k].kind = "finding" /\ (k \in DOMAIN a => ByKey(a)[k].kind = ByKey(b)[k].kind)
    BY <2>2 DEF Tells
  <2>4. k \in DOMAIN a
    BY <1>3, <2>2, <2>3, QuietDiffHasNoNewKey
  <2>5. PICK q \in Places(m) : k = PlaceKey(q)
    BY <2>3, <2>4 DEF Tells
  <2>6. p = q
    <3>1. p[1] = q[1] /\ p[2] = q[2] /\ p[3] = q[3]
      BY <1>1, <2>1, <2>5
    <3>2. p = <<p[1], p[2], p[3]>> /\ q = <<q[1], q[2], q[3]>>
      BY <1>2, <2>5, Zenon
    <3>3. QED
      BY <3>1, <3>2, Zenon
  <2>7. QED
    BY <2>5, <2>6
<1>4. ASSUME Places(n) \subseteq Places(m), NEW t \in Shown(n)
      PROVE  \E u \in Shown(m) : ServerKey(t) = ServerKey(u)
  <2>1. PICK p : p = <<"EXPOSE-BIND", Address(t), 0>>
    OBVIOUS
  <2>2. p \in Places(m)
    BY <1>4, <2>1, PlacesAre
  <2>3. \A g \in m.grants : Rule(g) # "EXPOSE-BIND"
    BY DEF Rule
  <2>4. p[1] = "EXPOSE-BIND" /\ p[2] = Address(t)
    BY <2>1
  <2>5. PICK u \in Shown(m) : p = <<"EXPOSE-BIND", Address(u), 0>>
    BY <2>2, <2>3, <2>4, PlacesAre
  <2>6. QED
    BY <2>4, <2>5 DEF ServerKey
<1>5. ASSUME Places(n) \subseteq Places(m), NEW e \in Regressions(DiffSnapshots(a, b))
      PROVE  FALSE
  <2>1. DOMAIN ByKey(a) = DOMAIN a /\ DOMAIN ByKey(b) = DOMAIN b
    BY DEF ByKey
  <2>2. e.direction = "regression"
    BY <1>5 DEF Regressions
  <2>3. ASSUME NEW k \in DOMAIN b, k \notin DOMAIN a, AddedDirection(ByKey(b)[k]) = "regression"
        PROVE  FALSE
    <3>1. CASE ByKey(b)[k].kind = "finding"
      <4>1. PICK p \in Places(n) : k = PlaceKey(p)
        BY <3>1 DEF Tells
      <4>2. k \in DOMAIN a
        BY <1>5, <4>1 DEF Tells
      <4>3. QED
        BY <2>3, <4>2
    <3>2. CASE IsExposed(ByKey(b)[k])
      <4>1. PICK t \in Shown(n) : k = ServerKey(t)
        BY <3>2 DEF Tells
      <4>2. k \in DOMAIN a
        BY <1>4, <1>5, <4>1 DEF Tells
      <4>3. QED
        BY <2>3, <4>2
    <3>3. QED
      BY <2>3, <3>1, <3>2 DEF AddedDirection
  <2>4. \A k : RemovedDirection(ByKey(a)[k]) # "regression"
    BY DEF RemovedDirection
  <2>5. ASSUME NEW k \in DOMAIN a \cap DOMAIN b,
               ChangedDirection(ByKey(a)[k], ByKey(b)[k]) = "regression"
        PROVE  FALSE
    <3>1. IsExposed(ByKey(b)[k]) /\ ~IsExposed(ByKey(a)[k])
      BY <2>5 DEF ChangedDirection
    <3>2. PICK t \in Shown(n) : k = ServerKey(t)
      BY <3>1 DEF Tells
    <3>3. QED
      BY <1>4, <1>5, <3>1, <3>2 DEF Tells
  <2>6. CASE e \in Added(ByKey(a), ByKey(b))
    BY <2>1, <2>2, <2>3, <2>6 DEF Added
  <2>7. CASE e \in Removed(ByKey(a), ByKey(b))
    BY <2>2, <2>4, <2>7 DEF Removed
  <2>8. CASE e \in Changed(ByKey(a), ByKey(b))
    BY <2>1, <2>2, <2>5, <2>8 DEF Changed
  <2>9. QED
    BY <1>5, <2>6, <2>7, <2>8 DEF Regressions, DiffSnapshots
<1>6. QED
  BY <1>3, <1>5

----------------------------------------------------------------------------
(* The same posture.  Where nobody is asked, no two sockets share an       *)
(* address and every socket is a service of its own, the facts do not tell *)
(* in which order the operating system listed the sockets.                 *)

OneSocketPerAddress == \A s, t \in Sockets : Address(s) = Address(t) => s = t

OneSocketPerService(m) == \A s, t \in m.sockets : s # t => Service(s) # Service(t)

(* A silent socket is known by its process or its port, or is no asset.    *)
LEMMA SilentGives ==
  ASSUME NEW s \in Sockets
  PROVE  /\ \A a, b \in Classify(s, Silent) : a = b
         /\ \A a \in Classify(s, Silent) : a.ip = s.ip /\ a.port = s.port /\ Rank(a) \in Triple
<1>1. \/ Classify(s, Silent) = {}
      \/ \E p \in Product, c \in {"high", "low"} : Classify(s, Silent) = {Asset(s, p, c)}
  <2>1. CASE s.proc \in DOMAIN Signature
    BY <2>1, InventoryAssumption DEF Classify
  <2>2. CASE s.proc \notin DOMAIN Signature
    <3>1. Classify(s, Silent) = IF s.port \in DOMAIN PortHint
                               THEN {Asset(s, PortHint[s.port], "low")} ELSE {}
      BY <2>2 DEF Classify
    <3>2. QED
      BY <3>1, InventoryAssumption
  <2>3. QED
    BY <2>1, <2>2
<1>2. CASE Classify(s, Silent) = {}
  BY <1>2
<1>3. ASSUME NEW p \in Product, NEW c, Classify(s, Silent) = {Asset(s, p, c)}
      PROVE  /\ \A a, b \in Classify(s, Silent) : a = b
             /\ \A a \in Classify(s, Silent) : a.ip = s.ip /\ a.port = s.port /\ Rank(a) \in Triple
  <2>1. \A a \in Classify(s, Silent) : a = Asset(s, p, c)
    BY <1>3
  <2>2. PICK a : a = Asset(s, p, c)
    OBVIOUS
  <2>3. a.ip = s.ip /\ a.port = s.port /\ ProductOf(a) = p
    BY <2>2, ProductsAre DEF Asset, ProductOf
  <2>4. Rank(a) \in Triple
    BY <2>3, PostureAssumption, RankIs
  <2>5. QED
    BY <2>1, <2>2, <2>3, <2>4
<1>4. QED
  BY <1>1, <1>2, <1>3

(* The inventory of silent sockets, as a set.                              *)
AssetsOf(m) == UNION {Classify(s, Silent) : s \in m.sockets}

LEMMA SilentInventory ==
  ASSUME ~Probe, NEW m \in Machine, OneSocketPerService(m),
         NEW order \in SetToSeqs(m.sockets), NEW ears \in Heard(m.sockets)
  PROVE  \E X : \E found \in Seq(X) :
           found = SocketAssets(order, ears) /\ ToSet(found) = AssetsOf(m)
<1> DEFINE X == AssetsOf(m)
           piece(i) == Classify(order[i], Silent)
           pieces == [i \in DOMAIN order |-> SetToSeq(piece(i))]
<1>1. order \in Seq(m.sockets) /\ ToSet(order) = m.sockets /\ m.sockets \subseteq Sockets
  BY MachineIs, SetToSeqsAre
<1>2. /\ DOMAIN order = 1 .. Len(order) /\ Len(order) \in Nat
      /\ \A i \in DOMAIN order : order[i] \in m.sockets
      /\ \A s \in m.sockets : \E i \in DOMAIN order : order[i] = s
  BY <1>1 DEF ToSet
<1>3. \A s \in m.sockets : ears[s] = Silent
  BY DEF Heard
<1>4. [i \in DOMAIN order |-> SetToSeq(Classify(order[i], ears[order[i]]))] = pieces
  BY <1>2, <1>3
<1>5. SocketAssets(order, ears) = InOrder(FlattenSeq(pieces))
  <2>1. IsInjective(order)
    BY MachineIs, SetToSeqsAre
  <2>2. Single(ToSet(order))
    BY <1>1 DEF OneSocketPerService, Single
  <2>3. FirstSeen(order) = order
    BY <1>1, <2>1, <2>2, FirstSeenIsAll
  <2>4. QED
    BY <1>4, <2>3 DEF SocketAssets
<1>6. ASSUME NEW i \in DOMAIN order
      PROVE  SetToSeq(piece(i)) \in Seq(X) /\ ToSet(SetToSeq(piece(i))) = piece(i)
  <2>1. IsFiniteSet(piece(i)) /\ piece(i) \subseteq X
    BY <1>2, ClassifyIsFinite DEF AssetsOf
  <2> HIDE DEF piece, X
  <2>2. SetToSeq(piece(i)) \in Seq(piece(i)) /\ ToSet(SetToSeq(piece(i))) = piece(i)
    BY <2>1, SetToSeqIs
  <2>3. QED
    BY <2>1, <2>2
<1>7. /\ pieces \in Seq(Seq(X)) /\ Len(pieces) = Len(order)
      /\ \A i \in 1 .. Len(order) : ToSet(pieces[i]) = piece(i)
  <2> HIDE DEF piece, X
  <2>1. QED
    BY <1>2, <1>6
<1>8. PICK flat : flat = FlattenSeq(pieces)
  OBVIOUS
<1>9. flat \in Seq(X) /\ ToSet(flat) = X
  <2> HIDE DEF pieces, piece, X
  <2>1. flat \in Seq(X) /\ ToSet(flat) = UpTo(pieces, Len(order))
    BY <1>7, <1>8, FlattenHas
  <2>2. UpTo(pieces, Len(order)) = UNION {piece(i) : i \in 1 .. Len(order)}
    BY <1>7 DEF UpTo
  <2>3. UNION {piece(i) : i \in 1 .. Len(order)} = X
    BY <1>2 DEF piece, X, AssetsOf
  <2>4. QED
    BY <2>1, <2>2, <2>3
<1>10. PICK rank : rank = [a \in ToSet(flat) |-> Rank(a)]
  OBVIOUS
<1>11. rank \in [X -> Triple]
  <2>1. \A a \in X : Rank(a) \in Triple
    BY <1>1, SilentGives DEF AssetsOf
  <2> HIDE DEF X
  <2>2. QED
    BY <1>9, <1>10, <2>1
<1>12. SocketAssets(order, ears) = SortedBy(flat, rank)
  BY <1>5, <1>8, <1>10 DEF InOrder
<1>13. QED
  <2> HIDE DEF X, pieces
  <2>1. SortedBy(flat, rank) \in Seq(X) /\ ToSet(SortedBy(flat, rank)) = X
    BY <1>9, <1>11, SortedHas
  <2>2. QED
    BY <1>12, <2>1 DEF X

(* Its facts.                                                              *)
Located(a) ==
  [kind |-> a.kind, location |-> Address(a), product |-> a.product, confidence |-> a.confidence]

AssetFact(a) ==
  [kind |-> "asset", key |-> <<"asset", a.kind, a.location>>, summary |-> "asset",
   detail |-> [product |-> a.product, confidence |-> a.confidence]]

StockFacts(m) == {AssetFact(HostAsset)} \cup {AssetFact(Located(a)) : a \in AssetsOf(m)}

LEMMA SilentFacts ==
  ASSUME ~Probe, NEW m \in Machine, OneSocketPerService(m),
         NEW order \in SetToSeqs(m.sockets), NEW ears \in Heard(m.sockets)
  PROVE  ToSet(AssetFacts(CollectInventory(order, ears))) = StockFacts(m)
<1>1. PICK X : \E found \in Seq(X) :
        found = SocketAssets(order, ears) /\ ToSet(found) = AssetsOf(m)
  BY SilentInventory
<1>2. PICK found \in Seq(X) : found = SocketAssets(order, ears) /\ ToSet(found) = AssetsOf(m)
  BY <1>1
<1> DEFINE located == [i \in DOMAIN found |-> Located(found[i])]
           Y == {Located(a) : a \in AssetsOf(m)}
<1>3. /\ DOMAIN found = 1 .. Len(found) /\ Len(found) \in Nat
      /\ \A a : a \in AssetsOf(m) <=> \E i \in 1 .. Len(found) : found[i] = a
  BY <1>2 DEF ToSet
<1>4. DOMAIN located = 1 .. Len(found)
      /\ \A i \in 1 .. Len(found) : located[i] = Located(found[i]) /\ located[i] \in Y
  BY <1>3
<1>5. located \in Seq(Y) /\ ToSet(located) = Y
  <2>1. located \in Seq(Y)
    <3>1. located = [i \in 1 .. Len(found) |-> located[i]]
      BY <1>3
    <3> HIDE DEF located, Y
    <3>2. located \in [1 .. Len(found) -> Y]
      BY <1>4, <3>1
    <3>3. QED
      BY <1>3, <3>2, ListFrom
  <2>2. ToSet(located) = Y
    <3>1. ASSUME NEW y \in Y PROVE \E i \in 1 .. Len(found) : located[i] = y
      <4>1. PICK a \in AssetsOf(m) : y = Located(a)
        OBVIOUS
      <4>2. PICK i \in 1 .. Len(found) : found[i] = a
        BY <1>3, <4>1
      <4>3. QED
        BY <1>4, <4>1, <4>2
    <3> HIDE DEF located, Y
    <3>2. ToSet(located) \subseteq Y
      BY <1>4 DEF ToSet
    <3>3. Y \subseteq ToSet(located)
      BY <1>4, <3>1 DEF ToSet
    <3>4. QED
      BY <3>2, <3>3
  <2>3. QED
    BY <2>1, <2>2
<1> DEFINE Z == {HostAsset} \cup Y
<1>6. PICK list : list = <<HostAsset>> \o located
  OBVIOUS
<1>7. list \in Seq(Z) /\ ToSet(list) = Z
  <2> HIDE DEF located, Y
  <2>1. PICK first : first = <<HostAsset>>
    OBVIOUS
  <2>2. first \in Seq(Z) /\ ToSet(first) = {HostAsset}
    <3>1. HostAsset \in Z
      OBVIOUS
    <3> HIDE DEF Z
    <3>2. QED
      BY <2>1, <3>1, SingleHas
  <2>3. located \in Seq(Z) /\ ToSet(located) = Y
    BY <1>5, ListOf
  <2>4. PICK rest : rest = located
    OBVIOUS
  <2>5. list = first \o rest
    BY <1>6, <2>1, <2>4
  <2> HIDE DEF Z
  <2>6. list \in Seq(Z) /\ ToSet(list) = {HostAsset} \cup Y
    BY <2>2, <2>3, <2>4, <2>5, ConcatHas
  <2>7. QED
    BY <2>6 DEF Z
<1>8. CollectInventory(order, ears) = list
  BY <1>2, <1>6 DEF CollectInventory, Located
<1>9. ToSet(AssetFacts(list)) = {AssetFact(a) : a \in Z}
  <2>1. DOMAIN AssetFacts(list) = DOMAIN list
        /\ \A i \in DOMAIN list : AssetFacts(list)[i] = AssetFact(list[i])
    BY DEF AssetFacts, AssetFact
  <2> HIDE DEF Z
  <2>2. QED
    BY <1>7, <2>1 DEF ToSet
<1>10. {AssetFact(a) : a \in Z} = StockFacts(m)
  BY DEF StockFacts
<1>11. QED
  BY <1>8, <1>9, <1>10

(* A server or a finding of a scan is told by its key.                     *)
LEMMA ScanKeysTell ==
  ASSUME NEW m \in Machine, NEW f \in AllFactsOf(m), NEW g \in AllFactsOf(m), f.key = g.key
  PROVE  f.detail = g.detail
<1>1. ASSUME NEW h \in AllFactsOf(m)
      PROVE  \/ \E v \in ServersOf(m) : h = ServerFact(v)
             \/ \E v \in ServersOf(m) : \E w : h = FindingFact(v, w)
  <2>1. PICK v \in ServersOf(m) : h \in FactSet(v)
    BY DEF AllFactsOf
  <2>2. h = ServerFact(v) \/ \E w : h = FindingFact(v, w)
    BY <2>1 DEF FactSet
  <2>3. QED
    BY <2>2
<1>2. ASSUME NEW u \in ServersOf(m), NEW v \in ServersOf(m), u.id = v.id
      PROVE  u.exposed = v.exposed /\ u.running = v.running
  <2>1. \A w \in ServersOf(m) :
          /\ w.exposed \in BOOLEAN /\ w.running = w.exposed
          /\ w.exposed <=> \E t \in Shown(m) : w.id = Address(t)
    <3>1. \A t \in Shown(m) : EnvFile # Address(t) /\ <<"config#permissions", 0>> # Address(t)
      BY AddressIsNoFile
    <3>2. ASSUME NEW w \in ServersOf(m)
          PROVE  w.exposed <=> \E t \in Shown(m) : w.id = Address(t)
      BY <3>1, ServersAre
    <3>3. ASSUME NEW w \in ServersOf(m) PROVE w.exposed \in BOOLEAN /\ w.running = w.exposed
      <4>1. CASE w \in ToSet(PermissionServer(m.grants))
        <5>1. PICK only : only = [id |-> <<"config#permissions", 0>>, exposed |-> FALSE,
                                  running |-> FALSE, findings |-> GrantFindings(m.grants)]
          OBVIOUS
        <5>2. PermissionServer(m.grants) = << >> \/ PermissionServer(m.grants) = << only >>
          BY <5>1 DEF PermissionServer
        <5>3. w = only
          BY <4>1, <5>2, NothingHas, SingleHas
        <5>4. QED
          BY <5>1, <5>3
      <4>2. CASE w \in ToSet(EnvServer(m.secret))
        <5>1. PICK list : list = IF m.secret = 0 THEN << >>
                                 ELSE << Finding("CRED-PLAINTEXT", EnvFile, m.secret, "secret") >>
          OBVIOUS
        <5>2. PICK only : only = [id |-> EnvFile, exposed |-> FALSE, running |-> FALSE,
                                  findings |-> list]
          OBVIOUS
        <5>3. EnvServer(m.secret) = << only >>
          BY <5>1, <5>2 DEF EnvServer
        <5>4. w = only
          BY <4>2, <5>3, SingleHas
        <5>5. QED
          BY <5>2, <5>4
      <4>3. CASE w \in {SocketServer(s) : s \in Shown(m)}
        <5>1. PICK s \in Shown(m) : w = SocketServer(s)
          BY <4>3
        <5>2. SocketServer(s).exposed = TRUE /\ SocketServer(s).running = TRUE
          BY DEF SocketServer
        <5>3. QED
          BY <5>1, <5>2
      <4>4. QED
        BY <4>1, <4>2, <4>3 DEF ServersOf
    <3>4. QED
      BY <3>2, <3>3
  <2>2. u.exposed <=> v.exposed
    BY <1>2, <2>1
  <2>3. u.exposed \in BOOLEAN /\ v.exposed \in BOOLEAN
    BY <2>1
  <2>4. u.exposed = v.exposed
    BY <2>2, <2>3
  <2>5. QED
    BY <2>1, <2>4
<1>3. ASSUME NEW v
      PROVE  /\ ServerFact(v).key = <<"server", v.id>> /\ ServerFact(v).key[1] = "server"
             /\ ServerFact(v).key[2] = v.id
             /\ ServerFact(v).detail = [running |-> v.running,
                                        exposure |-> IF v.exposed THEN "exposed" ELSE "local"]
  BY DEF ServerFact
<1>4. ASSUME NEW v, NEW w
      PROVE  /\ FindingFact(v, w).key[1] = "finding" /\ FindingFact(v, w).key[3] = w.id
             /\ FindingFact(v, w).detail = [id |-> w.id]
  BY DEF FindingFact
<1>5. CASE \E v \in ServersOf(m) : f = ServerFact(v)
  <2>1. PICK u \in ServersOf(m) : f = ServerFact(u)
    BY <1>5
  <2>2. f.key[1] = "server" /\ f.key[2] = u.id
    BY <1>3, <2>1
  <2>3. \A v \in ServersOf(m) : \A w : g # FindingFact(v, w)
    <3>1. g.key[1] = "server"
      BY <2>2
    <3>2. \A v, w : FindingFact(v, w).key[1] = "finding"
      BY <1>4
    <3>3. QED
      BY <3>1, <3>2
  <2>4. PICK v \in ServersOf(m) : g = ServerFact(v)
    BY <1>1, <2>3
  <2>5. u.id = v.id
    BY <1>3, <2>2, <2>4
  <2>6. u.exposed = v.exposed /\ u.running = v.running
    BY <1>2, <2>5
  <2>7. QED
    BY <1>3, <2>1, <2>4, <2>6
<1>6. CASE \E v \in ServersOf(m) : \E w : f = FindingFact(v, w)
  <2>1. PICK u, w : f = FindingFact(u, w)
    BY <1>6
  <2>2. f.key[1] = "finding" /\ f.key[3] = w.id /\ f.detail = [id |-> w.id]
    BY <1>4, <2>1
  <2>3. ~ \E v \in ServersOf(m) : g = ServerFact(v)
    BY <1>3, <2>2
  <2>4. PICK v, x : g = FindingFact(v, x)
    BY <1>1, <2>3
  <2>5. g.key[3] = x.id /\ g.detail = [id |-> x.id]
    BY <1>4, <2>4
  <2>6. QED
    BY <2>2, <2>5
<1>7. QED
  BY <1>1, <1>5, <1>6

(* So is an asset, as no two sockets share an address.                     *)
LEMMA StockKeysTell ==
  ASSUME OneSocketPerAddress, NEW m \in Machine,
         NEW f \in StockFacts(m), NEW g \in StockFacts(m), f.key = g.key
  PROVE  f.detail = g.detail
<1>1. /\ AssetFact(HostAsset).key[3] = ConfigFile
      /\ \A a : AssetFact(Located(a)).key[3] = Address(a)
  BY DEF AssetFact, HostAsset, Located
<1>2. ASSUME NEW a \in AssetsOf(m)
      PROVE  \E s \in m.sockets : a \in Classify(s, Silent) /\ Address(a) = Address(s)
  <2>1. PICK s \in m.sockets : a \in Classify(s, Silent)
    BY DEF AssetsOf
  <2>2. a.ip = s.ip /\ a.port = s.port
    BY <2>1, MachineIs, SilentGives
  <2>3. QED
    BY <2>1, <2>2 DEF Address
<1>3. ASSUME NEW a \in AssetsOf(m) PROVE Address(a) # ConfigFile
  <2>1. PICK s \in m.sockets : Address(a) = Address(s)
    BY <1>2
  <2>2. s.ip \in Ip
    BY MachineIs, PostureAssumption
  <2>3. s.ip # "config"
    BY <2>2 DEF Ip
  <2>4. QED
    BY <2>1, <2>3 DEF Address, ConfigFile
<1>4. ASSUME NEW a \in AssetsOf(m), NEW b \in AssetsOf(m), Address(a) = Address(b)
      PROVE  a = b
  <2>1. PICK s \in m.sockets : a \in Classify(s, Silent) /\ Address(a) = Address(s)
    BY <1>2
  <2>2. PICK t \in m.sockets : b \in Classify(t, Silent) /\ Address(b) = Address(t)
    BY <1>2
  <2>3. s \in Sockets /\ t \in Sockets
    BY MachineIs
  <2>4. s = t
    BY <1>4, <2>1, <2>2, <2>3 DEF OneSocketPerAddress
  <2>5. QED
    BY <2>1, <2>2, <2>3, <2>4, SilentGives
<1>5. CASE f = AssetFact(HostAsset)
  <2>1. g = AssetFact(HostAsset)
    BY <1>1, <1>3, <1>5 DEF StockFacts
  <2>2. QED
    BY <1>5, <2>1
<1>6. CASE \E a \in AssetsOf(m) : f = AssetFact(Located(a))
  <2>1. PICK a \in AssetsOf(m) : f = AssetFact(Located(a))
    BY <1>6
  <2>2. g # AssetFact(HostAsset)
    BY <1>1, <1>3, <2>1
  <2>3. PICK b \in AssetsOf(m) : g = AssetFact(Located(b))
    BY <2>2 DEF StockFacts
  <2>4. a = b
    BY <1>1, <1>4, <2>1, <2>3
  <2>5. QED
    BY <2>1, <2>3, <2>4
<1>7. QED
  BY <1>5, <1>6 DEF StockFacts

(* What the facts of two machines are, whoever lists them.                 *)
FactsAt(scan, stock) == AllFactsOf(scan) \cup StockFacts(stock)

LEMMA KeysTell ==
  ASSUME OneSocketPerAddress, NEW scan \in Machine, NEW stock \in Machine,
         NEW f \in FactsAt(scan, stock), NEW g \in FactsAt(scan, stock), f.key = g.key
  PROVE  f.detail = g.detail
<1>1. \A h \in AllFactsOf(scan) : h.key[1] \in {"server", "finding"}
  BY DEF AllFactsOf, FactSet, ServerFact, FindingFact
<1>2. \A h \in StockFacts(stock) : h.key[1] = "asset"
  BY DEF StockFacts, AssetFact
<1>3. \/ f \in AllFactsOf(scan) /\ g \in AllFactsOf(scan)
      \/ f \in StockFacts(stock) /\ g \in StockFacts(stock)
  BY <1>1, <1>2 DEF FactsAt
<1>4. QED
  BY <1>3, ScanKeysTell, StockKeysTell

LEMMA QuietSnapshot ==
  ASSUME ~Probe, NEW scan \in Machine, NEW stock \in Machine, OneSocketPerService(stock),
         NEW s \in Snapshots(scan, stock)
  PROVE  /\ \A f \in FactsAt(scan, stock) : f.key \in DOMAIN s
         /\ \A k \in DOMAIN s : /\ ByKey(s)[k] \in FactsAt(scan, stock) /\ ByKey(s)[k].key = k
                                /\ Len(s[k]) \in Nat /\ Len(s[k]) >= 1
                                /\ DOMAIN s[k] = 1 .. Len(s[k])
<1>1. PICK X : \E facts \in Seq(X) :
        /\ s = Sorted(facts)
        /\ \E order \in SetToSeqs(stock.sockets), ears \in Heard(stock.sockets) :
             ToSet(facts) = AllFactsOf(scan) \cup ToSet(AssetFacts(CollectInventory(order, ears)))
  BY SnapshotFacts
<1>2. PICK facts \in Seq(X) :
        /\ s = Sorted(facts)
        /\ \E order \in SetToSeqs(stock.sockets), ears \in Heard(stock.sockets) :
             ToSet(facts) = AllFactsOf(scan) \cup ToSet(AssetFacts(CollectInventory(order, ears)))
  BY <1>1
<1>3. ToSet(facts) = FactsAt(scan, stock)
  BY <1>2, SilentFacts DEF FactsAt
<1>4. \A k \in DOMAIN s : s[k] \in Seq(X) => DOMAIN s[k] = 1 .. Len(s[k])
  OBVIOUS
<1>5. QED
  BY <1>2, <1>3, <1>4, SortedIs

(* Against a document of the same two machines nothing is reported.        *)
LEMMA SameMachinesNoDrift ==
  ASSUME ~Probe, OneSocketPerAddress,
         NEW scan \in Machine, NEW stock \in Machine, OneSocketPerService(stock),
         NEW s \in Snapshots(scan, stock), NEW t \in Snapshots(scan, stock),
         NEW d, Digest(d) = Digest(s)
  PROVE  DiffSnapshots(d, t) = {}
<1>1. DOMAIN s = DOMAIN t
  <2>1. ASSUME NEW u \in Snapshots(scan, stock), NEW v \in Snapshots(scan, stock),
               NEW k \in DOMAIN u
        PROVE  k \in DOMAIN v
    <3>1. ByKey(u)[k] \in FactsAt(scan, stock) /\ ByKey(u)[k].key = k
      BY QuietSnapshot
    <3>2. QED
      BY <3>1, QuietSnapshot
  <2>2. QED
    BY <2>1
<1>2. DOMAIN d = DOMAIN s
  BY DEF Digest
<1>3. ASSUME NEW k \in DOMAIN s PROVE ByKey(d)[k].detail = ByKey(t)[k].detail
  <2>1. PICK n \in Nat : n = Len(s[k]) /\ n >= 1 /\ DOMAIN s[k] = 1 .. n
    BY QuietSnapshot
  <2>2. ByKey(d)[k].detail = ByKey(s)[k].detail
    BY <2>1, SameDigest
  <2>3. PICK f : f = ByKey(s)[k] /\ f \in FactsAt(scan, stock) /\ f.key = k
    BY QuietSnapshot
  <2>4. PICK g : g = ByKey(t)[k] /\ g \in FactsAt(scan, stock) /\ g.key = k
    BY <1>1, QuietSnapshot
  <2>5. f.detail = g.detail
    BY <2>3, <2>4, KeysTell
  <2>6. QED
    BY <2>2, <2>3, <2>4, <2>5
<1>4. DOMAIN ByKey(d) = DOMAIN s /\ DOMAIN ByKey(t) = DOMAIN s
  BY <1>1, <1>2 DEF ByKey
<1>5. QED
  BY <1>3, <1>4 DEF DiffSnapshots, Added, Removed, Changed

----------------------------------------------------------------------------
(* The baseline file.  A document that a baseline run renders has the      *)
(* digest of a snapshot of the machines it saw; editing it keeps that      *)
(* digest, so only what is intact still has that snapshot's facts.         *)

Rendered(d) ==
  \E digest, facts, scan, stock :
    /\ d = [digest |-> digest, facts |-> facts, scan |-> scan, stock |-> stock]
    /\ scan \in Machine /\ stock \in Machine
    /\ \E s \in Snapshots(scan, stock) : digest = Digest(s)

RenderedOrNil(d) == d = Nil \/ Rendered(d)

(* What a process saw: its scan is that of the machine it remembers.       *)
SawIt(p) ==
  /\ \E scan, stock : looks[p] = [scan |-> scan, stock |-> stock]
  /\ pc[p] = "inventory" =>
       /\ looks[p].scan \in Machine
       /\ \E order \in SetToSeqs(looks[p].scan.sockets) :
            servers[p] = Scan(looks[p].scan, order)

FileInv == RenderedOrNil(text.front) /\ RenderedOrNil(text.rest)

DocInv == DOMAIN doc = Process /\ \A p \in Process : RenderedOrNil(doc[p])

BaseInv ==
  /\ DOMAIN base = Process
  /\ \A p \in Process :
       /\ RenderedOrNil(base[p])
       /\ pc[p] \in {"scan", "inventory"} /\ base[p] # Nil => Intact(base[p])

SeenInv ==
  /\ DOMAIN looks = Process /\ DOMAIN servers = Process
  /\ \A p \in Process : SawIt(p)

Shape == DOMAIN pc = Process /\ \E f, r : text = [front |-> f, rest |-> r]

GateInv == Shape /\ FileInv /\ DocInv /\ BaseInv /\ SeenInv

(* The machine stays one.                                                  *)
MachineInv == machine \in Machine

LEMMA MachineStep ==
  ASSUME machine \in Machine, [Next]_vars
  PROVE  machine' \in Machine
<1>1. CASE Change
  <2>1. machine' \in Neighbours(machine)
    BY <1>1 DEF Change
  <2>2. CASE \E g \in Grants : machine' = [machine EXCEPT !.grants = (@ \cup {g}) \ (@ \cap {g})]
    BY <2>2 DEF Machine
  <2>3. CASE \E n \in 0 .. MaxLine : machine' = [machine EXCEPT !.secret = n]
    BY <2>3 DEF Machine
  <2>4. CASE \E s \in Sockets : machine' = [machine EXCEPT !.sockets = (@ \cup {s}) \ (@ \cap {s})]
    BY <2>4 DEF Machine
  <2>5. QED
    BY <2>1, <2>2, <2>3, <2>4 DEF Neighbours
<1>2. CASE Edit \/ Widen \/ UNCHANGED vars
  BY <1>2 DEF Edit, Widen, vars
<1>3. ASSUME NEW p \in Process, RunBaseline(p) \/ RunDiff(p) \/ Command(p) \/ Kill(p)
      PROVE  machine' = machine
  BY <1>3 DEF RunBaseline, RunDiff, Begin, Command, ReadFront, ReadRest, TakeScan,
              TakeInventory, Write, CloseReport, Kill
<1>4. QED
  BY <1>1, <1>2, <1>3 DEF Next

LEMMA GateInit == Init => GateInv
<1> SUFFICES ASSUME Init PROVE GateInv
  OBVIOUS
<1> USE DEF Init, FileInit
<1>1. Shape /\ FileInv
  BY DEF Shape, FileInv, RenderedOrNil, Empty
<1>2. DocInv /\ BaseInv
  BY DEF DocInv, BaseInv, RenderedOrNil
<1>3. SeenInv
  BY DEF SeenInv, SawIt, Unseen
<1> QED
  BY <1>1, <1>2, <1>3 DEF GateInv

(* The snapshot of an inventory taken after a scan.                        *)
LEMMA TakenIsSnapshot ==
  ASSUME NEW p \in Process, SawIt(p), pc[p] = "inventory",
         NEW order \in SetToSeqs(machine.sockets), NEW ears \in Heard(machine.sockets)
  PROVE  BuildSnapshot(servers[p], CollectInventory(order, ears))
           \in Snapshots(looks[p].scan, machine)
BY DEF SawIt, Snapshots

(* An intact document that was rendered has the digest of a snapshot.      *)
LEMMA IntactIsTaken ==
  ASSUME NEW d, Rendered(d), Intact(d)
  PROVE  /\ d.scan \in Machine /\ d.stock \in Machine
         /\ \E s \in Snapshots(d.scan, d.stock) : Digest(d.facts) = Digest(s)
BY DEF Rendered, Intact

(* What a reader has accepted is the document of a snapshot that was taken. *)
THEOREM GateJudgesByTaken == GateInv => OnlyTakenBaselines
<1> SUFFICES ASSUME GateInv, NEW p \in Process,
                    pc[p] \in {"scan", "inventory"}, base[p] # Nil
             PROVE  \E s \in Snapshots(base[p].scan, base[p].stock) :
                      Digest(base[p].facts) = Digest(s)
  BY DEF OnlyTakenBaselines
<1>1. Rendered(base[p]) /\ Intact(base[p])
  BY DEF GateInv, BaseInv, RenderedOrNil
<1> QED
  BY <1>1, IntactIsTaken

----------------------------------------------------------------------------
LEMMA BeginStep ==
  ASSUME GateInv, NEW p \in Process, NEW label \in {"scan", "readFront"},
         Begin(p, label)
  PROVE  GateInv'
<1> USE DEF Begin, GoTo, fileVars
<1>1. Shape' /\ FileInv' /\ DocInv'
  BY DEF GateInv, Shape, FileInv, DocInv, RenderedOrNil, Rendered
<1>2. BaseInv'
  BY DEF GateInv, Shape, BaseInv, RenderedOrNil
<1>3. SeenInv'
  <2>1. DOMAIN looks' = Process /\ DOMAIN servers' = Process
    BY DEF GateInv, SeenInv
  <2>2. SawIt(p)'
    BY DEF GateInv, Shape, SeenInv, SawIt, Unseen
  <2>3. ASSUME NEW q \in Process, q # p PROVE SawIt(q)'
    <3>1. pc'[q] = pc[q] /\ looks'[q] = looks[q] /\ servers'[q] = servers[q]
      BY <2>3 DEF GateInv, Shape, SeenInv
    <3>2. SawIt(q)
      BY DEF GateInv, SeenInv
    <3>3. QED
      BY <3>1, <3>2 DEF SawIt
  <2>4. QED
    BY <2>1, <2>2, <2>3 DEF SeenInv
<1> QED
  BY <1>1, <1>2, <1>3 DEF GateInv

LEMMA ReadStep ==
  ASSUME GateInv, NEW p \in Process, ReadFront(p) \/ ReadRest(p)
  PROVE  GateInv'
<1> USE DEF GoTo, fileVars
<1>1. UNCHANGED <<fileVars, servers, looks>>
  BY DEF ReadFront, ReadRest
<1>2. \A q \in Process : q # p => pc'[q] = pc[q] /\ base'[q] = base[q]
  BY DEF ReadFront, ReadRest, GateInv, Shape, BaseInv
<1>3. DOMAIN pc' = Process /\ DOMAIN base' = Process
  BY DEF ReadFront, ReadRest, GateInv, Shape, BaseInv
<1>4. Shape' /\ FileInv' /\ DocInv'
  BY <1>1, <1>3 DEF GateInv, Shape, FileInv, DocInv
<1>5. /\ pc'[p] # "inventory"
      /\ RenderedOrNil(base'[p])
      /\ pc'[p] = "scan" => Intact(base'[p])
  <2>1. CASE ReadFront(p)
    BY <2>1 DEF ReadFront, GateInv, Shape, BaseInv, FileInv
  <2>2. CASE ReadRest(p)
    <3>1. CASE Loads(base[p], text.rest)
      BY <2>2, <3>1 DEF ReadRest, Loads, GateInv, Shape, BaseInv, FileInv
    <3>2. CASE ~Loads(base[p], text.rest)
      BY <2>2, <3>2 DEF ReadRest, RenderedOrNil, GateInv, Shape, BaseInv
    <3> QED
      BY <3>1, <3>2
  <2> QED
    BY <2>1, <2>2
<1>6. BaseInv'
  BY <1>2, <1>3, <1>5 DEF GateInv, BaseInv
<1>7. SeenInv'
  BY <1>1, <1>2, <1>5 DEF GateInv, SeenInv, SawIt
<1> QED
  BY <1>4, <1>6, <1>7 DEF GateInv

LEMMA ScanStep ==
  ASSUME GateInv, machine \in Machine, NEW p \in Process, TakeScan(p)
  PROVE  GateInv'
<1> USE DEF TakeScan, GoTo, fileVars
<1>1. Shape' /\ FileInv' /\ DocInv'
  BY DEF GateInv, Shape, FileInv, DocInv
<1>2. BaseInv'
  BY DEF GateInv, Shape, BaseInv
<1>3. PICK order \in SetToSeqs(machine.sockets) :
        servers' = [servers EXCEPT ![p] = Scan(machine, order)]
  OBVIOUS
<1>4. PICK scan, stock : looks[p] = [scan |-> scan, stock |-> stock]
  BY DEF GateInv, SeenInv, SawIt
<1>5. looks'[p] = [scan |-> machine, stock |-> stock]
  BY <1>4 DEF GateInv, SeenInv
<1>6. servers'[p] = Scan(looks'[p].scan, order)
  BY <1>3, <1>5 DEF GateInv, SeenInv
<1>7. SawIt(p)'
  <2>1. looks'[p].scan = machine
    BY <1>5
  <2>2. order \in SetToSeqs(looks'[p].scan.sockets)
    BY <1>3, <2>1, Zenon
  <2>3. \E o \in SetToSeqs(looks'[p].scan.sockets) : servers'[p] = Scan(looks'[p].scan, o)
    BY <1>6, <2>2, Zenon
  <2>4. looks'[p].scan \in Machine
    BY <2>1, Zenon
  <2> QED
    BY <1>5, <2>3, <2>4, Zenon DEF SawIt
<1>8. \A q \in Process : q # p => pc'[q] = pc[q] /\ looks'[q] = looks[q] /\ servers'[q] = servers[q]
  BY <1>3 DEF GateInv, Shape, SeenInv
<1> HIDE DEF TakeScan, GoTo, fileVars
<1>9. ASSUME NEW q \in Process PROVE SawIt(q)'
  <2>1. CASE q = p
    BY <1>7, <2>1, Zenon
  <2>2. CASE q # p
    <3>1. SawIt(q)
      BY Zenon DEF GateInv, SeenInv
    <3>2. pc'[q] = pc[q] /\ looks'[q] = looks[q] /\ servers'[q] = servers[q]
      BY <1>8, <2>2, Zenon
    <3> QED
      BY <3>1, <3>2, Zenon DEF SawIt
  <2> QED
    BY <2>1, <2>2
<1>10. SeenInv'
  BY <1>3, <1>9 DEF TakeScan, GateInv, SeenInv
<1> QED
  BY <1>1, <1>2, <1>10 DEF GateInv

LEMMA InventoryStep ==
  ASSUME GateInv, machine \in Machine, NEW p \in Process, TakeInventory(p)
  PROVE  GateInv'
<1> USE DEF GoTo, fileVars
<1>1. PICK order \in SetToSeqs(machine.sockets), ears \in Heard(machine.sockets) :
        LET snapshot == BuildSnapshot(servers[p], CollectInventory(order, ears))
        IN  \/ base[p] # Nil /\ Compare(p, snapshot)
            \/ base[p] = Nil /\ Output(p, snapshot, machine)
  BY DEF TakeInventory
<1> DEFINE snapshot == BuildSnapshot(servers[p], CollectInventory(order, ears))
<1>2. pc[p] = "inventory" /\ SawIt(p)
  BY DEF TakeInventory, GateInv, SeenInv
<1>3. snapshot \in Snapshots(looks[p].scan, machine)
  BY <1>2, TakenIsSnapshot
<1> HIDE DEF snapshot
<1>4. \/ Compare(p, snapshot)
      \/ Output(p, snapshot, machine)
  BY <1>1 DEF snapshot
<1>5. /\ looks' = [looks EXCEPT ![p].stock = machine]
      /\ servers' = [servers EXCEPT ![p] = <<>>]
      /\ base' = base
  BY DEF TakeInventory
<1>6. /\ DOMAIN pc' = Process
      /\ pc'[p] \notin {"scan", "inventory"}
      /\ \A q \in Process : q # p => pc'[q] = pc[q]
  BY <1>4 DEF Compare, Output, GateInv, Shape
<1>7. Shape' /\ FileInv' /\ DocInv'
  <2>1. CASE Compare(p, snapshot)
    BY <2>1, <1>6 DEF Compare, GateInv, Shape, FileInv, DocInv
  <2>2. CASE Output(p, snapshot, machine)
    <3> DEFINE d == [digest |-> Digest(snapshot), facts |-> snapshot,
                     scan |-> looks[p].scan, stock |-> machine]
    <3>1. Rendered(d)
      BY <1>2, <1>3 DEF Rendered, SawIt, TakeInventory
    <3>2. text' = Empty /\ doc' = [doc EXCEPT ![p] = d]
      BY <2>2 DEF Output, OpenReport
    <3> HIDE DEF d
    <3>3. Shape' /\ FileInv'
      BY <3>2, <1>6 DEF Empty, Shape, FileInv, RenderedOrNil
    <3>4. DocInv'
      BY <3>1, <3>2 DEF GateInv, DocInv, RenderedOrNil
    <3> QED
      BY <3>3, <3>4
  <2> QED
    BY <1>4, <2>1, <2>2
<1>8. BaseInv'
  BY <1>5, <1>6 DEF GateInv, BaseInv
<1>9. PICK scan, stock : looks[p] = [scan |-> scan, stock |-> stock]
  BY <1>2 DEF SawIt
<1>10. looks'[p] = [scan |-> scan, stock |-> machine]
  BY <1>5, <1>9 DEF GateInv, SeenInv
<1>11. SawIt(p)'
  BY <1>6, <1>10 DEF SawIt
<1>12. \A q \in Process : q # p => looks'[q] = looks[q] /\ servers'[q] = servers[q]
  BY <1>5 DEF GateInv, SeenInv
<1>13. ASSUME NEW q \in Process PROVE SawIt(q)'
  <2>1. CASE q = p
    BY <1>11, <2>1, Zenon
  <2>2. CASE q # p
    <3>1. SawIt(q)
      BY Zenon DEF GateInv, SeenInv
    <3> QED
      BY <1>6, <1>12, <2>2, <3>1, Zenon DEF SawIt
  <2> QED
    BY <2>1, <2>2
<1>14. SeenInv'
  BY <1>5, <1>13 DEF GateInv, SeenInv
<1> QED
  BY <1>7, <1>8, <1>14 DEF GateInv

LEMMA WriteStep ==
  ASSUME GateInv, NEW p \in Process, Write(p)
  PROVE  GateInv'
<1> USE DEF fileVars, procVars
<1>1. UNCHANGED <<pc, base, servers, looks, doc>>
  BY DEF Write, WriteFront, WriteRest, WriteFails
<1>2. RenderedOrNil(doc[p])
  BY Zenon DEF GateInv, DocInv
<1>3. \E f, r : text = [front |-> f, rest |-> r] /\ RenderedOrNil(f) /\ RenderedOrNil(r)
  BY DEF GateInv, Shape, FileInv
<1>4. \/ text' = text
      \/ text' = [text EXCEPT !.front = doc[p]]
      \/ text' = [text EXCEPT !.rest = doc[p]]
  BY Zenon DEF Write, WriteFront, WriteRest, WriteFails
<1>5. \E f, r : text' = [front |-> f, rest |-> r] /\ RenderedOrNil(f) /\ RenderedOrNil(r)
  BY <1>2, <1>3, <1>4
<1>6. Shape' /\ FileInv'
  <2>1. PICK f, r : text' = [front |-> f, rest |-> r] /\ RenderedOrNil(f) /\ RenderedOrNil(r)
    BY <1>5
  <2>2. text'.front = f /\ text'.rest = r
    BY <2>1
  <2>3. FileInv'
    BY <2>1, <2>2 DEF FileInv, RenderedOrNil
  <2>4. Shape'
    BY <1>1, <2>1 DEF GateInv, Shape
  <2> QED
    BY <2>3, <2>4
<1>7. DocInv' /\ BaseInv' /\ SeenInv'
  BY <1>1 DEF GateInv, DocInv, BaseInv, SeenInv, SawIt
<1> QED
  BY <1>6, <1>7 DEF GateInv

(* Closing the file and being killed forget what the process held.         *)
LEMMA EndStep ==
  ASSUME GateInv, NEW p \in Process, CloseReport(p) \/ Kill(p)
  PROVE  GateInv'
<1> USE DEF GoTo
<1>1. /\ text' = text
      /\ doc' = [doc EXCEPT ![p] = Nil]
      /\ pc' = [pc EXCEPT ![p] = "idle"]
      /\ looks' = [looks EXCEPT ![p] = Unseen]
      /\ base' = base \/ base' = [base EXCEPT ![p] = Nil]
      /\ servers' = servers \/ servers' = [servers EXCEPT ![p] = <<>>]
  BY Zenon DEF CloseReport, Kill, Chmod, Killed
<1>2. Shape' /\ FileInv' /\ DocInv'
  BY <1>1 DEF GateInv, Shape, FileInv, DocInv, RenderedOrNil
<1>3. BaseInv'
  BY <1>1 DEF GateInv, Shape, BaseInv, RenderedOrNil
<1>4. SeenInv'
  <2>1. DOMAIN looks' = Process /\ DOMAIN servers' = Process
    BY <1>1 DEF GateInv, SeenInv
  <2>2. SawIt(p)'
    BY <1>1 DEF GateInv, Shape, SeenInv, SawIt, Unseen
  <2>3. \A q \in Process : q # p =>
          pc'[q] = pc[q] /\ looks'[q] = looks[q] /\ servers'[q] = servers[q]
    BY <1>1 DEF GateInv, Shape, SeenInv
  <2>4. ASSUME NEW q \in Process, q # p PROVE SawIt(q)'
    BY <2>3, <2>4, Zenon DEF GateInv, SeenInv, SawIt
  <2> QED
    BY <2>1, <2>2, <2>4, Zenon DEF SeenInv
<1> QED
  BY <1>2, <1>3, <1>4 DEF GateInv

(* An edit keeps the digest and the machines of the document.              *)
LEMMA EnvironmentStep ==
  ASSUME GateInv, Change \/ Edit \/ Widen
  PROVE  GateInv'
<1> USE DEF fileVars, procVars
<1>1. UNCHANGED <<pc, base, servers, looks, doc>>
  BY DEF Change, Edit, Widen, Loosen
<1>2. DocInv' /\ BaseInv' /\ SeenInv'
  BY <1>1, Zenon DEF GateInv, DocInv, BaseInv, SeenInv, SawIt
<1>3. Shape' /\ FileInv'
  <2>1. CASE Edit
    <3>1. PICK facts \in EditsOf(text.front.facts) :
            LET d == [text.front EXCEPT !.facts = facts]
            IN  text' = [front |-> d, rest |-> d]
      BY <2>1 DEF Edit
    <3> DEFINE d == [text.front EXCEPT !.facts = facts]
    <3>2. Rendered(text.front)
      BY <2>1 DEF Edit, GateInv, FileInv, RenderedOrNil
    <3>3. Rendered(d)
      <4>1. PICK digest, old, scan, stock :
              /\ text.front = [digest |-> digest, facts |-> old, scan |-> scan, stock |-> stock]
              /\ scan \in Machine /\ stock \in Machine
              /\ \E s \in Snapshots(scan, stock) : digest = Digest(s)
        BY <3>2, Zenon DEF Rendered
      <4>2. d = [digest |-> digest, facts |-> facts, scan |-> scan, stock |-> stock]
        BY <4>1
      <4> QED
        BY <4>1, <4>2, Zenon DEF Rendered
    <3>4. text' = [front |-> d, rest |-> d]
      BY <3>1
    <3> HIDE DEF d
    <3> QED
      BY <3>3, <3>4, <1>1 DEF GateInv, Shape, FileInv, RenderedOrNil
  <2>2. CASE Change \/ Widen
    <3>1. text' = text
      BY <2>2 DEF Change, Widen, Loosen
    <3> QED
      BY <3>1, <1>1 DEF GateInv, Shape, FileInv
  <2> QED
    BY <2>1, <2>2
<1> QED
  BY <1>2, <1>3 DEF GateInv

LEMMA GateStep == GateInv /\ machine \in Machine /\ [Next]_vars => GateInv'
<1> SUFFICES ASSUME GateInv, machine \in Machine, [Next]_vars PROVE GateInv'
  OBVIOUS
<1>1. CASE Change \/ Edit \/ Widen
  BY <1>1, EnvironmentStep
<1>2. ASSUME NEW p \in Process, RunBaseline(p) \/ RunDiff(p) PROVE GateInv'
  BY <1>2, BeginStep DEF RunBaseline, RunDiff
<1>3. ASSUME NEW p \in Process, Command(p) PROVE GateInv'
  BY <1>3, ReadStep, ScanStep, InventoryStep, WriteStep, EndStep DEF Command
<1>4. ASSUME NEW p \in Process, Kill(p) PROVE GateInv'
  BY <1>4, EndStep
<1>5. CASE UNCHANGED vars
  BY <1>5, ZenonT(30)
     DEF vars, fileVars, procVars, GateInv, Shape, FileInv, DocInv, BaseInv, SeenInv, SawIt
<1> QED
  BY <1>1, <1>2, <1>3, <1>4, <1>5 DEF Next

(* The gate never judges by a baseline that is torn, mixed, half read or   *)
(* edited: what diff compares with is the snapshot some baseline run took. *)
THEOREM GateTrustsOnlyTaken == Spec => []OnlyTakenBaselines
<1>1. Init => MachineInv /\ GateInv
  <2>1. Init => MachineInv
    BY GateAssumption DEF Init, MachineInv
  <2>2. QED
    BY <2>1, GateInit
<1>2. MachineInv /\ [Next]_vars => MachineInv'
  BY MachineStep DEF MachineInv
<1>3. GateInv => OnlyTakenBaselines
  BY GateJudgesByTaken
<1>4. GateInv /\ MachineInv /\ [Next]_vars => GateInv'
  BY GateStep DEF MachineInv
<1> QED
  BY <1>1, <1>2, <1>3, <1>4, PTL DEF Spec

----------------------------------------------------------------------------
(* The verdict.  Only comparing makes a process one that has judged, and   *)
(* until it begins anew nothing touches what it compared, what it came to  *)
(* and how it exited.                                                      *)

BlankInv ==
  /\ DOMAIN exit = Process /\ DOMAIN report = Process
  /\ \A p \in Process : pc[p] \in {"readFront", "write"} => base[p] = Nil

Kept(p) ==
  /\ Judged(p)
  /\ base'[p] = base[p] /\ looks'[p] = looks[p] /\ exit'[p] = exit[p] /\ report'[p] = report[p]

Compared(p) ==
  /\ pc[p] = "inventory" /\ base[p] # Nil
  /\ base'[p] = base[p]
  /\ looks'[p] = [scan |-> looks[p].scan, stock |-> machine]
  /\ \E snapshot \in Snapshots(looks[p].scan, machine) :
       report'[p] = DiffSnapshots(base[p].facts, snapshot)
  /\ exit'[p] = IF Regressions(report'[p]) # {} THEN 1 ELSE 0

JudgedRightly(p) == Judged(p)' => Kept(p) \/ Compared(p)

(* A step that is one process's leaves the others as they are.             *)
LEMMA OneProcess ==
  ASSUME BlankInv, NEW p \in Process,
         DOMAIN exit' = Process, DOMAIN report' = Process,
         pc'[p] \in {"readFront", "write"} => base'[p] = Nil, JudgedRightly(p),
         \A q \in Process : q # p => /\ pc'[q] = pc[q] /\ base'[q] = base[q]
                                     /\ looks'[q] = looks[q] /\ exit'[q] = exit[q]
                                     /\ report'[q] = report[q]
  PROVE  BlankInv' /\ \A q \in Process : JudgedRightly(q)
<1>1. BlankInv'
  BY DEF BlankInv
<1>2. ASSUME NEW q \in Process PROVE JudgedRightly(q)
  BY DEF JudgedRightly, Kept, Judged
<1>3. QED
  BY <1>1, <1>2

LEMMA JudgedStep ==
  ASSUME GateInv, BlankInv, [Next]_vars
  PROVE  BlankInv' /\ \A p \in Process : JudgedRightly(p)
<1>1. CASE Change \/ Edit \/ Widen \/ UNCHANGED vars
  BY <1>1 DEF Change, Edit, Widen, procVars, vars, BlankInv, JudgedRightly, Kept, Judged
<1>2. ASSUME NEW p \in Process,
             \/ RunBaseline(p) \/ RunDiff(p) \/ ReadFront(p) \/ ReadRest(p) \/ TakeScan(p)
             \/ TakeInventory(p) \/ Write(p) \/ CloseReport(p) \/ Kill(p)
      PROVE  BlankInv' /\ \A q \in Process : JudgedRightly(q)
  <2>1. /\ DOMAIN pc = Process /\ DOMAIN base = Process /\ DOMAIN looks = Process
        /\ DOMAIN exit = Process /\ DOMAIN report = Process
        /\ pc[p] \in {"readFront", "write"} => base[p] = Nil
    BY DEF GateInv, Shape, BaseInv, SeenInv, BlankInv
  <2> USE DEF GoTo
  <2>2. CASE RunBaseline(p) \/ RunDiff(p)
    <3>1. pc'[p] # "idle" /\ base'[p] = Nil
      BY <2>1, <2>2 DEF RunBaseline, RunDiff, Begin
    <3>2. JudgedRightly(p)
      BY <3>1 DEF JudgedRightly, Judged
    <3>3. QED
      BY <2>1, <2>2, <3>1, <3>2, OneProcess DEF RunBaseline, RunDiff, Begin
  <2>3. CASE ReadFront(p)
    <3>1. base[p] = Nil /\ (pc'[p] = "readRest" \/ (pc'[p] = "idle" /\ base'[p] = Nil))
      BY <2>1, <2>3 DEF ReadFront
    <3>2. JudgedRightly(p)
      BY <3>1 DEF JudgedRightly, Judged
    <3>3. QED
      BY <2>1, <2>3, <3>1, <3>2, OneProcess DEF ReadFront
  <2>4. CASE ReadRest(p)
    <3>1. pc'[p] = "scan" \/ (pc'[p] = "idle" /\ base'[p] = Nil)
      BY <2>1, <2>4 DEF ReadRest
    <3>2. JudgedRightly(p)
      BY <3>1 DEF JudgedRightly, Judged
    <3>3. QED
      BY <2>1, <2>4, <3>1, <3>2, OneProcess DEF ReadRest
  <2>5. CASE TakeScan(p)
    <3>1. pc'[p] = "inventory"
      BY <2>1, <2>5 DEF TakeScan
    <3>2. JudgedRightly(p)
      BY <3>1 DEF JudgedRightly, Judged
    <3>3. QED
      BY <2>1, <2>5, <3>1, <3>2, OneProcess DEF TakeScan
  <2>6. CASE TakeInventory(p)
    <3>1. PICK order \in SetToSeqs(machine.sockets), ears \in Heard(machine.sockets) :
            LET snapshot == BuildSnapshot(servers[p], CollectInventory(order, ears))
            IN  \/ base[p] # Nil /\ Compare(p, snapshot)
                \/ base[p] = Nil /\ Output(p, snapshot, machine)
      BY <2>6 DEF TakeInventory
    <3>2. PICK snapshot : snapshot = BuildSnapshot(servers[p], CollectInventory(order, ears))
      OBVIOUS
    <3>3. pc[p] = "inventory" /\ SawIt(p)
      BY <2>6 DEF TakeInventory, GateInv, SeenInv
    <3>4. snapshot \in Snapshots(looks[p].scan, machine)
      BY <3>2, <3>3, TakenIsSnapshot
    <3>5. base' = base /\ looks' = [looks EXCEPT ![p].stock = machine]
      BY <2>6 DEF TakeInventory
    <3>6. looks'[p] = [scan |-> looks[p].scan, stock |-> machine]
      BY <2>1, <3>3, <3>5 DEF SawIt
    <3>7. CASE base[p] # Nil /\ Compare(p, snapshot)
      <4>1. /\ report'[p] = DiffSnapshots(base[p].facts, snapshot)
            /\ exit'[p] = IF Regressions(report'[p]) # {} THEN 1 ELSE 0
            /\ pc'[p] = "idle"
        BY <2>1, <3>7 DEF Compare
      <4>2. JudgedRightly(p)
        BY <3>3, <3>4, <3>5, <3>6, <3>7, <4>1 DEF JudgedRightly, Compared
      <4>3. QED
        BY <2>1, <3>5, <3>7, <4>1, <4>2, OneProcess DEF Compare
    <3>8. CASE base[p] = Nil /\ Output(p, snapshot, machine)
      <4>1. JudgedRightly(p)
        BY <3>5, <3>8 DEF JudgedRightly, Judged
      <4>2. QED
        BY <2>1, <3>5, <3>8, <4>1, OneProcess DEF Output
    <3>9. QED
      BY <3>1, <3>2, <3>7, <3>8
  <2>7. CASE Write(p)
    <3>1. UNCHANGED <<pc, base, looks, exit, report>>
      BY <2>7 DEF Write, procVars
    <3>2. QED
      BY <3>1 DEF BlankInv, JudgedRightly, Kept, Judged
  <2>8. CASE CloseReport(p) \/ Kill(p)
    <3>1. base'[p] = Nil /\ pc'[p] = "idle"
      BY <2>1, <2>8 DEF CloseReport, Kill
    <3>2. JudgedRightly(p)
      BY <3>1 DEF JudgedRightly, Judged
    <3>3. QED
      BY <2>1, <2>8, <3>1, <3>2, OneProcess DEF CloseReport, Kill
  <2>9. QED
    BY <1>2, <2>2, <2>3, <2>4, <2>5, <2>6, <2>7, <2>8
<1>3. QED
  BY <1>1, <1>2 DEF Next, Command

(* What a process compares with was taken, and so is what it compares.     *)
LEMMA ComparedTaken ==
  ASSUME GateInv, NEW p \in Process, Compared(p)
  PROVE  /\ looks[p].scan \in Machine
         /\ base[p].scan \in Machine /\ base[p].stock \in Machine
         /\ \E s \in Snapshots(base[p].scan, base[p].stock) : Digest(base[p].facts) = Digest(s)
<1>1. Rendered(base[p]) /\ Intact(base[p]) /\ looks[p].scan \in Machine
  BY DEF GateInv, BaseInv, RenderedOrNil, SeenInv, SawIt, Compared
<1>2. QED
  BY <1>1, IntactIsTaken

VerdictAt(p) ==
  Judged(p) => /\ exit[p] \in {0, 1}
               /\ exit[p] = 0 <=> Places(looks[p].scan) \subseteq Places(base[p].scan)

VerdictInv == BlankInv /\ \A p \in Process : VerdictAt(p)

LEMMA CompareIsAboutPlaces ==
  ASSUME GateInv, machine \in Machine, NEW p \in Process, Compared(p)
  PROVE  /\ exit'[p] \in {0, 1}
         /\ exit'[p] = 0 <=> Places(looks'[p].scan) \subseteq Places(base'[p].scan)
<1>1. PICK s : /\ base[p].scan \in Machine /\ base[p].stock \in Machine
               /\ s \in Snapshots(base[p].scan, base[p].stock)
               /\ Digest(base[p].facts) = Digest(s)
  BY ComparedTaken
<1>2. Tells(base[p].facts, base[p].scan)
  BY <1>1, DocumentTells
<1>3. PICK snapshot \in Snapshots(looks[p].scan, machine) :
        report'[p] = DiffSnapshots(base[p].facts, snapshot)
  BY DEF Compared
<1>4. looks[p].scan \in Machine /\ Tells(snapshot, looks[p].scan)
  BY ComparedTaken, SnapshotTells
<1>5. Regressions(report'[p]) = {} <=> Places(looks[p].scan) \subseteq Places(base[p].scan)
  BY <1>1, <1>2, <1>3, <1>4, QuietIsNoNewPlace
<1>6. QED
  BY <1>5 DEF Compared

LEMMA VerdictStep == GateInv /\ machine \in Machine /\ VerdictInv /\ [Next]_vars => VerdictInv'
<1> SUFFICES ASSUME GateInv, machine \in Machine, VerdictInv, [Next]_vars PROVE VerdictInv'
  OBVIOUS
<1>1. BlankInv' /\ \A p \in Process : JudgedRightly(p)
  BY JudgedStep DEF VerdictInv
<1>2. ASSUME NEW p \in Process PROVE VerdictAt(p)'
  <2>1. CASE Kept(p)
    BY <2>1 DEF VerdictInv, VerdictAt, Kept
  <2>2. CASE Compared(p)
    BY <2>2, CompareIsAboutPlaces DEF VerdictAt
  <2>3. QED
    BY <1>1, <2>1, <2>2 DEF JudgedRightly, VerdictAt
<1>3. QED
  BY <1>1, <1>2 DEF VerdictInv

(* For any machines, processes, edits and crashes: the status of diff is   *)
(* that of the places of the two machines that were scanned, the one the   *)
(* baseline was taken from and the present one.                            *)
THEOREM VerdictIsTrue == Spec => []VerdictInv
<1>1. Init => MachineInv /\ GateInv /\ VerdictInv
  <2>1. Init => MachineInv
    BY GateAssumption DEF Init, MachineInv
  <2>2. Init => VerdictInv
    BY DEF Init, VerdictInv, BlankInv, VerdictAt, Judged
  <2>3. QED
    BY <2>1, <2>2, GateInit
<1>2. MachineInv /\ [Next]_vars => MachineInv'
  BY MachineStep DEF MachineInv
<1>3. GateInv /\ MachineInv /\ [Next]_vars => GateInv'
  BY GateStep DEF MachineInv
<1>4. GateInv /\ MachineInv /\ VerdictInv /\ [Next]_vars => VerdictInv'
  BY VerdictStep DEF MachineInv
<1>5. QED
  BY <1>1, <1>2, <1>3, <1>4, PTL DEF Spec

(* The gate passes only when every place that is wrong was wrong before    *)
(* (diff.py:29-51, cli._run_diff).                                         *)
THEOREM QuietIsRight == Spec => []QuietMeansNoNewPlace
<1>1. VerdictInv => QuietMeansNoNewPlace
  BY DEF VerdictInv, VerdictAt, QuietMeansNoNewPlace
<1>2. QED
  BY <1>1, VerdictIsTrue, PTL

(* It fails only when one is new.                                          *)
THEOREM AlarmIsRight == Spec => []AlarmMeansNewPlace
<1>1. VerdictInv => AlarmMeansNewPlace
  BY DEF VerdictInv, VerdictAt, AlarmMeansNewPlace
<1>2. QED
  BY <1>1, VerdictIsTrue, PTL

(* Where nothing is asked and no two sockets share an address, a diff that *)
(* sees the machines the baseline saw, each socket of them a service of    *)
(* its own, reports nothing (snapshot.py:5-7).                             *)
LEMMA SamePostureStep ==
  ASSUME ~Probe, OneSocketPerAddress, GateInv, machine \in Machine, BlankInv,
         SamePostureNoDrift, [Next]_vars
  PROVE  SamePostureNoDrift'
<1>1. \A p \in Process : JudgedRightly(p)
  BY JudgedStep
<1>2. ASSUME NEW p \in Process, Judged(p)', SameMachines(p)',
             \A s, t \in base'[p].stock.sockets : s # t => Service(s) # Service(t)
      PROVE  report'[p] = {}
  <2>1. CASE Kept(p)
    <3>1. Judged(p) /\ SameMachines(p)
      BY <1>2, <2>1 DEF Kept, SameMachines
    <3>2. report[p] = {}
      BY <1>2, <2>1, <3>1 DEF Kept, SamePostureNoDrift
    <3>3. QED
      BY <2>1, <3>2 DEF Kept
  <2>2. CASE Compared(p)
    <3>1. PICK s : /\ base[p].scan \in Machine /\ base[p].stock \in Machine
                   /\ s \in Snapshots(base[p].scan, base[p].stock)
                   /\ Digest(base[p].facts) = Digest(s)
      BY <2>2, ComparedTaken
    <3>2. PICK snapshot \in Snapshots(looks[p].scan, machine) :
            report'[p] = DiffSnapshots(base[p].facts, snapshot)
      BY <2>2 DEF Compared
    <3>3. base'[p] = base[p] /\ looks'[p] = [scan |-> looks[p].scan, stock |-> machine]
      BY <2>2 DEF Compared
    <3>4. looks[p].scan = base[p].scan /\ machine = base[p].stock
      BY <1>2, <3>3 DEF SameMachines
    <3>5. OneSocketPerService(base[p].stock)
      BY <1>2, <3>3 DEF OneSocketPerService
    <3>6. QED
      BY <3>1, <3>2, <3>4, <3>5, SameMachinesNoDrift
  <2>3. QED
    BY <1>1, <1>2, <2>1, <2>2 DEF JudgedRightly
<1>3. QED
  BY <1>2 DEF SamePostureNoDrift

THEOREM SamePostureIsQuiet ==
  ASSUME ~Probe, OneSocketPerAddress
  PROVE  Spec => []SamePostureNoDrift
<1>1. Init => MachineInv /\ GateInv /\ BlankInv /\ SamePostureNoDrift
  <2>1. Init => MachineInv
    BY GateAssumption DEF Init, MachineInv
  <2>2. Init => BlankInv /\ SamePostureNoDrift
    BY DEF Init, BlankInv, SamePostureNoDrift, Judged
  <2>3. QED
    BY <2>1, <2>2, GateInit
<1>2. MachineInv /\ [Next]_vars => MachineInv'
  BY MachineStep DEF MachineInv
<1>3. GateInv /\ MachineInv /\ [Next]_vars => GateInv'
  BY GateStep DEF MachineInv
<1>4. GateInv /\ BlankInv /\ [Next]_vars => BlankInv'
  BY JudgedStep
<1>5. /\ GateInv /\ MachineInv /\ BlankInv /\ SamePostureNoDrift /\ [Next]_vars
      => SamePostureNoDrift'
  BY SamePostureStep DEF MachineInv
<1>6. QED
  BY <1>1, <1>2, <1>3, <1>4, <1>5, PTL DEF Spec

----------------------------------------------------------------------------
(* No write, failure or crash of the tool leaves a file it created         *)
(* readable by others: any number of processes write the file at once.     *)
THEOREM ReportsStayPrivate == Spec => []PublicOnlyByOthers
<1>1. Init => PublicOnlyByOthers
  BY DEF Init, FileInit, PublicOnlyByOthers
<1>2. PublicOnlyByOthers /\ [Next]_vars => PublicOnlyByOthers'
  <2> SUFFICES ASSUME PublicOnlyByOthers, [Next]_vars PROVE PublicOnlyByOthers'
    OBVIOUS
  <2> USE DEF PublicOnlyByOthers
  <2>1. CASE Change \/ Edit
    BY <2>1 DEF Change, Edit, fileVars
  <2>2. CASE Widen
    BY <2>2 DEF Widen, Loosen
  <2>3. ASSUME NEW p \in Process,
               RunBaseline(p) \/ RunDiff(p) \/ ReadFront(p) \/ ReadRest(p) \/ TakeScan(p)
        PROVE  PublicOnlyByOthers'
    BY <2>3 DEF RunBaseline, RunDiff, Begin, ReadFront, ReadRest, TakeScan, fileVars
  <2>4. ASSUME NEW p \in Process, TakeInventory(p) PROVE PublicOnlyByOthers'
    BY <2>4 DEF TakeInventory, Compare, Output, OpenReport, fileVars
  <2>5. ASSUME NEW p \in Process, Write(p) PROVE PublicOnlyByOthers'
    BY <2>5 DEF Write, WriteFront, WriteRest, WriteFails
  <2>6. ASSUME NEW p \in Process, CloseReport(p) PROVE PublicOnlyByOthers'
    BY <2>6 DEF CloseReport, Chmod
  <2>7. ASSUME NEW p \in Process, Kill(p) PROVE PublicOnlyByOthers'
    BY <2>7 DEF Kill, Killed
  <2>8. CASE UNCHANGED vars
    BY <2>8 DEF vars, fileVars
  <2> QED
    BY <2>1, <2>2, <2>3, <2>4, <2>5, <2>6, <2>7, <2>8 DEF Next, Command
<1> QED
  BY <1>1, <1>2, PTL DEF Spec
=============================================================================
