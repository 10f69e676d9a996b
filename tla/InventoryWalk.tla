--------------------------- MODULE InventoryWalk ---------------------------
(***************************************************************************)
(* One run of collect_inventory over sockets that keep changing: the       *)
(* operating system lists them once, in any order, the names of their      *)
(* processes are looked up one by one, and then they are classified one    *)
(* after the other, which takes up to seven requests each.  By then a      *)
(* service may have gone, another may listen in its place, and any lookup  *)
(* or request may fail.  What is asked of one socket is a single step.     *)
(***************************************************************************)
EXTENDS Inventory

CONSTANTS
  Machines,   \* the sets of sockets to begin with
  Others,     \* sockets that may appear later
  Weaker,     \* what a service may still be heard to say when requests fail
  MaxMoves    \* bound: services that come or go during the walk

(* A pid or a name that the operating system does not tell.                *)
NoPid == 0
NoName == "?"
Named(s, name) == Socket(s.ip, s.port, s.pid, name, s.serves)

(* An address and a port are one socket's, and a pid is one process's for  *)
(* the time of the walk.                                                   *)
AtMostOne(socks) == \A s, t \in socks : <<s.ip, s.port>> = <<t.ip, t.port>> => s = t
Known == (UNION Machines) \cup Others

ASSUME WalkAssumption ==
  /\ \A s \in Known : s.ip \in Ip /\ s.port \in Nat /\ s.serves \in Hearable
  /\ NoName \notin DOMAIN Signature
  /\ Weaker \in [Hearable -> SUBSET Hearable]
  /\ \A s, t \in Known : s.pid = t.pid => s.proc = t.proc
  /\ \A m \in Machines : IsFiniteSet(m) /\ AtMostOne(m)

VARIABLES
  sockets,     \* what listens now
  present,     \* history: what listened when it was listed
  listing,     \* what was listed, in the order it was listed
  named,       \* how many names of the listing have been looked up
  incomplete,  \* the mark of an inspection that was denied something
  at,          \* the index of the next socket to classify
  seen,        \* the services that were met already
  assets,      \* the assets found, in the order they were found
  heard,       \* history: the answer each listed socket was classified by
  phase,       \* "list", "classify" (the names first) or "done"
  moves

walkVars == <<sockets, present, listing, named, incomplete, at, seen, assets, heard, phase, moves>>

WalkInit ==
  /\ sockets \in Machines
  /\ present = {} /\ listing = <<>> /\ named = 0 /\ incomplete = FALSE
  /\ at = 1 /\ seen = {} /\ assets = <<>> /\ heard = <<>>
  /\ phase = "list"
  /\ moves = 0

(* A service stops, or one starts on an address and port that is free.     *)
ServiceChanges ==
  /\ moves < MaxMoves
  /\ \/ \E s \in sockets : sockets' = sockets \ {s}
     \/ \E s \in Others \ sockets :
          /\ \A t \in sockets : <<t.ip, t.port>> # <<s.ip, s.port>>
          /\ sockets' = sockets \cup {s}
  /\ moves' = moves + 1
  /\ UNCHANGED <<present, listing, named, incomplete, at, seen, assets, heard, phase>>

Enumerate ==
  /\ phase = "list"
  /\ \E order \in SetToSeqs(sockets) :
       listing' = [i \in DOMAIN order |-> Named(order[i], NoName)]
  /\ present' = sockets
  /\ phase' = "classify"
  /\ UNCHANGED <<sockets, named, incomplete, at, seen, assets, heard, moves>>

(* Without the right to list there are no sockets.                         *)
ListingDenied ==
  /\ phase = "list"
  /\ present' = sockets
  /\ incomplete' = TRUE
  /\ phase' = "classify"
  /\ UNCHANGED <<sockets, listing, named, at, seen, assets, heard, moves>>

(* The process is asked for its name by its pid, if that is told.  It may  *)
(* have ended, or be another user's: then it has no name.                  *)
NameFound ==
  \E s \in Known :
    /\ s.pid = listing[named + 1].pid
    /\ listing' = [listing EXCEPT ![named + 1] = Named(@, s.proc)]

NameNext ==
  /\ phase = "classify" /\ named < Len(listing)
  /\ \/ listing[named + 1].pid = NoPid /\ UNCHANGED <<listing, incomplete>>
     \/ listing[named + 1].pid # NoPid /\ NameFound /\ UNCHANGED incomplete
     \/ listing[named + 1].pid # NoPid /\ incomplete' = TRUE /\ UNCHANGED listing
  /\ named' = named + 1
  /\ UNCHANGED <<sockets, present, at, seen, assets, heard, phase, moves>>

Classifying == phase = "classify" /\ named = Len(listing)

(* The other stack of a service that was met: nothing is asked.            *)
SkipKnown ==
  /\ Classifying /\ at <= Len(listing)
  /\ Service(listing[at]) \in seen
  /\ heard' = Append(heard, Silent)
  /\ at' = at + 1
  /\ UNCHANGED <<sockets, present, listing, named, incomplete, seen, assets, phase, moves>>

(* A request that times out is no evidence, and leaves the later ones.     *)
Audible(sock) ==
  IF Probe /\ Probeable(sock)
  THEN {Silent} \cup UNION {{a} \cup Weaker[a] : a \in Answer(sockets, sock.port)}
  ELSE {Silent}

(* Mutant: only services that classify are remembered as met.              *)
ClassifyNextForgets ==
  /\ Classifying /\ at <= Len(listing)
  /\ Service(listing[at]) \notin seen
  /\ \E answer \in Audible(listing[at]) :
       /\ assets' = assets \o SetToSeq(Classify(listing[at], answer))
       /\ heard' = Append(heard, answer)
  /\ at' = at + 1
  /\ UNCHANGED <<sockets, present, listing, named, incomplete, seen, phase, moves>>

ClassifyNext ==
  /\ Classifying /\ at <= Len(listing)
  /\ Service(listing[at]) \notin seen
  /\ seen' = seen \cup {Service(listing[at])}
  /\ \E answer \in Audible(listing[at]) :
       /\ assets' = assets \o SetToSeq(Classify(listing[at], answer))
       /\ heard' = Append(heard, answer)
  /\ at' = at + 1
  /\ UNCHANGED <<sockets, present, listing, named, incomplete, phase, moves>>

Assemble ==
  /\ Classifying /\ at > Len(listing)
  /\ assets' = InOrder(assets)
  /\ phase' = "done"
  /\ UNCHANGED <<sockets, present, listing, named, incomplete, at, seen, heard, moves>>

Walk == Enumerate \/ ListingDenied \/ NameNext \/ SkipKnown \/ ClassifyNext \/ Assemble

WalkNext == Walk \/ ServiceChanges

WalkSpec == WalkInit /\ [][WalkNext]_walkVars

----------------------------------------------------------------------------
Listed == {listing[i] : i \in DOMAIN listing}
Found == {assets[i] : i \in DOMAIN assets}

WalkTypeOK ==
  /\ phase \in {"list", "classify", "done"}
  /\ named \in 0 .. Len(listing) /\ incomplete \in BOOLEAN
  /\ at \in 1 .. Len(listing) + 1
  /\ Len(heard) = at - 1
  /\ seen = {Service(listing[i]) : i \in 1 .. at - 1}
  /\ Len(assets) <= Cardinality(seen)
  /\ \A a \in Found : [kind |-> a.kind, product |-> a.product] \in Product

(* A service has one asset at the most, however many addresses it is bound *)
(* to and whatever the order (collect.py:91-96).                           *)
OneAssetPerService ==
  \A i, j \in DOMAIN assets : i # j =>
    <<assets[i].port, assets[i].pid>> # <<assets[j].port, assets[j].pid>>

(* A process with a known name is in the inventory under that name, with   *)
(* high confidence, whatever answers at its port, times out, stops or      *)
(* starts during the walk: where the name was read of all its sockets on   *)
(* the port, and in an inventory without the mark, wherever it listened    *)
(* with its pid told (classify.py:13-20, sockets.py:89-112).               *)
UnderItsName(s) ==
  \E a \in Found : /\ <<a.port, a.pid>> = Service(s)
                   /\ [kind |-> a.kind, product |-> a.product] = Signature[s.proc]
                   /\ a.confidence = "high"

NamedIsListed ==
  phase = "done" =>
    /\ \A s \in Listed :
         /\ s.proc \in DOMAIN Signature
         /\ \A t \in Listed : Service(t) = Service(s) => t.proc = s.proc
         => UnderItsName(s)
    /\ ~incomplete =>
         \A s \in present : s.pid # NoPid /\ s.proc \in DOMAIN Signature => UnderItsName(s)

(* The order in which the operating system lists the sockets does not show *)
(* in the inventory, as long as every socket is a service of its own       *)
(* (collect.py:108-110).                                                   *)
HeardOf ==
  [s \in Listed |-> heard[CHOOSE i \in DOMAIN listing : listing[i] = s]]

OrderOnlyMattersForStacks ==
  phase = "done" /\ (\A s, t \in Listed : s # t => Service(s) # Service(t)) =>
    \A order \in SetToSeqs(Listed) : SocketAssets(order, HeardOf) = assets

----------------------------------------------------------------------------
(* Sentences of the code's own documentation that it does not keep.        *)

(* collect.py:109: deterministic order.  The same sockets listed in        *)
(* another order give the same assets.                                     *)
OrderDoesNotMatter ==
  phase = "done" /\ moves = 0 /\ (\A i \in DOMAIN heard : heard[i] = Silent) =>
    \A order \in SetToSeqs(Listed) : SocketAssets(order, HeardOf) = assets

(* classify.py:118-121: a probeable socket is reached through 127.0.0.1,   *)
(* so the answer is that of the process behind it.                         *)
AnswerIsOwn ==
  moves = 0 => \A i \in DOMAIN heard : heard[i] \in {Silent, listing[i].serves}

(* collect.py:94: two sockets of one port and pid are two stacks of one    *)
(* service, so nothing is missed by skipping the second.  A service that   *)
(* can be asked is asked.                                                  *)
ProbeableIsAsked ==
  Probe /\ phase = "done" =>
    \A i \in DOMAIN listing : Probeable(listing[i]) =>
      \E j \in 1 .. i :
        /\ Service(listing[j]) = Service(listing[i])
        /\ \A k \in 1 .. j - 1 : Service(listing[k]) # Service(listing[i])
        /\ Probeable(listing[j])
=============================================================================
