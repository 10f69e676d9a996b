----------------------------- MODULE ListProofs -----------------------------
(***************************************************************************)
(* Induction over numbers and lists, and what Sift does to a list.  The    *)
(* induction theorems of the library speak of predicates; these speak of   *)
(* sets, which the provers can instantiate, and follow from the least      *)
(* element of a set of numbers (WFMin).                                    *)
(***************************************************************************)
EXTENDS Lists, WellFoundedInduction, FiniteSetTheorems, FunctionTheorems, TLAPS

----------------------------------------------------------------------------
(* Induction.                                                              *)

(* A number is less than another: a relation without descending chains.    *)
LEMMA LessIsWellFounded == IsWellFoundedOn({p \in Nat \X Nat : p[1] < p[2]}, Nat)
<1>1. OpToRel(<, Nat) = {p \in Nat \X Nat : p[1] < p[2]}
  BY DEF OpToRel
<1>2. QED
  BY <1>1, NatLessThanWellFounded

(* A set of numbers has a least one.                                       *)
LEMMA LeastElement ==
  ASSUME NEW T \in SUBSET Nat, T # {}
  PROVE  \E x \in T : \A y \in T : x <= y
<1> DEFINE Less == {p \in Nat \X Nat : p[1] < p[2]}
<1>1. PICK x \in T : \A y \in T : ~ (<<y, x>> \in Less)
  <2>1. IsWellFoundedOn(Less, Nat)
    BY LessIsWellFounded
  <2> HIDE DEF Less
  <2>2. QED
    BY <2>1, WFMin
<1>2. ASSUME NEW y \in T PROVE x <= y
  <2>1. <<y, x>> \in Nat \X Nat /\ <<y, x>>[1] = y /\ <<y, x>>[2] = x
    OBVIOUS
  <2>2. ~ (y < x)
    BY <1>1, <2>1
  <2>3. QED
    BY <2>2
<1>3. QED
  BY <1>2

(* What holds of 0, and of n + 1 when it holds of n, holds of all numbers. *)
LEMMA NumberInduction ==
  ASSUME NEW S, 0 \in S, \A n \in Nat : n \in S => n + 1 \in S
  PROVE  Nat \subseteq S
<1> SUFFICES ASSUME Nat \ S # {} PROVE FALSE
  OBVIOUS
<1>1. PICK x \in Nat \ S : \A y \in Nat \ S : x <= y
  BY LeastElement
<1>2. x # 0 /\ x - 1 \in Nat
  BY <1>1
<1>3. x - 1 \in S
  BY <1>1, <1>2
<1>4. QED
  BY <1>1, <1>2, <1>3

(* A list that is not empty is a shorter one with an element appended.     *)
LEMMA LastAppended ==
  ASSUME NEW X, NEW s \in Seq(X), NEW n \in Nat, Len(s) = n + 1
  PROVE  \E t \in Seq(X), x \in X : s = Append(t, x) /\ Len(t) = n
<1> DEFINE t == [i \in 1 .. n |-> s[i]]
<1>1. t \in Seq(X) /\ Len(t) = n /\ s[n + 1] \in X
  OBVIOUS
<1>2. Append(t, s[n + 1]) \in Seq(X) /\ Len(Append(t, s[n + 1])) = n + 1
  BY <1>1
<1>3. \A i \in 1 .. n + 1 : Append(t, s[n + 1])[i] = s[i]
  BY <1>1
<1>4. Append(t, s[n + 1]) = s
  BY <1>2, <1>3
<1>5. QED
  BY <1>1, <1>4

(* What holds of the empty list, and of s with an element appended when it *)
(* holds of s, holds of all lists.                                         *)
LEMMA ListInduction ==
  ASSUME NEW X, NEW P, << >> \in P,
         \A s \in Seq(X), x \in X : s \in P => Append(s, x) \in P
  PROVE  Seq(X) \subseteq P
<1> DEFINE Good == {n \in Nat : \A s \in Seq(X) : Len(s) = n => s \in P}
<1>1. 0 \in Good
  <2>1. \A s \in Seq(X) : Len(s) = 0 => s = << >>
    OBVIOUS
  <2>2. QED
    BY <2>1
<1>2. ASSUME NEW n \in Nat, n \in Good PROVE n + 1 \in Good
  <2>1. ASSUME NEW s \in Seq(X), Len(s) = n + 1 PROVE s \in P
    <3>1. PICK t \in Seq(X), x \in X : s = Append(t, x) /\ Len(t) = n
      BY <2>1, LastAppended
    <3>2. t \in P
      BY <1>2, <3>1
    <3>3. QED
      BY <3>1, <3>2
  <2>2. QED
    BY <2>1
<1>3. Nat \subseteq Good
  <2> HIDE DEF Good
  <2>1. QED
    BY <1>1, <1>2, NumberInduction
<1>4. ASSUME NEW s \in Seq(X) PROVE s \in P
  <2>1. Len(s) \in Nat
    OBVIOUS
  <2>2. QED
    BY <1>3, <2>1
<1>5. QED
  BY <1>4

----------------------------------------------------------------------------
(* The elements of a list.                                                 *)

(* The elements of a list whose elements are made from those of another.   *)
LEMMA ValuesOf ==
  ASSUME NEW X, NEW s \in Seq(X)
  PROVE  /\ DOMAIN s = 1 .. Len(s) /\ Len(s) \in Nat
         /\ ToSet(s) = {s[i] : i \in 1 .. Len(s)}
         /\ ToSet(s) \subseteq X
<1>1. DOMAIN s = 1 .. Len(s) /\ Len(s) \in Nat
  OBVIOUS
<1>2. QED
  BY <1>1 DEF ToSet

(* The elements decide what a list is a list of.                           *)
LEMMA ListOf ==
  ASSUME NEW X, NEW s \in Seq(X), NEW Y, ToSet(s) \subseteq Y
  PROVE  s \in Seq(Y)
<1>1. DOMAIN s = 1 .. Len(s) /\ Len(s) \in Nat /\ s = [i \in 1 .. Len(s) |-> s[i]]
  OBVIOUS
<1>2. \A i \in 1 .. Len(s) : s[i] \in Y
  BY <1>1 DEF ToSet
<1>3. QED
  BY <1>1, <1>2

LEMMA NothingHas == ToSet(<< >>) = {}
<1>1. DOMAIN << >> = {}
  OBVIOUS
<1>2. QED
  BY <1>1 DEF ToSet

LEMMA AppendHas ==
  ASSUME NEW X, NEW s \in Seq(X), NEW x \in X
  PROVE  ToSet(Append(s, x)) = ToSet(s) \union {x}
<1>1. /\ DOMAIN Append(s, x) = 1 .. Len(s) + 1 /\ DOMAIN s = 1 .. Len(s)
      /\ Append(s, x)[Len(s) + 1] = x /\ Len(s) \in Nat
      /\ \A i \in 1 .. Len(s) : Append(s, x)[i] = s[i]
  OBVIOUS
<1>2. 1 .. Len(s) + 1 = (1 .. Len(s)) \union {Len(s) + 1}
  BY <1>1
<1>3. QED
  BY <1>1, <1>2 DEF ToSet

LEMMA TailHas ==
  ASSUME NEW X, NEW s \in Seq(X), s # << >>
  PROVE  /\ Tail(s) \in Seq(X) /\ Head(s) \in X /\ Len(s) \in Nat /\ Len(s) >= 1
         /\ Len(Tail(s)) = Len(s) - 1 /\ Head(s) = s[1]
         /\ \A i \in 1 .. Len(Tail(s)) : Tail(s)[i] = s[i + 1]
         /\ ToSet(s) = ToSet(Tail(s)) \union {Head(s)}
<1>1. /\ Tail(s) \in Seq(X) /\ Head(s) \in X /\ Len(s) \in Nat /\ Len(s) >= 1
      /\ Len(Tail(s)) = Len(s) - 1 /\ Head(s) = s[1]
      /\ \A i \in 1 .. Len(Tail(s)) : Tail(s)[i] = s[i + 1]
      /\ DOMAIN s = 1 .. Len(s) /\ DOMAIN Tail(s) = 1 .. Len(s) - 1
  OBVIOUS
<1>2. \A i \in 1 .. Len(s) : i = 1 \/ (i - 1 \in 1 .. Len(s) - 1 /\ s[i] = Tail(s)[i - 1])
  BY <1>1
<1>3. ToSet(s) \subseteq ToSet(Tail(s)) \union {Head(s)}
  <2>1. ASSUME NEW i \in 1 .. Len(s) PROVE s[i] \in ToSet(Tail(s)) \union {Head(s)}
    <3>1. CASE i = 1
      BY <1>1, <3>1
    <3>2. CASE i - 1 \in 1 .. Len(s) - 1 /\ s[i] = Tail(s)[i - 1]
      BY <1>1, <3>2 DEF ToSet
    <3>3. QED
      BY <1>2, <3>1, <3>2
  <2>2. QED
    BY <1>1, <2>1 DEF ToSet
<1>4. \A i \in 1 .. Len(s) - 1 : Tail(s)[i] = s[i + 1] /\ i + 1 \in 1 .. Len(s)
  BY <1>1
<1>5. ToSet(Tail(s)) \union {Head(s)} \subseteq ToSet(s)
  <2>1. Head(s) \in ToSet(s)
    BY <1>1 DEF ToSet
  <2>2. ToSet(Tail(s)) \subseteq ToSet(s)
    BY <1>1, <1>4 DEF ToSet
  <2>3. QED
    BY <2>1, <2>2
<1>6. QED
  BY <1>1, <1>3, <1>5

(* What one list after another has.                                        *)
LEMMA ConcatHas ==
  ASSUME NEW X, NEW s \in Seq(X), NEW t \in Seq(X)
  PROVE  /\ s \o t \in Seq(X) /\ Len(s) \in Nat /\ Len(t) \in Nat
         /\ Len(s \o t) = Len(s) + Len(t)
         /\ \A i \in 1 .. Len(s) : (s \o t)[i] = s[i]
         /\ \A i \in 1 .. Len(t) : (s \o t)[Len(s) + i] = t[i]
         /\ ToSet(s \o t) = ToSet(s) \union ToSet(t)
<1>1. /\ s \o t \in Seq(X) /\ Len(s) \in Nat /\ Len(t) \in Nat
      /\ Len(s \o t) = Len(s) + Len(t)
      /\ \A i \in 1 .. Len(s) : (s \o t)[i] = s[i]
      /\ DOMAIN s = 1 .. Len(s) /\ DOMAIN t = 1 .. Len(t)
      /\ DOMAIN (s \o t) = 1 .. Len(s) + Len(t)
  OBVIOUS
<1>2. \A i \in 1 .. Len(t) : (s \o t)[Len(s) + i] = t[i]
  OBVIOUS
<1> DEFINE q == s \o t
<1>3. /\ \A i \in 1 .. Len(s) : q[i] = s[i] /\ i \in 1 .. Len(s) + Len(t)
      /\ \A i \in 1 .. Len(t) : q[Len(s) + i] = t[i] /\ Len(s) + i \in 1 .. Len(s) + Len(t)
  BY <1>1, <1>2
<1>4. \A i \in 1 .. Len(s) + Len(t) :
        \/ i \in 1 .. Len(s)
        \/ i - Len(s) \in 1 .. Len(t) /\ i = Len(s) + (i - Len(s))
  BY <1>1
<1>5. DOMAIN q = 1 .. Len(s) + Len(t)
  BY <1>1
<1> HIDE DEF q
<1>6. ToSet(s) \subseteq ToSet(q)
  BY <1>1, <1>3, <1>5 DEF ToSet
<1>7. ToSet(t) \subseteq ToSet(q)
  BY <1>1, <1>3, <1>5 DEF ToSet
<1>8. ToSet(q) \subseteq ToSet(s) \union ToSet(t)
  <2>1. ASSUME NEW i \in 1 .. Len(s) + Len(t) PROVE q[i] \in ToSet(s) \union ToSet(t)
    <3>1. CASE i \in 1 .. Len(s)
      BY <1>1, <1>3, <3>1 DEF ToSet
    <3>2. CASE i - Len(s) \in 1 .. Len(t) /\ i = Len(s) + (i - Len(s))
      <4> DEFINE k == i - Len(s)
      <4>1. k \in 1 .. Len(t) /\ i = Len(s) + k
        BY <3>2
      <4> HIDE DEF k
      <4>2. q[i] = t[k]
        BY <1>3, <4>1
      <4>3. QED
        BY <1>1, <4>1, <4>2 DEF ToSet
    <3>3. QED
      BY <1>4, <3>1, <3>2
  <2>2. QED
    BY <1>5, <2>1 DEF ToSet
<1>9. QED
  BY <1>1, <1>2, <1>6, <1>7, <1>8 DEF q

LEMMA EmptyList ==
  ASSUME NEW X, NEW s \in Seq(X), ToSet(s) = {}
  PROVE  s = << >>
<1>1. Len(s) \in Nat /\ DOMAIN s = 1 .. Len(s)
  OBVIOUS
<1>2. ASSUME Len(s) # 0 PROVE FALSE
  <2>1. 1 \in DOMAIN s
    BY <1>1, <1>2
  <2>2. s[1] \in ToSet(s)
    BY <2>1 DEF ToSet
  <2>3. QED
    BY <2>2
<1>3. QED
  BY <1>1, <1>2

----------------------------------------------------------------------------
(* Sifting.                                                                *)

(* The loop over the first n elements, as a function of n.                 *)
Step(s, T, acc, n) == IF s[n] \in T THEN Append(acc, s[n]) ELSE acc

IsLoop(s, T, f) ==
  f = [n \in 0 .. Len(s) |-> IF n = 0 THEN << >> ELSE Step(s, T, f[n - 1], n)]

(* There is such a function for every list ...                             *)
LEMMA LoopExists ==
  ASSUME NEW X, NEW T, NEW s \in Seq(X)
  PROVE  \E f : IsLoop(s, T, f)
<1> DEFINE P == {r \in Seq(X) : \E f : IsLoop(r, T, f)}
<1>1. << >> \in P
  <2>1. Len(<< >>) = 0 /\ << >> \in Seq(X)
    OBVIOUS
  <2>2. IsLoop(<< >>, T, [n \in 0 .. 0 |-> << >>])
    BY <2>1 DEF IsLoop
  <2>3. QED
    BY <2>1, <2>2
<1>2. ASSUME NEW r \in Seq(X), NEW x \in X, r \in P PROVE Append(r, x) \in P
  <2>1. PICK f : IsLoop(r, T, f)
    BY <1>2
  <2> DEFINE q == Append(r, x)
             g == [n \in 0 .. Len(r) + 1 |->
                     IF n <= Len(r) THEN f[n] ELSE Step(q, T, f[Len(r)], Len(r) + 1)]
  <2>2. /\ q \in Seq(X) /\ Len(q) = Len(r) + 1 /\ Len(r) \in Nat
        /\ \A n \in 1 .. Len(r) : q[n] = r[n]
    OBVIOUS
  <2>3. f[0] = << >> /\ \A n \in 1 .. Len(r) : f[n] = Step(r, T, f[n - 1], n)
    BY <2>1, <2>2 DEF IsLoop
  <2>4. \A n \in 1 .. Len(r) : f[n] = Step(q, T, f[n - 1], n)
    BY <2>2, <2>3 DEF Step
  <2>5. \A n \in 0 .. Len(q) :
          g[n] = IF n = 0 THEN << >> ELSE Step(q, T, g[n - 1], n)
    <3> HIDE DEF q
    <3>1. ASSUME NEW n \in 0 .. Len(q)
          PROVE  g[n] = IF n = 0 THEN << >> ELSE Step(q, T, g[n - 1], n)
      <4>1. CASE n = 0
        BY <2>2, <2>3, <4>1
      <4>2. CASE n \in 1 .. Len(r)
        BY <2>2, <2>4, <4>2
      <4>3. CASE n = Len(r) + 1
        BY <2>2, <4>3
      <4>4. QED
        BY <2>2, <4>1, <4>2, <4>3
    <3>2. QED
      BY <3>1
  <2>6. IsLoop(q, T, g)
    <3>1. g = [n \in 0 .. Len(q) |-> g[n]]
      BY <2>2
    <3> HIDE DEF g, q
    <3>2. QED
      BY <2>5, <3>1 DEF IsLoop
  <2>7. QED
    BY <2>2, <2>6
<1>3. Seq(X) \subseteq P
  <2> HIDE DEF P
  <2>1. QED
    BY <1>1, <1>2, ListInduction
<1>4. QED
  BY <1>3

(* ... and Sift is its last value.                                         *)
LEMMA SiftIsLoop ==
  ASSUME NEW X, NEW T, NEW s \in Seq(X)
  PROVE  \E f : IsLoop(s, T, f) /\ Sift(s, T) = f[Len(s)]
<1> DEFINE f == CHOOSE f : IsLoop(s, T, f)
<1>1. IsLoop(s, T, f)
  BY LoopExists
<1>2. Sift(s, T) = f[Len(s)]
  BY DEF Sift, IsLoop, Step
<1>3. QED
  BY <1>1, <1>2

(* What a loop has after each element.                                     *)
LEMMA LoopValues ==
  ASSUME NEW X, NEW T, NEW s \in Seq(X), NEW f, IsLoop(s, T, f)
  PROVE  /\ f[0] = << >>
         /\ \A n \in 1 .. Len(s) : f[n] = Step(s, T, f[n - 1], n)
<1>1. Len(s) \in Nat
  OBVIOUS
<1>2. \A n \in 0 .. Len(s) : f[n] = IF n = 0 THEN << >> ELSE Step(s, T, f[n - 1], n)
  BY DEF IsLoop
<1>3. QED
  BY <1>1, <1>2

(* Two loops agree as long as their lists do.                              *)
LEMMA LoopsAgree ==
  ASSUME NEW X, NEW T, NEW s \in Seq(X), NEW q \in Seq(X),
         Len(s) <= Len(q), \A k \in 1 .. Len(s) : q[k] = s[k],
         NEW f, IsLoop(s, T, f), NEW g, IsLoop(q, T, g)
  PROVE  f[Len(s)] = g[Len(s)]
<1> DEFINE P == {k \in Nat : k <= Len(s) => f[k] = g[k]}
<1>1. Len(s) \in Nat /\ Len(q) \in Nat
  OBVIOUS
<1>2. f[0] = << >> /\ \A k \in 1 .. Len(s) : f[k] = Step(s, T, f[k - 1], k)
  BY LoopValues
<1>3. g[0] = << >> /\ \A k \in 1 .. Len(q) : g[k] = Step(q, T, g[k - 1], k)
  BY LoopValues
<1>4. 0 \in P
  BY <1>2, <1>3
<1>5. ASSUME NEW k \in Nat, k \in P PROVE k + 1 \in P
  <2>1. CASE k + 1 <= Len(s)
    <3>1. f[k + 1] = Step(s, T, f[k], k + 1) /\ g[k + 1] = Step(q, T, g[k], k + 1)
      BY <1>1, <1>2, <1>3, <2>1
    <3>2. f[k] = g[k] /\ q[k + 1] = s[k + 1]
      BY <1>1, <1>5, <2>1
    <3>3. QED
      BY <3>1, <3>2 DEF Step
  <2>2. QED
    BY <2>1
<1>6. Nat \subseteq P
  <2> HIDE DEF P
  <2>1. QED
    BY <1>4, <1>5, NumberInduction
<1>7. QED
  BY <1>1, <1>6

(* Sifting the empty list, and a list with an element appended.            *)
LEMMA SiftEmpty == ASSUME NEW T PROVE Sift(<< >>, T) = << >>
<1>1. << >> \in Seq(Nat) /\ Len(<< >>) = 0
  OBVIOUS
<1>2. PICK f : IsLoop(<< >>, T, f) /\ Sift(<< >>, T) = f[Len(<< >>)]
  BY <1>1, SiftIsLoop
<1>3. QED
  BY <1>1, <1>2 DEF IsLoop

LEMMA SiftAppend ==
  ASSUME NEW X, NEW T, NEW s \in Seq(X), NEW x \in X
  PROVE  Sift(Append(s, x), T) = IF x \in T THEN Append(Sift(s, T), x) ELSE Sift(s, T)
<1> DEFINE q == Append(s, x)
<1>1. /\ q \in Seq(X) /\ Len(q) = Len(s) + 1 /\ Len(s) \in Nat /\ q[Len(s) + 1] = x
  OBVIOUS
<1>2. PICK f : IsLoop(s, T, f) /\ Sift(s, T) = f[Len(s)]
  BY SiftIsLoop
<1>3. PICK g : IsLoop(q, T, g) /\ Sift(q, T) = g[Len(q)]
  <2> HIDE DEF q
  <2>1. QED
    BY <1>1, SiftIsLoop
<1>4. f[Len(s)] = g[Len(s)]
  <2>1. \A k \in 1 .. Len(s) : q[k] = s[k]
    OBVIOUS
  <2> HIDE DEF q
  <2>2. QED
    BY <1>1, <1>2, <1>3, <2>1, LoopsAgree
<1>5. g[Len(s) + 1] = Step(q, T, g[Len(s)], Len(s) + 1)
  <2> HIDE DEF q
  <2>1. QED
    BY <1>1, <1>3 DEF IsLoop
<1>6. QED
  <2> HIDE DEF q
  <2>1. Sift(q, T) = IF x \in T THEN Append(Sift(s, T), x) ELSE Sift(s, T)
    BY <1>1, <1>2, <1>3, <1>4, <1>5 DEF Step
  <2>2. QED
    BY <2>1 DEF q

(* What is left is what was there and passes the test.                     *)
LEMMA SiftElements ==
  ASSUME NEW X, NEW T, NEW s \in Seq(X)
  PROVE  /\ Sift(s, T) \in Seq(X)
         /\ Len(Sift(s, T)) <= Len(s)
         /\ ToSet(Sift(s, T)) = ToSet(s) \cap T
<1> DEFINE P == {r \in Seq(X) : /\ Sift(r, T) \in Seq(X)
                               /\ Len(Sift(r, T)) <= Len(r)
                               /\ ToSet(Sift(r, T)) = ToSet(r) \cap T}
<1>1. << >> \in P
  <2>1. << >> \in Seq(X) /\ Len(<< >>) = 0 /\ DOMAIN << >> = {}
    OBVIOUS
  <2>2. ToSet(<< >>) = {}
    BY <2>1 DEF ToSet
  <2>3. Sift(<< >>, T) = << >>
    BY SiftEmpty
  <2>4. /\ Sift(<< >>, T) \in Seq(X)
        /\ Len(Sift(<< >>, T)) <= Len(<< >>)
        /\ ToSet(Sift(<< >>, T)) = ToSet(<< >>) \cap T
    <3>1. Sift(<< >>, T) \in Seq(X)
      BY <2>1, <2>3
    <3>2. Len(Sift(<< >>, T)) <= Len(<< >>)
      BY <2>1, <2>3
    <3>3. ToSet(Sift(<< >>, T)) = {}
      BY <2>2, <2>3
    <3>4. ToSet(<< >>) \cap T = {}
      BY <2>2
    <3>5. QED
      BY <3>1, <3>2, <3>3, <3>4
  <2>5. QED
    BY <2>1, <2>4
<1>2. ASSUME NEW r \in Seq(X), NEW x \in X, r \in P PROVE Append(r, x) \in P
  <2>1. \A w \in Seq(X) : /\ Append(w, x) \in Seq(X)
                          /\ Len(Append(w, x)) = Len(w) + 1
                          /\ ToSet(Append(w, x)) = ToSet(w) \union {x}
    <3>1. ASSUME NEW w \in Seq(X)
          PROVE  ToSet(Append(w, x)) = ToSet(w) \union {x}
      <4>1. /\ DOMAIN Append(w, x) = 1 .. Len(w) + 1 /\ DOMAIN w = 1 .. Len(w)
            /\ Append(w, x)[Len(w) + 1] = x /\ Len(w) \in Nat
            /\ \A i \in 1 .. Len(w) : Append(w, x)[i] = w[i]
        OBVIOUS
      <4>2. 1 .. Len(w) + 1 = (1 .. Len(w)) \union {Len(w) + 1}
        BY <4>1
      <4>3. QED
        BY <4>1, <4>2 DEF ToSet
    <3>2. QED
      BY <3>1
  <2>2. /\ Sift(r, T) \in Seq(X) /\ Len(Sift(r, T)) <= Len(r)
        /\ ToSet(Sift(r, T)) = ToSet(r) \cap T
    BY <1>2
  <2>3. Sift(Append(r, x), T) = IF x \in T THEN Append(Sift(r, T), x) ELSE Sift(r, T)
    BY SiftAppend
  <2>4. CASE x \in T
    <3>1. Sift(Append(r, x), T) = Append(Sift(r, T), x)
      BY <2>3, <2>4
    <3>2. /\ Append(Sift(r, T), x) \in Seq(X)
          /\ Len(Append(Sift(r, T), x)) = Len(Sift(r, T)) + 1
          /\ ToSet(Append(Sift(r, T), x)) = ToSet(Sift(r, T)) \union {x}
          /\ Append(r, x) \in Seq(X) /\ Len(Append(r, x)) = Len(r) + 1
          /\ ToSet(Append(r, x)) = ToSet(r) \union {x}
      BY <2>1, <2>2
    <3>3. ToSet(Append(Sift(r, T), x)) = ToSet(Append(r, x)) \cap T
      BY <2>2, <2>4, <3>2
    <3>4. Len(Append(Sift(r, T), x)) <= Len(Append(r, x))
      BY <2>2, <3>2
    <3>5. QED
      BY <3>1, <3>2, <3>3, <3>4
  <2>5. CASE x \notin T
    <3>1. Sift(Append(r, x), T) = Sift(r, T)
      BY <2>3, <2>5
    <3>2. /\ Append(r, x) \in Seq(X) /\ Len(Append(r, x)) = Len(r) + 1
          /\ ToSet(Append(r, x)) = ToSet(r) \union {x}
      BY <2>1
    <3>3. ToSet(Sift(r, T)) = ToSet(Append(r, x)) \cap T
      BY <2>2, <2>5, <3>2
    <3>4. Len(Sift(r, T)) <= Len(Append(r, x))
      BY <2>2, <3>2
    <3>5. QED
      BY <2>2, <3>1, <3>2, <3>3, <3>4
  <2>6. QED
    BY <2>4, <2>5
<1>3. Seq(X) \subseteq P
  <2> HIDE DEF P
  <2>1. QED
    BY <1>1, <1>2, ListInduction
<1>4. QED
  BY <1>3

(* Sifting twice is sifting once, for what passes both tests.              *)
LEMMA SiftTwice ==
  ASSUME NEW X, NEW T, NEW U, NEW s \in Seq(X)
  PROVE  Sift(Sift(s, T), U) = Sift(s, T \cap U)
<1> DEFINE P == {r \in Seq(X) : Sift(Sift(r, T), U) = Sift(r, T \cap U)}
<1>1. << >> \in P
  BY SiftEmpty
<1>2. ASSUME NEW r \in Seq(X), NEW x \in X, r \in P PROVE Append(r, x) \in P
  <2>1. Sift(r, T) \in Seq(X) /\ Append(r, x) \in Seq(X)
    BY SiftElements
  <2>2. /\ Sift(Append(r, x), T) = IF x \in T THEN Append(Sift(r, T), x) ELSE Sift(r, T)
        /\ Sift(Append(r, x), T \cap U)
             = IF x \in T \cap U THEN Append(Sift(r, T \cap U), x) ELSE Sift(r, T \cap U)
        /\ Sift(Append(Sift(r, T), x), U)
             = IF x \in U THEN Append(Sift(Sift(r, T), U), x) ELSE Sift(Sift(r, T), U)
    BY <2>1, SiftAppend
  <2>3. Sift(Sift(r, T), U) = Sift(r, T \cap U)
    BY <1>2
  <2>4. Sift(Sift(Append(r, x), T), U) = Sift(Append(r, x), T \cap U)
    <3>1. CASE x \in T
      <4>1. Sift(Append(r, x), T) = Append(Sift(r, T), x)
        BY <2>2, <3>1
      <4>2. x \in T \cap U <=> x \in U
        BY <3>1
      <4>3. QED
        BY <2>2, <2>3, <4>1, <4>2
    <3>2. CASE x \notin T
      <4>1. Sift(Append(r, x), T) = Sift(r, T) /\ x \notin T \cap U
        BY <2>2, <3>2
      <4>2. QED
        BY <2>2, <2>3, <4>1
    <3>3. QED
      BY <3>1, <3>2
  <2>5. QED
    BY <2>1, <2>4
<1>3. Seq(X) \subseteq P
  <2> HIDE DEF P
  <2>1. QED
    BY <1>1, <1>2, ListInduction
<1>4. QED
  BY <1>3

(* Two tests that agree on the elements of a list leave the same.          *)
LEMMA SiftSame ==
  ASSUME NEW X, NEW T, NEW U, NEW s \in Seq(X), ToSet(s) \cap T = ToSet(s) \cap U
  PROVE  Sift(s, T) = Sift(s, U)
<1> DEFINE P == {r \in Seq(X) : ToSet(r) \cap T = ToSet(r) \cap U => Sift(r, T) = Sift(r, U)}
<1>1. << >> \in P
  BY SiftEmpty
<1>2. ASSUME NEW r \in Seq(X), NEW x \in X, r \in P PROVE Append(r, x) \in P
  <2>1. /\ DOMAIN Append(r, x) = 1 .. Len(r) + 1 /\ DOMAIN r = 1 .. Len(r)
        /\ Append(r, x)[Len(r) + 1] = x /\ Len(r) \in Nat
        /\ \A i \in 1 .. Len(r) : Append(r, x)[i] = r[i]
    OBVIOUS
  <2>2. x \in ToSet(Append(r, x)) /\ ToSet(r) \subseteq ToSet(Append(r, x))
    BY <2>1 DEF ToSet
  <2>3. ASSUME ToSet(Append(r, x)) \cap T = ToSet(Append(r, x)) \cap U
        PROVE  Sift(Append(r, x), T) = Sift(Append(r, x), U)
    <3>1. Sift(r, T) = Sift(r, U)
      BY <1>2, <2>2, <2>3
    <3>2. x \in T <=> x \in U
      BY <2>2, <2>3
    <3>3. /\ Sift(Append(r, x), T) = IF x \in T THEN Append(Sift(r, T), x) ELSE Sift(r, T)
          /\ Sift(Append(r, x), U) = IF x \in U THEN Append(Sift(r, U), x) ELSE Sift(r, U)
      BY SiftAppend
    <3>4. QED
      BY <3>1, <3>2, <3>3
  <2>4. QED
    BY <2>3
<1>3. Seq(X) \subseteq P
  <2> HIDE DEF P
  <2>1. QED
    BY <1>1, <1>2, ListInduction
<1>4. QED
  BY <1>3

(* A test that every element passes leaves the list as it is.              *)
LEMMA SiftKeepsAll ==
  ASSUME NEW X, NEW T, NEW s \in Seq(X), ToSet(s) \subseteq T
  PROVE  Sift(s, T) = s
<1> DEFINE P == {r \in Seq(X) : ToSet(r) \subseteq T => Sift(r, T) = r}
<1>1. << >> \in P
  BY SiftEmpty
<1>2. ASSUME NEW r \in Seq(X), NEW x \in X, r \in P PROVE Append(r, x) \in P
  <2>1. /\ DOMAIN Append(r, x) = 1 .. Len(r) + 1 /\ DOMAIN r = 1 .. Len(r)
        /\ Append(r, x)[Len(r) + 1] = x /\ Len(r) \in Nat
        /\ \A i \in 1 .. Len(r) : Append(r, x)[i] = r[i]
    OBVIOUS
  <2>2. x \in ToSet(Append(r, x)) /\ ToSet(r) \subseteq ToSet(Append(r, x))
    BY <2>1 DEF ToSet
  <2>3. ASSUME ToSet(Append(r, x)) \subseteq T
        PROVE  Sift(Append(r, x), T) = Append(r, x)
    <3>1. Sift(r, T) = r
      BY <1>2, <2>2, <2>3
    <3>2. x \in T
      BY <2>2, <2>3
    <3>3. Sift(Append(r, x), T) = IF x \in T THEN Append(Sift(r, T), x) ELSE Sift(r, T)
      BY SiftAppend
    <3>4. QED
      BY <3>1, <3>2, <3>3
  <2>4. QED
    BY <2>3
<1>3. Seq(X) \subseteq P
  <2> HIDE DEF P
  <2>1. QED
    BY <1>1, <1>2, ListInduction
<1>4. QED
  BY <1>3

(* Sifting one list after another.                                         *)
LEMMA SiftConcat ==
  ASSUME NEW X, NEW T, NEW s \in Seq(X), NEW t \in Seq(X)
  PROVE  Sift(s \o t, T) = Sift(s, T) \o Sift(t, T)
<1> DEFINE P == {r \in Seq(X) : Sift(s \o r, T) = Sift(s, T) \o Sift(r, T)}
<1>1. << >> \in P
  <2>1. s \o << >> = s /\ Sift(s, T) \in Seq(X)
    BY SiftElements
  <2>2. Sift(s, T) \o << >> = Sift(s, T)
    BY <2>1
  <2>3. QED
    BY <2>1, <2>2, SiftEmpty
<1>2. ASSUME NEW r \in Seq(X), NEW x \in X, r \in P PROVE Append(r, x) \in P
  <2> DEFINE q == s \o r
             u == Sift(s, T)
             v == Sift(r, T)
  <2>1. q \in Seq(X) /\ u \in Seq(X) /\ v \in Seq(X) /\ Append(r, x) \in Seq(X)
    BY SiftElements
  <2>2. s \o Append(r, x) = Append(q, x)
    OBVIOUS
  <2>3. Sift(q, T) = u \o v
    BY <1>2
  <2>4. Sift(Append(r, x), T) = IF x \in T THEN Append(v, x) ELSE v
    BY SiftAppend
  <2> HIDE DEF q, u, v
  <2>5. Sift(Append(q, x), T) = IF x \in T THEN Append(Sift(q, T), x) ELSE Sift(q, T)
    BY <2>1, SiftAppend
  <2>6. u \o Append(v, x) = Append(u \o v, x)
    BY <2>1
  <2>7. Sift(Append(q, x), T) = u \o Sift(Append(r, x), T)
    <3>1. CASE x \in T
      BY <2>3, <2>4, <2>5, <2>6, <3>1
    <3>2. CASE x \notin T
      BY <2>3, <2>4, <2>5, <3>2
    <3>3. QED
      BY <3>1, <3>2
  <2>8. QED
    BY <2>1, <2>2, <2>7 DEF u
<1>3. Seq(X) \subseteq P
  <2> HIDE DEF P
  <2>1. QED
    BY <1>1, <1>2, ListInduction
<1>4. QED
  BY <1>3

(* A list without repetition, and one more element.                        *)
LEMMA AppendedFacts ==
  ASSUME NEW X, NEW s \in Seq(X), NEW x \in X
  PROVE  /\ DOMAIN Append(s, x) = 1 .. Len(s) + 1 /\ DOMAIN s = 1 .. Len(s)
         /\ Append(s, x)[Len(s) + 1] = x /\ Len(s) \in Nat
         /\ \A i \in 1 .. Len(s) : /\ Append(s, x)[i] = s[i]
                                   /\ i \in 1 .. Len(s) + 1 /\ i # Len(s) + 1
         /\ Len(s) + 1 \in 1 .. Len(s) + 1
         /\ \A i \in 1 .. Len(s) + 1 : i \in 1 .. Len(s) \/ i = Len(s) + 1
OBVIOUS

LEMMA InjectiveBefore ==
  ASSUME NEW X, NEW s \in Seq(X), NEW x \in X, NEW q, q = Append(s, x), IsInjective(q)
  PROVE  IsInjective(s) /\ x \notin ToSet(s)
<1>1. /\ DOMAIN q = 1 .. Len(s) + 1 /\ DOMAIN s = 1 .. Len(s) /\ q[Len(s) + 1] = x
      /\ \A i \in 1 .. Len(s) : q[i] = s[i] /\ i \in 1 .. Len(s) + 1 /\ i # Len(s) + 1
      /\ Len(s) + 1 \in 1 .. Len(s) + 1
  BY AppendedFacts
<1>2. IsInjective(s)
  BY <1>1 DEF IsInjective
<1>3. ASSUME NEW i \in 1 .. Len(s) PROVE s[i] # x
  BY <1>1 DEF IsInjective
<1>4. QED
  BY <1>1, <1>2, <1>3 DEF ToSet

LEMMA InjectiveAfter ==
  ASSUME NEW X, NEW s \in Seq(X), NEW x \in X, NEW q, q = Append(s, x),
         IsInjective(s), x \notin ToSet(s)
  PROVE  IsInjective(q)
<1>1. /\ DOMAIN q = 1 .. Len(s) + 1 /\ DOMAIN s = 1 .. Len(s) /\ q[Len(s) + 1] = x
      /\ \A i \in 1 .. Len(s) : q[i] = s[i]
      /\ \A i \in 1 .. Len(s) + 1 : i \in 1 .. Len(s) \/ i = Len(s) + 1
  BY AppendedFacts
<1>2. \A i \in 1 .. Len(s) : s[i] # x
  BY <1>1 DEF ToSet
<1>3. ASSUME NEW a \in 1 .. Len(s) + 1, NEW b \in 1 .. Len(s) + 1, q[a] = q[b]
      PROVE  a = b
  <2>1. CASE a \in 1 .. Len(s) /\ b \in 1 .. Len(s)
    <3>1. s[a] = s[b]
      BY <1>1, <1>3, <2>1
    <3>2. QED
      BY <1>1, <2>1, <3>1 DEF IsInjective
  <2>2. CASE a \in 1 .. Len(s) /\ b = Len(s) + 1
    <3>1. q[b] = x /\ q[a] = s[a]
      BY <1>1, <2>2
    <3>2. QED
      BY <1>2, <1>3, <2>2, <3>1
  <2>3. CASE a = Len(s) + 1 /\ b \in 1 .. Len(s)
    <3>1. q[a] = x /\ q[b] = s[b]
      BY <1>1, <2>3
    <3>2. QED
      BY <1>2, <1>3, <2>3, <3>1
  <2>4. QED
    BY <1>1, <2>1, <2>2, <2>3
<1>4. QED
  BY <1>1, <1>3 DEF IsInjective

LEMMA ConcatInjective ==
  ASSUME NEW X, NEW s \in Seq(X), NEW t \in Seq(X), NEW q, q = s \o t,
         IsInjective(s), IsInjective(t), ToSet(s) \cap ToSet(t) = {}
  PROVE  IsInjective(q)
<1>1. /\ Len(s) \in Nat /\ Len(t) \in Nat
      /\ \A i \in 1 .. Len(s) : q[i] = s[i]
      /\ \A i \in 1 .. Len(t) : q[Len(s) + i] = t[i]
      /\ q \in Seq(X) /\ Len(q) = Len(s) + Len(t)
  BY ConcatHas
<1>2. /\ DOMAIN s = 1 .. Len(s) /\ DOMAIN t = 1 .. Len(t) /\ DOMAIN q = 1 .. Len(s) + Len(t)
  BY <1>1
<1>3. ASSUME NEW a \in 1 .. Len(s) + Len(t)
      PROVE  \/ a \in 1 .. Len(s) /\ q[a] = s[a] /\ q[a] \in ToSet(s)
             \/ \E k \in 1 .. Len(t) : a = Len(s) + k /\ q[a] = t[k] /\ q[a] \in ToSet(t)
  <2>1. CASE a \in 1 .. Len(s)
    BY <1>1, <1>2, <2>1 DEF ToSet
  <2>2. CASE a \notin 1 .. Len(s)
    <3>1. PICK k \in 1 .. Len(t) : a = Len(s) + k
      <4>1. a - Len(s) \in 1 .. Len(t) /\ a = Len(s) + (a - Len(s))
        BY <1>1, <2>2
      <4>2. QED
        BY <4>1
    <3>2. q[a] = t[k]
      BY <1>1, <3>1
    <3>3. QED
      BY <1>2, <3>1, <3>2 DEF ToSet
  <2>3. QED
    BY <2>1, <2>2
<1>4. ASSUME NEW a \in 1 .. Len(s) + Len(t), NEW b \in 1 .. Len(s) + Len(t), q[a] = q[b]
      PROVE  a = b
  <2>1. CASE a \in 1 .. Len(s) /\ q[a] = s[a] /\ b \in 1 .. Len(s) /\ q[b] = s[b]
    <3>1. s[a] = s[b]
      BY <1>4, <2>1
    <3>2. QED
      BY <1>2, <2>1, <3>1 DEF IsInjective
  <2>2. ASSUME NEW k \in 1 .. Len(t), a = Len(s) + k, q[a] = t[k],
               NEW l \in 1 .. Len(t), b = Len(s) + l, q[b] = t[l]
        PROVE  a = b
    <3>1. t[k] = t[l]
      BY <1>4, <2>2
    <3>2. k = l
      BY <1>2, <3>1 DEF IsInjective
    <3>3. QED
      BY <2>2, <3>2
  <2>3. ~ (q[a] \in ToSet(s) /\ q[b] \in ToSet(t))
    BY <1>4
  <2>4. ~ (q[a] \in ToSet(t) /\ q[b] \in ToSet(s))
    BY <1>4
  <2>5. QED
    BY <1>3, <2>1, <2>2, <2>3, <2>4
<1>5. QED
  BY <1>2, <1>4 DEF IsInjective

(* Sifting brings no repetition about.                                     *)
LEMMA SiftInjective ==
  ASSUME NEW X, NEW T, NEW s \in Seq(X), IsInjective(s)
  PROVE  IsInjective(Sift(s, T))
<1> DEFINE P == {r \in Seq(X) : IsInjective(r) => IsInjective(Sift(r, T))}
<1>1. << >> \in P
  BY SiftEmpty
<1>2. ASSUME NEW r \in Seq(X), NEW x \in X, r \in P PROVE Append(r, x) \in P
  <2>1. PICK q : q \in Seq(X) /\ q = Append(r, x)
    <3>1. Append(r, x) \in Seq(X)
      OBVIOUS
    <3>2. QED
      BY <3>1
  <2>2. ASSUME IsInjective(q) PROVE IsInjective(Sift(q, T))
    <3>1. IsInjective(r) /\ x \notin ToSet(r)
      BY <2>1, <2>2, InjectiveBefore
    <3>2. PICK t : t \in Seq(X) /\ t = Sift(r, T) /\ ToSet(t) = ToSet(r) \cap T
      BY SiftElements
    <3>3. IsInjective(t) /\ x \notin ToSet(t)
      BY <1>2, <3>1, <3>2
    <3>4. PICK u : u \in Seq(X) /\ u = Append(t, x)
      <4>1. Append(t, x) \in Seq(X)
        BY <3>2
      <4>2. QED
        BY <4>1
    <3>5. IsInjective(u)
      BY <3>2, <3>3, <3>4, InjectiveAfter
    <3>6. Sift(q, T) \in {u, t}
      BY <2>1, <3>2, <3>4, SiftAppend
    <3>7. QED
      BY <3>3, <3>5, <3>6
  <2>3. q \in P
    BY <2>1, <2>2
  <2>4. QED
    BY <2>1, <2>3
<1>3. Seq(X) \subseteq P
  <2> HIDE DEF P
  <2>1. QED
    BY <1>1, <1>2, ListInduction
<1>4. QED
  BY <1>3

----------------------------------------------------------------------------
(* Lists of lists.                                                         *)

IsChain(lists, f) ==
  f = [i \in 1 .. Len(lists) |-> IF i = 1 THEN lists[i] ELSE f[i - 1] \o lists[i]]

(* The lists can be put one after the other ...                            *)
LEMMA ChainExists ==
  ASSUME NEW X, NEW lists \in Seq(Seq(X))
  PROVE  \E f : IsChain(lists, f)
<1> DEFINE P == {r \in Seq(Seq(X)) : \E f : IsChain(r, f)}
<1>1. << >> \in P
  <2>1. Len(<< >>) = 0 /\ << >> \in Seq(Seq(X))
    OBVIOUS
  <2>2. IsChain(<< >>, [i \in 1 .. 0 |-> << >>])
    BY <2>1 DEF IsChain
  <2>3. QED
    BY <2>1, <2>2
<1>2. ASSUME NEW r \in Seq(Seq(X)), NEW x \in Seq(X), r \in P PROVE Append(r, x) \in P
  <2>1. PICK f : IsChain(r, f)
    BY <1>2
  <2> DEFINE q == Append(r, x)
             g == [i \in 1 .. Len(r) + 1 |->
                     IF i <= Len(r) THEN f[i]
                     ELSE IF i = 1 THEN x ELSE f[Len(r)] \o x]
  <2>2. /\ q \in Seq(Seq(X)) /\ Len(q) = Len(r) + 1 /\ Len(r) \in Nat
        /\ q[Len(r) + 1] = x
        /\ \A n \in 1 .. Len(r) : q[n] = r[n]
    OBVIOUS
  <2>3. \A i \in 1 .. Len(r) : f[i] = IF i = 1 THEN r[i] ELSE f[i - 1] \o r[i]
    BY <2>1, <2>2 DEF IsChain
  <2>4. \A i \in 1 .. Len(q) : g[i] = IF i = 1 THEN q[i] ELSE g[i - 1] \o q[i]
    <3> HIDE DEF q
    <3>1. ASSUME NEW i \in 1 .. Len(q)
          PROVE  g[i] = IF i = 1 THEN q[i] ELSE g[i - 1] \o q[i]
      <4>1. CASE i \in 1 .. Len(r)
        <5>1. g[i] = f[i] /\ q[i] = r[i] /\ (i # 1 => g[i - 1] = f[i - 1])
          BY <2>2, <4>1
        <5>2. QED
          BY <2>3, <4>1, <5>1
      <4>2. CASE i = Len(r) + 1
        <5>1. CASE i = 1
          <6>1. g[i] = x
            BY <2>2, <4>2, <5>1
          <6>2. QED
            BY <2>2, <4>2, <5>1, <6>1
        <5>2. CASE i # 1
          <6>1. g[i] = f[Len(r)] \o x
            BY <2>2, <4>2, <5>2
          <6>2. g[i - 1] = f[Len(r)]
            BY <2>2, <4>2, <5>2
          <6>3. QED
            BY <2>2, <4>2, <5>2, <6>1, <6>2
        <5>3. QED
          BY <5>1, <5>2
      <4>3. QED
        BY <2>2, <4>1, <4>2
    <3>2. QED
      BY <3>1
  <2>5. IsChain(q, g)
    <3>1. g = [i \in 1 .. Len(q) |-> g[i]]
      BY <2>2
    <3> HIDE DEF g, q
    <3>2. QED
      BY <2>4, <3>1 DEF IsChain
  <2>6. QED
    BY <2>2, <2>5
<1>3. Seq(Seq(X)) \subseteq P
  <2> HIDE DEF P
  <2>1. QED
    BY <1>1, <1>2, ListInduction
<1>4. QED
  BY <1>3

(* The first n of the lists, one after the other.                          *)
UpTo(lists, n) == UNION {ToSet(lists[i]) : i \in 1 .. n}

(* None of the lists repeats an element, and no two have one in common.    *)
AllApart(lists) ==
  /\ \A i \in DOMAIN lists : IsInjective(lists[i])
  /\ \A i, j \in DOMAIN lists : i # j => ToSet(lists[i]) \cap ToSet(lists[j]) = {}

(* ... and then have the elements they had, none of them twice if none is  *)
(* in two lists.                                                           *)
LEMMA FlattenHas ==
  ASSUME NEW X, NEW lists \in Seq(Seq(X))
  PROVE  /\ FlattenSeq(lists) \in Seq(X)
         /\ ToSet(FlattenSeq(lists)) = UpTo(lists, Len(lists))
         /\ AllApart(lists) => IsInjective(FlattenSeq(lists))
<1>1. Len(lists) \in Nat /\ DOMAIN lists = 1 .. Len(lists)
  OBVIOUS
<1>2. CASE Len(lists) = 0
  <2>1. FlattenSeq(lists) = lists /\ lists = << >>
    BY <1>2 DEF FlattenSeq
  <2>2. << >> \in Seq(X) /\ IsInjective(<< >>)
    BY DEF IsInjective
  <2>3. UpTo(lists, Len(lists)) = {}
    BY <1>2 DEF UpTo
  <2>4. QED
    BY <2>1, <2>2, <2>3, NothingHas
<1>3. CASE Len(lists) # 0
  <2> DEFINE f == CHOOSE f : IsChain(lists, f)
             Fine(n) == /\ f[n] \in Seq(X) /\ ToSet(f[n]) = UpTo(lists, n)
                        /\ AllApart(lists) => IsInjective(f[n])
  <2>1. IsChain(lists, f)
    BY ChainExists
  <2>2. FlattenSeq(lists) = f[Len(lists)]
    BY <1>3 DEF FlattenSeq, IsChain
  <2> HIDE DEF f
  <2>3. \A i \in 1 .. Len(lists) : f[i] = IF i = 1 THEN lists[i] ELSE f[i - 1] \o lists[i]
    BY <1>1, <2>1 DEF IsChain
  <2>4. Fine(1)
    <3>1. 1 \in 1 .. Len(lists) /\ lists[1] \in Seq(X)
      BY <1>1, <1>3
    <3>2. f[1] = lists[1]
      BY <2>3, <3>1
    <3>3. UpTo(lists, 1) = ToSet(lists[1])
      BY DEF UpTo
    <3>4. AllApart(lists) => IsInjective(lists[1])
      BY <1>1, <3>1 DEF AllApart
    <3>5. QED
      BY <3>1, <3>2, <3>3, <3>4
  <2>5. ASSUME NEW n \in 1 .. Len(lists), n # 1, Fine(n - 1) PROVE Fine(n)
    <3>1. /\ n \in Nat /\ n - 1 \in 1 .. Len(lists) /\ lists[n] \in Seq(X)
          /\ \A i \in 1 .. n - 1 : i \in 1 .. Len(lists) /\ i # n
          /\ \A i \in 1 .. n : i \in 1 .. n - 1 \/ i = n
          /\ \A i \in 1 .. n - 1 : i \in 1 .. n
          /\ n \in 1 .. n
      BY <1>1, <2>5
    <3>2. f[n] = f[n - 1] \o lists[n]
      BY <2>3, <2>5
    <3>3. PICK s \in Seq(X) : s = f[n - 1]
      BY <2>5
    <3>4. PICK t \in Seq(X) : t = lists[n]
      BY <3>1
    <3>5. PICK q : q = s \o t
      OBVIOUS
    <3>6. f[n] = q
      BY <3>2, <3>3, <3>4, <3>5
    <3>7. ToSet(s) = UpTo(lists, n - 1) /\ (AllApart(lists) => IsInjective(s))
      BY <2>5, <3>3
    <3>8. AllApart(lists) => IsInjective(t) /\ ToSet(s) \cap ToSet(t) = {}
      BY <1>1, <2>5, <3>1, <3>4, <3>7 DEF UpTo, AllApart
    <3>9. AllApart(lists) => IsInjective(q)
      BY <3>5, <3>7, <3>8, ConcatInjective
    <3>10. q \in Seq(X) /\ ToSet(q) = ToSet(s) \union ToSet(t)
      BY <3>5, ConcatHas
    <3>11. UpTo(lists, n) = UpTo(lists, n - 1) \union ToSet(lists[n])
      BY <3>1 DEF UpTo
    <3>12. QED
      BY <3>4, <3>6, <3>7, <3>9, <3>10, <3>11
  <2> DEFINE P == {i \in Nat : i + 1 <= Len(lists) => Fine(i + 1)}
  <2>6. 0 \in P
    BY <2>4
  <2>7. ASSUME NEW i \in Nat, i \in P PROVE i + 1 \in P
    <3>1. ASSUME i + 2 <= Len(lists) PROVE Fine(i + 2)
      <4>1. PICK n \in 1 .. Len(lists) : n = i + 2 /\ n # 1 /\ n - 1 = i + 1
        BY <1>1, <3>1
      <4>2. Fine(i + 1)
        BY <1>1, <2>7, <3>1
      <4> HIDE DEF Fine
      <4>3. QED
        BY <2>5, <4>1, <4>2
    <3>2. i + 1 + 1 = i + 2
      OBVIOUS
    <3> HIDE DEF Fine
    <3>3. QED
      BY <3>1, <3>2
  <2>8. Nat \subseteq P
    <3> HIDE DEF P
    <3>1. QED
      BY <2>6, <2>7, NumberInduction
  <2>9. Len(lists) - 1 \in Nat /\ Len(lists) - 1 + 1 = Len(lists)
    BY <1>1, <1>3
  <2>10. Len(lists) - 1 \in P
    BY <2>8, <2>9
  <2>11. Fine(Len(lists))
    <3> HIDE DEF Fine
    <3>1. QED
      BY <1>1, <2>9, <2>10
  <2>12. QED
    BY <2>2, <2>11
<1>4. QED
  BY <1>2, <1>3

----------------------------------------------------------------------------
(* Sets as lists.                                                          *)

LEMMA SetToSeqIs ==
  ASSUME NEW S, IsFiniteSet(S)
  PROVE  /\ SetToSeq(S) \in Seq(S) /\ Len(SetToSeq(S)) = Cardinality(S)
         /\ ToSet(SetToSeq(S)) = S /\ IsInjective(SetToSeq(S))
<1> DEFINE n == Cardinality(S)
           f == CHOOSE f \in [1 .. n -> S] : IsInjective(f)
<1>1. n \in Nat /\ ExistsBijection(1 .. n, S)
  BY FS_CardinalityType
<1>2. \E g \in [1 .. n -> S] : IsInjective(g)
  <2> HIDE DEF n
  <2>1. QED
    BY <1>1 DEF ExistsBijection, Bijection, Injection
<1>3. f \in [1 .. n -> S] /\ IsInjective(f)
  <2> HIDE DEF n
  <2>1. QED
    BY <1>2
<1>4. SetToSeq(S) = f
  BY DEF SetToSeq
<1>5. f \in Surjection(1 .. n, S)
  <2>1. IsFiniteSet(1 .. n) /\ Cardinality(1 .. n) = n
    <3>1. \A k \in Nat : IsFiniteSet(1 .. k) /\ Cardinality(1 .. k) = k
      BY FS_Interval
    <3>2. QED
      BY <1>1, <3>1
  <2> HIDE DEF f
  <2>2. f \in Injection(1 .. n, S)
    BY <1>3 DEF Injection
  <2>3. QED
    BY <2>1, <2>2, FS_Injection
<1>6. f \in Seq(S) /\ Len(f) = n /\ DOMAIN f = 1 .. n
  <2> HIDE DEF f, n
  <2>1. QED
    BY <1>1, <1>3
<1>7. ToSet(f) = S
  <2> HIDE DEF f, n
  <2>1. \A x \in S : \E i \in 1 .. n : f[i] = x
    BY <1>5 DEF Surjection
  <2>2. \A i \in 1 .. n : f[i] \in S
    BY <1>3
  <2>3. QED
    BY <1>6, <2>1, <2>2 DEF ToSet
<1>8. QED
  <2> HIDE DEF f
  <2>1. QED
    BY <1>3, <1>4, <1>6, <1>7

LEMMA SetToSeqsAre ==
  ASSUME NEW S, IsFiniteSet(S), NEW q \in SetToSeqs(S)
  PROVE  q \in Seq(S) /\ ToSet(q) = S /\ IsInjective(q)
<1>1. PICK n \in Nat : n = Cardinality(S)
  BY FS_CardinalityType
<1>2. q \in [1 .. n -> S] /\ \A i, j \in 1 .. n : i # j => q[i] # q[j]
  BY <1>1 DEF SetToSeqs
<1>3. q \in Injection(1 .. n, S)
  BY <1>2, Fun_IsInj
<1>4. IsFiniteSet(1 .. n) /\ Cardinality(1 .. n) = n
  <2>1. \A k \in Nat : IsFiniteSet(1 .. k) /\ Cardinality(1 .. k) = k
    BY FS_Interval
  <2>2. QED
    BY <2>1
<1>5. q \in Surjection(1 .. n, S)
  BY <1>1, <1>3, <1>4, FS_Injection
<1>6. q \in Seq(S) /\ DOMAIN q = 1 .. n
  BY <1>2
<1>7. \A x \in S : \E i \in 1 .. n : q[i] = x
  BY <1>5 DEF Surjection
<1>8. QED
  BY <1>2, <1>6, <1>7 DEF ToSet, IsInjective

----------------------------------------------------------------------------
(* Sorting.                                                                *)

(* A member of a list has a place there.                                   *)
LEMMA IndexOfIs ==
  ASSUME NEW X, NEW seq \in Seq(X), NEW x \in ToSet(seq)
  PROVE  IndexOf(x, seq) \in DOMAIN seq /\ seq[IndexOf(x, seq)] = x
<1> DEFINE at == {i \in DOMAIN seq : seq[i] = x}
<1>1. at \in SUBSET Nat /\ at # {}
  BY DEF ToSet
<1>2. PICK i \in at : \A j \in at : i <= j
  <2> HIDE DEF at
  <2>1. QED
    BY <1>1, LeastElement
<1>3. i \in DOMAIN seq /\ seq[i] = x
  OBVIOUS
<1>4. ASSUME NEW j \in 1 .. i - 1 PROVE seq[j] # x
  <2>1. j \in DOMAIN seq /\ i \in Nat /\ ~(i <= j)
    BY <1>3
  <2>2. QED
    BY <1>2, <2>1
<1>5. QED
  BY <1>3, <1>4 DEF IndexOf

Triple == Nat \X Nat \X Nat

(* One triple precedes another at the first place where they differ.       *)
LEMMA PrecedesIs ==
  ASSUME NEW r \in Triple, NEW s \in Triple
  PROVE  Precedes(r, s) <=> \/ r[1] < s[1]
                            \/ r[1] = s[1] /\ r[2] < s[2]
                            \/ r[1] = s[1] /\ r[2] = s[2] /\ r[3] < s[3]
<1>1. /\ r[1] \in Nat /\ r[2] \in Nat /\ r[3] \in Nat
      /\ s[1] \in Nat /\ s[2] \in Nat /\ s[3] \in Nat
  BY DEF Triple
<1>2. /\ 1 .. 3 = {1, 2, 3} /\ 1 .. 1 - 1 = {} /\ 1 .. 2 - 1 = {1} /\ 1 .. 3 - 1 = {1, 2}
  OBVIOUS
<1>3. Precedes(r, s) <=> \E i \in {1, 2, 3} : r[i] < s[i] /\ \A j \in 1 .. i - 1 : r[j] = s[j]
  BY <1>2 DEF Precedes
<1>4. QED
  BY <1>1, <1>2, <1>3

LEMMA PrecedesIsStrict ==
  /\ \A r \in Triple : ~Precedes(r, r)
  /\ \A r, s, t \in Triple : Precedes(r, s) /\ Precedes(s, t) => Precedes(r, t)
  /\ \A r, s \in Triple : r = s \/ Precedes(r, s) \/ Precedes(s, r)
<1>1. \A r \in Triple : r[1] \in Nat /\ r[2] \in Nat /\ r[3] \in Nat /\ r = <<r[1], r[2], r[3]>>
  BY DEF Triple
<1>2. \A r, s \in Triple : r[1] = s[1] /\ r[2] = s[2] /\ r[3] = s[3] => r = s
  BY <1>1
<1>3. QED
  BY <1>1, <1>2, PrecedesIs

(* The elements of a list come before each other in a strict order.         *)
LEMMA ComesBeforeIsStrict ==
  ASSUME NEW X, NEW rank \in [X -> Triple], NEW list \in Seq(X)
  PROVE  /\ \A i \in DOMAIN list : ~ComesBefore(list, rank, i, i)
         /\ \A i, j, k \in DOMAIN list :
              ComesBefore(list, rank, i, j) /\ ComesBefore(list, rank, j, k)
                => ComesBefore(list, rank, i, k)
         /\ \A i, j \in DOMAIN list :
              i = j \/ ComesBefore(list, rank, i, j) \/ ComesBefore(list, rank, j, i)
<1> DEFINE r(i) == rank[list[i]]
<1>1. \A i \in DOMAIN list : i \in Nat /\ r(i) \in Triple
  OBVIOUS
<1>2. \A i, j \in DOMAIN list :
        ComesBefore(list, rank, i, j) <=> Precedes(r(i), r(j)) \/ (r(i) = r(j) /\ i < j)
  BY DEF ComesBefore
<1>3. QED
  <2> HIDE DEF r
  <2>1. \A i \in DOMAIN list : ~ComesBefore(list, rank, i, i)
    BY <1>1, <1>2, PrecedesIsStrict
  <2>2. ASSUME NEW i \in DOMAIN list, NEW j \in DOMAIN list, NEW k \in DOMAIN list,
               ComesBefore(list, rank, i, j), ComesBefore(list, rank, j, k)
        PROVE  ComesBefore(list, rank, i, k)
    <3>1. /\ Precedes(r(i), r(j)) \/ (r(i) = r(j) /\ i < j)
          /\ Precedes(r(j), r(k)) \/ (r(j) = r(k) /\ j < k)
          /\ i \in Nat /\ j \in Nat /\ k \in Nat
          /\ r(i) \in Triple /\ r(j) \in Triple /\ r(k) \in Triple
      BY <1>1, <1>2, <2>2
    <3>2. Precedes(r(i), r(k)) \/ (r(i) = r(k) /\ i < k)
      BY <3>1, PrecedesIsStrict
    <3>3. QED
      BY <1>2, <3>2
  <2>3. ASSUME NEW i \in DOMAIN list, NEW j \in DOMAIN list
        PROVE  i = j \/ ComesBefore(list, rank, i, j) \/ ComesBefore(list, rank, j, i)
    <3>1. /\ i \in Nat /\ j \in Nat /\ r(i) \in Triple /\ r(j) \in Triple
      BY <1>1
    <3>2. r(i) = r(j) \/ Precedes(r(i), r(j)) \/ Precedes(r(j), r(i))
      BY <3>1, PrecedesIsStrict
    <3>3. i = j \/ i < j \/ j < i
      BY <3>1
    <3>4. QED
      BY <1>2, <3>2, <3>3
  <2>4. QED
    BY <2>1, <2>2, <2>3

(* Sorting by counting what comes before.                                  *)

Below(S, R, a) == {b \in S : <<b, a>> \in R}

StrictOrder(S, R) ==
  /\ \A a \in S : <<a, a>> \notin R
  /\ \A a, b, c \in S : <<a, b>> \in R /\ <<b, c>> \in R => <<a, c>> \in R
  /\ \A a, b \in S : a = b \/ <<a, b>> \in R \/ <<b, a>> \in R

(* What comes earlier has less before it.                                  *)
LEMMA BelowGrows ==
  ASSUME NEW S, IsFiniteSet(S), NEW R, StrictOrder(S, R),
         NEW a \in S, NEW b \in S, <<a, b>> \in R
  PROVE  Cardinality(Below(S, R, a)) < Cardinality(Below(S, R, b))
<1> DEFINE A == Below(S, R, a)
           B == Below(S, R, b)
<1>1. A \subseteq B /\ a \in B /\ a \notin A /\ B \subseteq S
  BY DEF Below, StrictOrder
<1> HIDE DEF A, B
<1>2. IsFiniteSet(B) /\ IsFiniteSet(A) /\ Cardinality(A) <= Cardinality(B)
      /\ (Cardinality(B) = Cardinality(A) => B = A)
  <2>1. IsFiniteSet(B)
    BY <1>1, FS_Subset
  <2>2. QED
    BY <1>1, <2>1, FS_Subset
<1>3. Cardinality(A) \in Nat /\ Cardinality(B) \in Nat
  BY <1>2, FS_CardinalityType
<1>4. A # B
  BY <1>1
<1>5. Cardinality(A) < Cardinality(B)
  BY <1>2, <1>3, <1>4
<1>6. QED
  BY <1>5 DEF A, B

(* So for every number below that of all there is one, and only one, with  *)
(* that many before it.                                                    *)
LEMMA CountsAreAll ==
  ASSUME NEW S, IsFiniteSet(S), NEW R, StrictOrder(S, R)
  PROVE  /\ Cardinality(S) \in Nat
         /\ \A a \in S : Cardinality(Below(S, R, a)) \in 0 .. Cardinality(S) - 1
         /\ \A a, b \in S : Cardinality(Below(S, R, a)) = Cardinality(Below(S, R, b)) => a = b
         /\ \A n \in 0 .. Cardinality(S) - 1 : \E a \in S : Cardinality(Below(S, R, a)) = n
<1> DEFINE count == [a \in S |-> Cardinality(Below(S, R, a))]
           T == 0 .. Cardinality(S) - 1
<1>1. Cardinality(S) \in Nat
  BY FS_CardinalityType
<1>2. ASSUME NEW a \in S PROVE Cardinality(Below(S, R, a)) \in T
  <2>1. Below(S, R, a) \subseteq S /\ a \notin Below(S, R, a)
    BY DEF Below, StrictOrder
  <2>2. /\ IsFiniteSet(Below(S, R, a))
        /\ Cardinality(Below(S, R, a)) <= Cardinality(S)
        /\ (Cardinality(S) = Cardinality(Below(S, R, a)) => S = Below(S, R, a))
    BY <2>1, FS_Subset
  <2>3. Cardinality(Below(S, R, a)) \in Nat
    BY <2>2, FS_CardinalityType
  <2>4. QED
    BY <1>1, <2>1, <2>2, <2>3
<1>3. ASSUME NEW a \in S, NEW b \in S, Cardinality(Below(S, R, a)) = Cardinality(Below(S, R, b))
      PROVE  a = b
  <2>1. Cardinality(Below(S, R, a)) \in Nat /\ Cardinality(Below(S, R, b)) \in Nat
    BY <1>1, <1>2
  <2>2. ~(<<a, b>> \in R) /\ ~(<<b, a>> \in R)
    <3>1. <<a, b>> \in R => Cardinality(Below(S, R, a)) < Cardinality(Below(S, R, b))
      BY BelowGrows
    <3>2. <<b, a>> \in R => Cardinality(Below(S, R, b)) < Cardinality(Below(S, R, a))
      BY BelowGrows
    <3>3. QED
      BY <1>3, <2>1, <3>1, <3>2
  <2>3. QED
    BY <2>2 DEF StrictOrder
<1>4. count \in Injection(S, T)
  <2>1. count \in [S -> T]
    BY <1>2
  <2>2. \A a, b \in S : count[a] = count[b] => a = b
    BY <1>3
  <2>3. QED
    <3> HIDE DEF count, T
    <3>1. QED
      BY <2>1, <2>2, Fun_IsInj
<1>5. IsFiniteSet(T) /\ Cardinality(T) = Cardinality(S)
  BY <1>1, FS_Interval
<1>6. count \in Surjection(S, T)
  <2> HIDE DEF count, T
  <2>1. QED
    BY <1>4, <1>5, FS_Injection
<1>7. \A n \in T : \E a \in S : count[a] = n
  <2> HIDE DEF count, T
  <2>1. QED
    BY <1>6 DEF Surjection
<1>8. QED
  BY <1>1, <1>2, <1>3, <1>7

(* A permutation of the places of a list, by how much comes before each.   *)
Arranges(list, rank, p) ==
  /\ p \in [DOMAIN list -> DOMAIN list]
  /\ SortedBy(list, rank) = [k \in DOMAIN list |-> list[p[k]]]
  /\ \A k \in DOMAIN list : Cardinality(Ahead(list, rank, p[k])) = k - 1
  /\ \A k, l \in DOMAIN list : p[k] = p[l] => k = l
  /\ \A i \in DOMAIN list : \E k \in DOMAIN list : p[k] = i
  /\ \A i, j \in DOMAIN list :
       Cardinality(Ahead(list, rank, i)) = Cardinality(Ahead(list, rank, j)) => i = j

(* It puts at each place what has one fewer before it.                     *)
LEMMA SortedPermutes ==
  ASSUME NEW X, NEW rank \in [X -> Triple], NEW list \in Seq(X)
  PROVE  \E p : Arranges(list, rank, p)
<1> DEFINE S == DOMAIN list
           R == {e \in S \X S : ComesBefore(list, rank, e[1], e[2])}
           c(i) == Cardinality(Ahead(list, rank, i))
           p == [k \in S |-> CHOOSE i \in S : c(i) = k - 1]
<1>1. /\ S = 1 .. Len(list) /\ Len(list) \in Nat
  OBVIOUS
<1>2. IsFiniteSet(S) /\ Cardinality(S) = Len(list)
  <2>1. \A n \in Nat : IsFiniteSet(1 .. n) /\ Cardinality(1 .. n) = n
    BY FS_Interval
  <2>2. QED
    BY <1>1, <2>1
<1>3. \A i, j \in S : <<i, j>> \in R <=> ComesBefore(list, rank, i, j)
  OBVIOUS
<1>4. StrictOrder(S, R)
  <2> HIDE DEF S, R
  <2>1. QED
    BY <1>3, ComesBeforeIsStrict DEF StrictOrder, S
<1>5. \A i \in S : Below(S, R, i) = Ahead(list, rank, i)
  <2> HIDE DEF R
  <2>1. QED
    BY <1>3 DEF Below, Ahead
<1>6. /\ \A i \in S : c(i) \in 0 .. Len(list) - 1
      /\ \A i, j \in S : c(i) = c(j) => i = j
      /\ \A n \in 0 .. Len(list) - 1 : \E i \in S : c(i) = n
  <2> HIDE DEF S, R
  <2>1. QED
    BY <1>2, <1>4, <1>5, CountsAreAll
<1>7. \A k \in S : k - 1 \in 0 .. Len(list) - 1
  BY <1>1
<1>8. \A k \in S : p[k] \in S /\ c(p[k]) = k - 1
  <2> HIDE DEF S, c
  <2>1. QED
    BY <1>6, <1>7
<1>9. p \in [S -> S]
  <2> HIDE DEF S, c
  <2>1. \A k \in S : (CHOOSE i \in S : c(i) = k - 1) \in S
    BY <1>6, <1>7
  <2>2. QED
    BY <2>1
<1>10. SortedBy(list, rank) = [k \in S |-> list[p[k]]]
  BY DEF SortedBy
<1>11. \A k, l \in S : p[k] = p[l] => k = l
  <2> HIDE DEF p, c
  <2>1. \A k \in S : k \in Int
    BY <1>1
  <2>2. QED
    <3> HIDE DEF S
    <3>1. QED
      BY <1>8, <2>1
<1>12. \A i \in S : \E k \in S : p[k] = i
  <2>1. ASSUME NEW i \in S PROVE \E k \in S : k - 1 = c(i)
    <3>1. c(i) + 1 \in S /\ (c(i) + 1) - 1 = c(i)
      BY <1>1, <1>6
    <3>2. QED
      BY <3>1
  <2>2. ASSUME NEW i \in S PROVE \E k \in S : p[k] = i
    <3>1. PICK k \in S : k - 1 = c(i)
      BY <2>1
    <3>2. p[k] \in S /\ c(p[k]) = c(i)
      <4> HIDE DEF p, c, S
      <4>1. QED
        BY <1>8, <3>1
    <3>3. QED
      <4> HIDE DEF p, c, S
      <4>1. QED
        BY <1>6, <3>2
  <2>3. QED
    BY <2>2
<1>13. Arranges(list, rank, p)
  <2> HIDE DEF p, c
  <2>1. \A k \in S : c(p[k]) = k - 1
    BY <1>8
  <2>2. QED
    BY <1>6, <1>9, <1>10, <1>11, <1>12, <2>1 DEF c, Arranges
<1>14. QED
  <2> HIDE DEF p
  <2>1. QED
    BY <1>13

(* A function of the first numbers is a list.                              *)
LEMMA ListFrom ==
  ASSUME NEW X, NEW n \in Nat, NEW f \in [1 .. n -> X]
  PROVE  f \in Seq(X) /\ Len(f) = n
OBVIOUS

(* Sorting loses and adds nothing.                                         *)
LEMMA SortedHas ==
  ASSUME NEW X, NEW rank \in [X -> Triple], NEW list \in Seq(X)
  PROVE  SortedBy(list, rank) \in Seq(X) /\ ToSet(SortedBy(list, rank)) = ToSet(list)
<1>1. PICK p : Arranges(list, rank, p)
  BY SortedPermutes
<1>2. PICK sorted : sorted = SortedBy(list, rank)
  OBVIOUS
<1>3. /\ sorted = [k \in DOMAIN list |-> list[p[k]]]
      /\ \A k \in DOMAIN list : p[k] \in DOMAIN list
      /\ \A i \in DOMAIN list : \E k \in DOMAIN list : p[k] = i
  BY <1>1, <1>2 DEF Arranges
<1>4. /\ DOMAIN list = 1 .. Len(list) /\ Len(list) \in Nat
      /\ \A i \in DOMAIN list : list[i] \in X
  OBVIOUS
<1>5. sorted \in Seq(X)
  <2>1. sorted \in [1 .. Len(list) -> X]
    BY <1>3, <1>4
  <2>2. QED
    BY <1>4, <2>1, ListFrom
<1>6. DOMAIN sorted = DOMAIN list /\ \A k \in DOMAIN list : sorted[k] = list[p[k]]
  BY <1>3
<1>7. ToSet(sorted) = ToSet(list)
  <2>1. ASSUME NEW k \in DOMAIN list PROVE sorted[k] \in ToSet(list)
    BY <1>3, <1>6 DEF ToSet
  <2>2. ASSUME NEW i \in DOMAIN list PROVE list[i] \in ToSet(sorted)
    <3>1. PICK k \in DOMAIN list : p[k] = i
      BY <1>3
    <3>2. sorted[k] = list[i] /\ k \in DOMAIN sorted
      BY <1>6, <3>1
    <3>3. QED
      BY <3>2 DEF ToSet
  <2>3. ToSet(sorted) \subseteq ToSet(list)
    BY <1>6, <2>1 DEF ToSet
  <2>4. ToSet(list) \subseteq ToSet(sorted)
    BY <2>2 DEF ToSet
  <2>5. QED
    BY <2>3, <2>4
<1>8. QED
  BY <1>2, <1>5, <1>7

(* The result depends on what is sorted alone, where no two have one rank. *)
LEMMA SortedIsUnique ==
  ASSUME NEW X, NEW rank \in [X -> Triple],
         NEW list \in Seq(X), NEW other \in Seq(X),
         ToSet(list) = ToSet(other), IsInjective(list), IsInjective(other),
         \A a, b \in ToSet(list) : rank[a] = rank[b] => a = b
  PROVE  SortedBy(list, rank) = SortedBy(other, rank)
<1> DEFINE S == ToSet(list)
           before(a) == {b \in S : Precedes(rank[b], rank[a])}
<1>1. ASSUME NEW q \in Seq(X), ToSet(q) = S, IsInjective(q), NEW i \in DOMAIN q
      PROVE  Cardinality(Ahead(q, rank, i)) = Cardinality(before(q[i]))
  <2> DEFINE f == [j \in Ahead(q, rank, i) |-> q[j]]
  <2>1. /\ \A j \in DOMAIN q : q[j] \in S
        /\ \A b \in S : \E j \in DOMAIN q : q[j] = b
        /\ \A j, k \in DOMAIN q : q[j] = q[k] => j = k
        /\ DOMAIN q \subseteq Nat
    <3>1. DOMAIN q = 1 .. Len(q) /\ Len(q) \in Nat
      OBVIOUS
    <3>2. S = {q[j] : j \in DOMAIN q}
      BY <1>1 DEF ToSet
    <3>3. \A j, k \in DOMAIN q : q[j] = q[k] => j = k
      BY <1>1 DEF IsInjective
    <3>4. QED
      <4> HIDE DEF S
      <4>1. QED
        BY <3>1, <3>2, <3>3
  <2>2. \A j \in DOMAIN q : j \in Ahead(q, rank, i) <=> Precedes(rank[q[j]], rank[q[i]])
    <3>1. \A j \in DOMAIN q : rank[q[j]] = rank[q[i]] => ~(j < i)
      <4> HIDE DEF S
      <4>1. \A j \in DOMAIN q : rank[q[j]] = rank[q[i]] => j = i
        BY <2>1 DEF S
      <4>2. QED
        BY <2>1, <4>1
    <3>2. QED
      BY <3>1 DEF Ahead, ComesBefore
  <2>3. f \in [Ahead(q, rank, i) -> before(q[i])]
    <3>1. \A j \in Ahead(q, rank, i) : j \in DOMAIN q
      BY DEF Ahead
    <3>2. QED
      BY <2>1, <2>2, <3>1
  <2>4. \A j, k \in Ahead(q, rank, i) : f[j] = f[k] => j = k
    <3>1. \A j \in Ahead(q, rank, i) : j \in DOMAIN q
      BY DEF Ahead
    <3>2. QED
      BY <2>1, <3>1
  <2>5. \A b \in before(q[i]) : \E j \in Ahead(q, rank, i) : f[j] = b
    <3>1. ASSUME NEW b \in before(q[i]) PROVE \E j \in Ahead(q, rank, i) : f[j] = b
      <4>1. PICK j \in DOMAIN q : q[j] = b
        BY <2>1
      <4>2. j \in Ahead(q, rank, i)
        BY <2>2, <4>1
      <4>3. QED
        BY <4>1, <4>2
    <3>2. QED
      BY <3>1
  <2>6. f \in Bijection(Ahead(q, rank, i), before(q[i]))
    <3> HIDE DEF f, before
    <3>1. QED
      BY <2>3, <2>4, <2>5, Fun_IsBij
  <2>7. ExistsBijection(Ahead(q, rank, i), before(q[i]))
    <3> HIDE DEF f, before
    <3>1. QED
      BY <2>6 DEF ExistsBijection
  <2>8. IsFiniteSet(Ahead(q, rank, i))
    <3>1. DOMAIN q = 1 .. Len(q) /\ Len(q) \in Nat
      OBVIOUS
    <3>2. IsFiniteSet(DOMAIN q)
      BY <3>1, FS_Interval
    <3>3. Ahead(q, rank, i) \subseteq DOMAIN q
      BY DEF Ahead
    <3>4. QED
      BY <3>2, <3>3, FS_Subset
  <2>9. QED
    <3> HIDE DEF before
    <3>1. QED
      BY <2>7, <2>8, FS_Bijection
<1>2. PICK p : Arranges(list, rank, p)
  BY SortedPermutes
<1>3. PICK q : Arranges(other, rank, q)
  BY SortedPermutes
<1>4. ASSUME NEW s \in Seq(X), IsInjective(s)
      PROVE  /\ DOMAIN s = 1 .. Len(s) /\ Len(s) \in Nat
             /\ IsFiniteSet(ToSet(s)) /\ Cardinality(ToSet(s)) = Len(s)
  <2>1. DOMAIN s = 1 .. Len(s) /\ Len(s) \in Nat
    OBVIOUS
  <2>2. IsFiniteSet(DOMAIN s) /\ Cardinality(DOMAIN s) = Len(s)
    <3>1. \A n \in Nat : IsFiniteSet(1 .. n) /\ Cardinality(1 .. n) = n
      BY FS_Interval
    <3>2. QED
      BY <2>1, <3>1
  <2>3. s \in [DOMAIN s -> ToSet(s)]
    BY DEF ToSet
  <2>4. s \in Bijection(DOMAIN s, ToSet(s))
    <3>1. \A i, j \in DOMAIN s : s[i] = s[j] => i = j
      BY <1>4 DEF IsInjective
    <3>2. \A e \in ToSet(s) : \E i \in DOMAIN s : s[i] = e
      BY DEF ToSet
    <3>3. QED
      BY <2>3, <3>1, <3>2, Fun_IsBij
  <2>5. QED
    BY <2>1, <2>2, <2>4, FS_Bijection DEF ExistsBijection
<1>5. DOMAIN list = DOMAIN other
  BY <1>4
<1>6. ASSUME NEW k \in DOMAIN list PROVE list[p[k]] = other[q[k]]
  <2>1. p[k] \in DOMAIN list /\ q[k] \in DOMAIN other
    BY <1>2, <1>3, <1>5 DEF Arranges
  <2>2. PICK j \in DOMAIN other : other[j] = list[p[k]]
    BY <2>1 DEF ToSet
  <2>3. Cardinality(Ahead(other, rank, j)) = k - 1
    <3>1. Cardinality(Ahead(list, rank, p[k])) = Cardinality(before(list[p[k]]))
      <4> HIDE DEF before
      <4>1. QED
        BY <1>1, <2>1
    <3>2. Cardinality(Ahead(other, rank, j)) = Cardinality(before(other[j]))
      <4> HIDE DEF before
      <4>1. QED
        BY <1>1, <2>2
    <3>3. QED
      <4> HIDE DEF before
      <4>1. QED
        BY <1>2, <2>2, <3>1, <3>2 DEF Arranges
  <2>4. j = q[k]
    BY <1>3, <1>5, <2>1, <2>3 DEF Arranges
  <2>5. QED
    BY <2>2, <2>4
<1>7. QED
  BY <1>2, <1>3, <1>5, <1>6 DEF Arranges

----------------------------------------------------------------------------
(* Making lists, and taking them apart.                                    *)

(* A list is what it has at each place.                                   *)
LEMMA SameLists ==
  ASSUME NEW X, NEW s \in Seq(X), NEW t \in Seq(X), Len(s) = Len(t),
         \A i \in 1 .. Len(s) : s[i] = t[i]
  PROVE  s = t
OBVIOUS

(* Lists of none, one and two.                                             *)
LEMMA ShortLists ==
  ASSUME NEW X
  PROVE  /\ << >> \in Seq(X)
         /\ \A a \in X : <<a>> \in Seq(X) /\ <<a>> # << >>
         /\ \A a, b \in X : <<a, b>> \in Seq(X) /\ <<a, b>> # << >>
<1>1. Len(<< >>) = 0 /\ << >> \in Seq(X)
  OBVIOUS
<1>2. ASSUME NEW a \in X PROVE <<a>> \in Seq(X) /\ Len(<<a>>) = 1
  OBVIOUS
<1>3. ASSUME NEW a \in X, NEW b \in X PROVE <<a, b>> \in Seq(X) /\ Len(<<a, b>>) = 2
  OBVIOUS
<1>4. QED
  BY <1>1, <1>2, <1>3

(* A piece of a list.                                                      *)
LEMMA Piece ==
  ASSUME NEW X, NEW s \in Seq(X), NEW b \in Nat, NEW n \in Nat,
         \A k \in 1 .. n : b + k \in 1 .. Len(s)
  PROVE  /\ DOMAIN SubSeq(s, b + 1, b + n) = 1 .. n
         /\ \A k \in 1 .. n : SubSeq(s, b + 1, b + n)[k] = s[b + k]
<1>1. CASE n = 0
  BY <1>1
<1>2. CASE n # 0
  <2>1. b + n <= Len(s) /\ Len(s) \in Nat
    BY <1>2
  <2>2. QED
    BY <2>1
<1>3. QED
  BY <1>1, <1>2

----------------------------------------------------------------------------
(* One list after another: where each of them is found.                    *)

(* Two chains agree as long as their lists do.                             *)
Continues(N, L) ==
  /\ Len(L) \in Nat /\ Len(N) \in Nat /\ Len(L) <= Len(N)
  /\ \A k \in 1 .. Len(L) : N[k] = L[k]

LEMMA ChainsAgree ==
  ASSUME NEW L, NEW N, Continues(N, L), NEW f, IsChain(L, f), NEW g, IsChain(N, g)
  PROVE  \A k \in 1 .. Len(L) : f[k] = g[k]
<1> DEFINE P == {i \in Nat : i + 1 <= Len(L) => f[i + 1] = g[i + 1]}
<1>1. /\ Len(L) \in Nat /\ Len(N) \in Nat /\ Len(L) <= Len(N)
      /\ \A k \in 1 .. Len(L) : N[k] = L[k]
  BY DEF Continues
<1>2. /\ \A i \in 1 .. Len(L) : f[i] = IF i = 1 THEN L[i] ELSE f[i - 1] \o L[i]
      /\ \A i \in 1 .. Len(N) : g[i] = IF i = 1 THEN N[i] ELSE g[i - 1] \o N[i]
  BY DEF IsChain
<1>3. 0 \in P
  BY <1>1, <1>2
<1>4. ASSUME NEW i \in Nat, i \in P PROVE i + 1 \in P
  <2>1. ASSUME i + 2 <= Len(L) PROVE f[i + 2] = g[i + 2]
    <3>1. PICK n \in 1 .. Len(L) : n = i + 2 /\ n # 1 /\ n - 1 = i + 1 /\ n \in 1 .. Len(N)
      BY <1>1, <2>1
    <3>2. f[n] = f[n - 1] \o L[n] /\ g[n] = g[n - 1] \o N[n] /\ N[n] = L[n]
      BY <1>1, <1>2, <3>1
    <3>3. f[n - 1] = g[n - 1]
      BY <1>1, <1>4, <2>1, <3>1
    <3>4. QED
      BY <3>1, <3>2, <3>3
  <2>2. i + 1 + 1 = i + 2
    OBVIOUS
  <2>3. QED
    BY <2>1, <2>2
<1>5. Nat \subseteq P
  <2> HIDE DEF P
  <2>1. QED
    BY <1>3, <1>4, NumberInduction
<1>6. ASSUME NEW k \in 1 .. Len(L) PROVE f[k] = g[k]
  <2>1. k - 1 \in Nat /\ k - 1 + 1 = k /\ k <= Len(L)
    BY <1>1
  <2>2. k - 1 \in P
    BY <1>5, <2>1
  <2>3. QED
    BY <2>1, <2>2
<1>7. QED
  BY <1>6

LEMMA FlattenNone == FlattenSeq(<< >>) = << >>
<1>1. Len(<< >>) = 0
  OBVIOUS
<1>2. QED
  BY <1>1 DEF FlattenSeq

(* Appending a list to the lists appends its elements to theirs.           *)
LEMMA FlattenAppend ==
  ASSUME NEW X, NEW L \in Seq(Seq(X)), NEW l \in Seq(X)
  PROVE  FlattenSeq(Append(L, l)) = FlattenSeq(L) \o l
<1>1. PICK N : N = Append(L, l)
  OBVIOUS
<1>2. /\ N \in Seq(Seq(X)) /\ Len(N) = Len(L) + 1 /\ Len(L) \in Nat /\ N[Len(L) + 1] = l
      /\ \A k \in 1 .. Len(L) : N[k] = L[k]
  BY <1>1
<1>3. PICK g : IsChain(N, g) /\ FlattenSeq(N) = g[Len(N)]
  <2> DEFINE g == CHOOSE g : IsChain(N, g)
  <2>1. IsChain(N, g)
    BY <1>2, ChainExists
  <2>2. FlattenSeq(N) = g[Len(N)]
    BY <1>2 DEF FlattenSeq, IsChain
  <2>3. QED
    BY <2>1, <2>2
<1>4. \A i \in 1 .. Len(N) : g[i] = IF i = 1 THEN N[i] ELSE g[i - 1] \o N[i]
  BY <1>3 DEF IsChain
<1>5. CASE Len(L) = 0
  <2>1. FlattenSeq(L) = << >>
    BY <1>5, FlattenNone
  <2>2. g[Len(N)] = l
    BY <1>2, <1>4, <1>5
  <2>3. << >> \o l = l
    OBVIOUS
  <2>4. QED
    BY <1>1, <1>3, <2>1, <2>2, <2>3
<1>6. CASE Len(L) # 0
  <2>1. PICK f : IsChain(L, f) /\ FlattenSeq(L) = f[Len(L)]
    <3> DEFINE f == CHOOSE f : IsChain(L, f)
    <3>1. IsChain(L, f)
      BY ChainExists
    <3>2. FlattenSeq(L) = f[Len(L)]
      BY <1>6 DEF FlattenSeq, IsChain
    <3>3. QED
      BY <3>1, <3>2
  <2>2. \A k \in 1 .. Len(L) : f[k] = g[k]
    <3>1. Continues(N, L)
      BY <1>2 DEF Continues
    <3>2. QED
      BY <1>3, <2>1, <3>1, ChainsAgree
  <2>3. Len(L) \in 1 .. Len(L) /\ Len(N) \in 1 .. Len(N) /\ Len(N) # 1 /\ Len(N) - 1 = Len(L)
    BY <1>2, <1>6
  <2>4. g[Len(N)] = g[Len(L)] \o l
    BY <1>2, <1>4, <2>3
  <2>5. QED
    BY <1>1, <1>3, <2>1, <2>2, <2>3, <2>4
<1>7. QED
  BY <1>5, <1>6

(* The first n lists, one after the other.                                 *)
UpFront(L, n) == FlattenSeq(SubSeq(L, 1, n))

LEMMA UpFrontGrows ==
  ASSUME NEW X, NEW L \in Seq(Seq(X))
  PROVE  /\ UpFront(L, 0) = << >>
         /\ \A n \in 1 .. Len(L) : UpFront(L, n) = UpFront(L, n - 1) \o L[n]
         /\ \A n \in 0 .. Len(L) : UpFront(L, n) \in Seq(X)
         /\ UpFront(L, Len(L)) = FlattenSeq(L)
<1>1. Len(L) \in Nat
  OBVIOUS
<1>2. SubSeq(L, 1, 0) = << >> /\ SubSeq(L, 1, Len(L)) = L
  OBVIOUS
<1>3. ASSUME NEW n \in 0 .. Len(L) PROVE SubSeq(L, 1, n) \in Seq(Seq(X))
  OBVIOUS
<1>4. ASSUME NEW n \in 1 .. Len(L) PROVE UpFront(L, n) = UpFront(L, n - 1) \o L[n]
  <2>1. PICK M : M = SubSeq(L, 1, n - 1)
    OBVIOUS
  <2>2. n - 1 \in 0 .. Len(L) /\ L[n] \in Seq(X)
    BY <1>1
  <2>3. M \in Seq(Seq(X))
    BY <1>3, <2>1, <2>2
  <2>4. SubSeq(L, 1, n) = Append(M, L[n])
    <3>1. PICK A : A = SubSeq(L, 1, n)
      OBVIOUS
    <3>2. PICK B : B = Append(M, L[n])
      OBVIOUS
    <3>3. Len(A) = n /\ \A i \in 1 .. n : A[i] = L[i]
      BY <1>1, <3>1
    <3>4. Len(M) = n - 1 /\ \A i \in 1 .. n - 1 : M[i] = L[i]
      BY <1>1, <2>1
    <3>5. A \in Seq(Seq(X)) /\ B \in Seq(Seq(X))
      BY <1>1, <1>3, <2>2, <2>3, <3>1, <3>2
    <3>6. Len(B) = n /\ B[n] = L[n] /\ \A i \in 1 .. n - 1 : B[i] = M[i]
      BY <2>3, <3>2, <3>4
    <3>7. \A i \in 1 .. n : A[i] = B[i]
      <4>1. \A i \in 1 .. n - 1 : i \in 1 .. n
        BY <1>1
      <4>2. \A i \in 1 .. n : i \in 1 .. n - 1 \/ i = n
        BY <1>1
      <4>3. \A i \in 1 .. n - 1 : A[i] = B[i]
        BY <3>3, <3>4, <3>6, <4>1
      <4>4. A[n] = B[n]
        BY <1>1, <3>3, <3>6
      <4>5. QED
        BY <4>2, <4>3, <4>4
    <3>8. A = B
      BY <3>3, <3>5, <3>6, <3>7
    <3>9. QED
      BY <3>1, <3>2, <3>8
  <2>5. FlattenSeq(Append(M, L[n])) = FlattenSeq(M) \o L[n]
    BY <2>2, <2>3, FlattenAppend
  <2>6. QED
    BY <2>1, <2>4, <2>5 DEF UpFront
<1>5. ASSUME NEW n \in 0 .. Len(L) PROVE UpFront(L, n) \in Seq(X)
  BY <1>3, FlattenHas DEF UpFront
<1>6. QED
  BY <1>2, <1>4, <1>5, FlattenNone DEF UpFront

(* The n-th list stands behind those before it.                            *)
LEMMA FlattenBlocks ==
  ASSUME NEW X, NEW L \in Seq(Seq(X)), NEW n \in 1 .. Len(L), NEW i \in 1 .. Len(L[n])
  PROVE  /\ Len(UpFront(L, n - 1)) + i \in 1 .. Len(FlattenSeq(L))
         /\ FlattenSeq(L)[Len(UpFront(L, n - 1)) + i] = L[n][i]
<1> DEFINE Holds(m) == /\ Len(UpFront(L, n - 1)) + i \in 1 .. Len(UpFront(L, m))
                       /\ UpFront(L, m)[Len(UpFront(L, n - 1)) + i] = L[n][i]
           P == {m \in Nat : n <= m /\ m <= Len(L) => Holds(m)}
<1>1. Len(L) \in Nat /\ n \in Nat
  OBVIOUS
<1>2. 0 \in P
  BY <1>1
<1>3. ASSUME NEW m \in Nat, m \in P PROVE m + 1 \in P
  <2>1. ASSUME n <= m + 1, m + 1 <= Len(L) PROVE Holds(m + 1)
    <3>1. PICK k \in 1 .. Len(L) : k = m + 1 /\ k - 1 = m
      BY <1>1, <2>1
    <3>2. PICK s \in Seq(X) : s = UpFront(L, m)
      <4>1. m \in 0 .. Len(L)
        BY <1>1, <2>1
      <4>2. QED
        BY <4>1, UpFrontGrows
    <3>3. PICK t \in Seq(X) : t = L[k]
      OBVIOUS
    <3>4. UpFront(L, k) = s \o t
      BY <3>1, <3>2, <3>3, UpFrontGrows
    <3>5. /\ Len(s) \in Nat /\ Len(t) \in Nat /\ Len(s \o t) = Len(s) + Len(t)
          /\ \A j \in 1 .. Len(s) : (s \o t)[j] = s[j]
          /\ \A j \in 1 .. Len(t) : (s \o t)[Len(s) + j] = t[j]
      BY ConcatHas
    <3>6. CASE n = k
      <4>1. i \in 1 .. Len(t) /\ t[i] = L[n][i]
        BY <3>3, <3>6
      <4>2. UpFront(L, n - 1) = s
        BY <3>1, <3>2, <3>6
      <4>3. Len(s) + i \in 1 .. Len(s) + Len(t)
        BY <3>5, <4>1
      <4>4. QED
        BY <3>1, <3>4, <3>5, <4>1, <4>2, <4>3
    <3>7. CASE n # k
      <4>1. n <= m /\ m <= Len(L)
        BY <1>1, <2>1, <3>1, <3>7
      <4>2. Holds(m)
        BY <1>3, <4>1
      <4>3. PICK b : b = Len(UpFront(L, n - 1)) + i
        OBVIOUS
      <4>4. b \in 1 .. Len(s) /\ s[b] = L[n][i]
        BY <3>2, <4>2, <4>3
      <4>5. b \in 1 .. Len(s) + Len(t) /\ (s \o t)[b] = L[n][i]
        BY <3>5, <4>4
      <4>6. QED
        BY <3>1, <3>4, <3>5, <4>3, <4>5
    <3>8. QED
      BY <3>6, <3>7
  <2> HIDE DEF Holds
  <2>2. QED
    BY <2>1
<1>4. Nat \subseteq P
  <2> HIDE DEF P
  <2>1. QED
    BY <1>2, <1>3, NumberInduction
<1>5. Holds(Len(L))
  <2> HIDE DEF Holds
  <2>1. QED
    BY <1>1, <1>4
<1>6. QED
  BY <1>5, UpFrontGrows

(* Lists as long as others are as long together.                           *)
AsLong(L, M) == Len(L) = Len(M) /\ \A k \in 1 .. Len(L) : Len(L[k]) = Len(M[k])

LEMMA FlattenLengths ==
  ASSUME NEW X, NEW Y, NEW L \in Seq(Seq(X)), NEW M \in Seq(Seq(Y)), AsLong(L, M)
  PROVE  \A n \in 0 .. Len(L) : Len(UpFront(L, n)) = Len(UpFront(M, n))
<1> DEFINE P == {n \in Nat : n <= Len(L) => Len(UpFront(L, n)) = Len(UpFront(M, n))}
<1>1. Len(L) \in Nat /\ Len(L) = Len(M) /\ \A k \in 1 .. Len(L) : Len(L[k]) = Len(M[k])
  BY DEF AsLong
<1>2. 0 \in P
  BY UpFrontGrows
<1>3. ASSUME NEW n \in Nat, n \in P PROVE n + 1 \in P
  <2>1. ASSUME n + 1 <= Len(L) PROVE Len(UpFront(L, n + 1)) = Len(UpFront(M, n + 1))
    <3>1. PICK k \in 1 .. Len(L) : k = n + 1 /\ k - 1 = n /\ k \in 1 .. Len(M)
      BY <1>1, <2>1
    <3>2. n \in 0 .. Len(L) /\ n \in 0 .. Len(M)
      BY <1>1, <2>1
    <3>3. PICK s \in Seq(X), q \in Seq(Y) : s = UpFront(L, n) /\ q = UpFront(M, n)
      BY <3>2, UpFrontGrows
    <3>4. PICK t \in Seq(X), u \in Seq(Y) : t = L[k] /\ u = M[k] /\ Len(t) = Len(u)
      BY <1>1, <3>1
    <3>5. UpFront(L, k) = s \o t /\ UpFront(M, k) = q \o u
      BY <3>1, <3>3, <3>4, UpFrontGrows
    <3>6. Len(s) = Len(q)
      BY <1>1, <1>3, <2>1, <3>3
    <3>7. Len(s \o t) = Len(s) + Len(t) /\ Len(q \o u) = Len(q) + Len(u)
      OBVIOUS
    <3>8. QED
      BY <3>1, <3>4, <3>5, <3>6, <3>7
  <2>2. QED
    BY <2>1
<1>4. Nat \subseteq P
  <2> HIDE DEF P
  <2>1. QED
    BY <1>2, <1>3, NumberInduction
<1>5. QED
  BY <1>1, <1>4

(* Sifting one list after another is sifting each of them.                 *)
LEMMA SiftFlatten ==
  ASSUME NEW X, NEW T, NEW L \in Seq(Seq(X))
  PROVE  Sift(FlattenSeq(L), T) = FlattenSeq([k \in DOMAIN L |-> Sift(L[k], T)])
<1> DEFINE Each(r) == [k \in DOMAIN r |-> Sift(r[k], T)]
           P == {r \in Seq(Seq(X)) : Sift(FlattenSeq(r), T) = FlattenSeq(Each(r))}
<1>1. << >> \in P
  <2>1. Each(<< >>) = << >> /\ << >> \in Seq(Seq(X))
    OBVIOUS
  <2> HIDE DEF Each
  <2>2. QED
    BY <2>1, FlattenNone, SiftEmpty
<1>2. ASSUME NEW r \in Seq(Seq(X)), NEW l \in Seq(X), r \in P PROVE Append(r, l) \in P
  <2>1. \A k \in Seq(X) : Sift(k, T) \in Seq(X)
    BY SiftElements
  <2>2. Each(r) \in Seq(Seq(X)) /\ Len(Each(r)) = Len(r) /\ Len(r) \in Nat
    <3>1. \A k \in DOMAIN r : r[k] \in Seq(X)
      OBVIOUS
    <3>2. Each(r) \in [1 .. Len(r) -> Seq(X)] /\ Len(r) \in Nat
      BY <2>1, <3>1
    <3>3. PICK er : er = Each(r)
      OBVIOUS
    <3>4. er \in [1 .. Len(r) -> Seq(X)]
      BY <3>2, <3>3
    <3>5. er \in Seq(Seq(X)) /\ Len(er) = Len(r)
      BY <3>2, <3>4, ListFrom
    <3> HIDE DEF Each
    <3>6. QED
      BY <3>2, <3>3, <3>5
  <2>3. Each(Append(r, l)) = Append(Each(r), Sift(l, T))
    <3>1. PICK q : q = Append(r, l)
      OBVIOUS
    <3>2. PICK e : e = Append(Each(r), Sift(l, T))
      OBVIOUS
    <3>3. /\ q \in Seq(Seq(X)) /\ DOMAIN q = 1 .. Len(r) + 1 /\ q[Len(r) + 1] = l
          /\ \A k \in 1 .. Len(r) : q[k] = r[k]
      BY <3>1
    <3>4. \A k \in 1 .. Len(r) : Each(r)[k] = Sift(r[k], T)
      OBVIOUS
    <3>5. /\ \A k \in 1 .. Len(r) + 1 : Each(q)[k] = Sift(q[k], T)
          /\ Each(q) \in [1 .. Len(r) + 1 -> Seq(X)]
      <4>1. \A k \in 1 .. Len(r) + 1 : q[k] \in Seq(X)
        BY <3>3
      <4>2. QED
        BY <2>1, <3>3, <4>1
    <3>6. PICK eq : eq = Each(q)
      OBVIOUS
    <3>7. PICK er : er = Each(r)
      OBVIOUS
    <3> HIDE DEF Each
    <3>8. /\ e \in Seq(Seq(X)) /\ Len(e) = Len(r) + 1 /\ e[Len(r) + 1] = Sift(l, T)
          /\ \A k \in 1 .. Len(r) : e[k] = er[k]
      BY <2>1, <2>2, <3>2, <3>7
    <3>9. /\ eq \in Seq(Seq(X)) /\ Len(eq) = Len(r) + 1 /\ eq[Len(r) + 1] = Sift(l, T)
          /\ \A k \in 1 .. Len(r) : eq[k] = er[k]
      <4>1. /\ Len(r) + 1 \in 1 .. Len(r) + 1 /\ Len(r) + 1 \in Nat
            /\ \A k \in 1 .. Len(r) : k \in 1 .. Len(r) + 1
        BY <2>2
      <4>2. eq \in [1 .. Len(r) + 1 -> Seq(X)]
        BY <3>5, <3>6
      <4>3. eq \in Seq(Seq(X)) /\ Len(eq) = Len(r) + 1
        BY <4>1, <4>2, ListFrom
      <4>4. eq[Len(r) + 1] = Sift(l, T) /\ \A k \in 1 .. Len(r) : eq[k] = er[k]
        BY <3>3, <3>4, <3>5, <3>6, <3>7, <4>1
      <4>5. QED
        BY <4>3, <4>4
    <3>10. eq = e
      <4>1. \A k \in 1 .. Len(r) + 1 : k \in 1 .. Len(r) \/ k = Len(r) + 1
        BY <2>2
      <4>2. \A k \in 1 .. Len(r) + 1 : eq[k] = e[k]
        BY <3>8, <3>9, <4>1
      <4>3. QED
        BY <3>8, <3>9, <4>2, SameLists
    <3>11. QED
      BY <3>1, <3>2, <3>6, <3>10
  <2>4. FlattenSeq(Append(r, l)) = FlattenSeq(r) \o l
    BY FlattenAppend
  <2>5. FlattenSeq(Append(Each(r), Sift(l, T))) = FlattenSeq(Each(r)) \o Sift(l, T)
    <3> HIDE DEF Each
    <3>1. QED
      BY <2>1, <2>2, FlattenAppend
  <2>6. Sift(FlattenSeq(r) \o l, T) = Sift(FlattenSeq(r), T) \o Sift(l, T)
    BY FlattenHas, SiftConcat
  <2>7. Sift(FlattenSeq(r), T) = FlattenSeq(Each(r))
    BY <1>2
  <2>8. Append(r, l) \in Seq(Seq(X))
    OBVIOUS
  <2> HIDE DEF Each
  <2>9. QED
    BY <2>3, <2>4, <2>5, <2>6, <2>7, <2>8
<1>3. Seq(Seq(X)) \subseteq P
  <2> HIDE DEF P
  <2>1. QED
    BY <1>1, <1>2, ListInduction
<1>4. QED
  BY <1>3

(* Sifting one list and another apart that are told apart by a test.       *)
LEMMA SiftApart ==
  ASSUME NEW X, NEW c \in Seq(X), NEW a \in Seq(X),
         NEW T, ToSet(c) \subseteq T, ToSet(a) \cap T = {}
  PROVE  Sift(c \o a, T) = c
<1>1. Sift(c \o a, T) = Sift(c, T) \o Sift(a, T) /\ Sift(c, T) = c
  BY SiftConcat, SiftKeepsAll
<1>2. Sift(a, T) = << >>
  BY SiftElements, EmptyList
<1>3. c \o << >> = c
  OBVIOUS
<1>4. QED
  BY <1>1, <1>2, <1>3

LEMMA SiftBehind ==
  ASSUME NEW X, NEW c \in Seq(X), NEW a \in Seq(X),
         NEW T, ToSet(c) \cap T = {}, ToSet(a) \subseteq T
  PROVE  Sift(c \o a, T) = a
<1>1. Sift(c \o a, T) = Sift(c, T) \o Sift(a, T) /\ Sift(a, T) = a
  BY SiftConcat, SiftKeepsAll
<1>2. Sift(c, T) = << >>
  BY SiftElements, EmptyList
<1>3. << >> \o a = a
  OBVIOUS
<1>4. QED
  BY <1>1, <1>2, <1>3

----------------------------------------------------------------------------
(* How often something is in a list, and in which order.                   *)

Standing(s, T) == {i \in DOMAIN s : s[i] \in T}

(* Sifting leaves as many elements as pass the test.                       *)
LEMMA SiftCounts ==
  ASSUME NEW X, NEW T, NEW s \in Seq(X)
  PROVE  IsFiniteSet(Standing(s, T)) /\ Cardinality(Standing(s, T)) = Len(Sift(s, T))
<1> DEFINE Holds(r) ==
             IsFiniteSet(Standing(r, T)) /\ Cardinality(Standing(r, T)) = Len(Sift(r, T))
           P == {r \in Seq(X) : Holds(r)}
<1>1. << >> \in P
  <2>1. Standing(<< >>, T) = {}
    <3>1. DOMAIN << >> = {}
      OBVIOUS
    <3>2. QED
      BY <3>1 DEF Standing
  <2>2. << >> \in Seq(X) /\ Len(<< >>) = 0
    OBVIOUS
  <2>3. QED
    BY <2>1, <2>2, SiftEmpty, FS_EmptySet
<1>2. ASSUME NEW r \in Seq(X), NEW x \in X, r \in P PROVE Append(r, x) \in P
  <2>1. PICK q : q = Append(r, x)
    OBVIOUS
  <2>2. /\ q \in Seq(X) /\ DOMAIN q = 1 .. Len(r) + 1 /\ DOMAIN r = 1 .. Len(r)
        /\ Len(r) \in Nat /\ q[Len(r) + 1] = x /\ \A i \in 1 .. Len(r) : q[i] = r[i]
    BY <2>1
  <2>3. /\ \A i \in 1 .. Len(r) + 1 : i \in 1 .. Len(r) \/ i = Len(r) + 1
        /\ \A i \in 1 .. Len(r) : i \in 1 .. Len(r) + 1
        /\ Len(r) + 1 \in 1 .. Len(r) + 1 /\ Len(r) + 1 \notin 1 .. Len(r)
    BY <2>2
  <2>4. Standing(q, T) = IF x \in T THEN Standing(r, T) \union {Len(r) + 1} ELSE Standing(r, T)
    BY <2>2, <2>3 DEF Standing
  <2>5. Sift(q, T) = IF x \in T THEN Append(Sift(r, T), x) ELSE Sift(r, T)
    BY <2>1, SiftAppend
  <2>6. IsFiniteSet(Standing(r, T)) /\ Cardinality(Standing(r, T)) = Len(Sift(r, T))
    BY <1>2
  <2>7. CASE x \in T
    <3>1. Len(r) + 1 \notin Standing(r, T)
      BY <2>2, <2>3 DEF Standing
    <3>2. /\ IsFiniteSet(Standing(r, T) \union {Len(r) + 1})
          /\ Cardinality(Standing(r, T) \union {Len(r) + 1}) = Cardinality(Standing(r, T)) + 1
      BY <2>6, <3>1, FS_AddElement
    <3>3. Len(Append(Sift(r, T), x)) = Len(Sift(r, T)) + 1
      BY SiftElements
    <3>4. Holds(q)
      BY <2>4, <2>5, <2>6, <2>7, <3>2, <3>3
    <3>5. QED
      BY <2>1, <2>2, <3>4
  <2>8. CASE x \notin T
    <3>1. Holds(q)
      BY <2>4, <2>5, <2>6, <2>8
    <3>2. QED
      BY <2>1, <2>2, <3>1
  <2>9. QED
    BY <2>7, <2>8
<1>3. Seq(X) \subseteq P
  <2> HIDE DEF P
  <2>1. QED
    BY <1>1, <1>2, ListInduction
<1>4. QED
  BY <1>3

(* Sorting leaves everything as often as it was.                           *)
LEMMA SortedCounts ==
  ASSUME NEW X, NEW rank \in [X -> Triple], NEW list \in Seq(X), NEW T
  PROVE  Cardinality(Standing(SortedBy(list, rank), T)) = Cardinality(Standing(list, T))
<1>1. PICK p : Arranges(list, rank, p)
  BY SortedPermutes
<1>2. PICK sorted : sorted = SortedBy(list, rank)
  OBVIOUS
<1> DEFINE A == Standing(sorted, T)
           B == Standing(list, T)
           f == [k \in A |-> p[k]]
<1>3. /\ DOMAIN sorted = DOMAIN list
      /\ \A k \in DOMAIN list : sorted[k] = list[p[k]] /\ p[k] \in DOMAIN list
      /\ \A k, l \in DOMAIN list : p[k] = p[l] => k = l
      /\ \A i \in DOMAIN list : \E k \in DOMAIN list : p[k] = i
  BY <1>1, <1>2 DEF Arranges
<1>4. A \subseteq DOMAIN list /\ \A k \in A : p[k] \in B
  BY <1>3 DEF Standing
<1>5. \A i \in B : \E k \in A : p[k] = i
  BY <1>3 DEF Standing
<1>6. f \in [A -> B]
  BY <1>4
<1>7. \A k, l \in A : f[k] = f[l] => k = l
  BY <1>3, <1>4
<1>8. \A i \in B : \E k \in A : f[k] = i
  BY <1>5
<1>9. ExistsBijection(A, B)
  <2> HIDE DEF f, A, B
  <2>1. f \in Bijection(A, B)
    BY <1>6, <1>7, <1>8, Fun_IsBij
  <2>2. QED
    BY <2>1 DEF ExistsBijection
<1>10. IsFiniteSet(A)
  <2>1. sorted \in Seq(X)
    BY <1>2, SortedHas
  <2>2. QED
    BY <2>1, SiftCounts
<1>11. Cardinality(A) = Cardinality(B)
  <2> HIDE DEF A, B
  <2>1. QED
    BY <1>9, <1>10, FS_Bijection
<1>12. QED
  BY <1>2, <1>11

Rises(s, g) == \A j, k \in DOMAIN s : j < k => g[s[j]] <= g[s[k]]

(* Sorting puts what ranks first first.                                    *)
LEMMA SortedRises ==
  ASSUME NEW X, NEW rank \in [X -> Triple], NEW list \in Seq(X)
  PROVE  Rises(SortedBy(list, rank), [x \in X |-> rank[x][1]])
<1>1. PICK p : Arranges(list, rank, p)
  BY SortedPermutes
<1>2. PICK sorted : sorted = SortedBy(list, rank)
  OBVIOUS
<1> DEFINE g == [x \in X |-> rank[x][1]]
           S == DOMAIN list
           R == {e \in S \X S : ComesBefore(list, rank, e[1], e[2])}
<1>3. /\ DOMAIN sorted = DOMAIN list
      /\ \A k \in DOMAIN list : sorted[k] = list[p[k]] /\ p[k] \in DOMAIN list
      /\ \A k \in DOMAIN list : Cardinality(Ahead(list, rank, p[k])) = k - 1
      /\ DOMAIN list = 1 .. Len(list) /\ Len(list) \in Nat
  BY <1>1, <1>2 DEF Arranges
<1>4. \A i, j \in S : <<i, j>> \in R <=> ComesBefore(list, rank, i, j)
  OBVIOUS
<1>5. StrictOrder(S, R) /\ IsFiniteSet(S) /\ \A i \in S : Below(S, R, i) = Ahead(list, rank, i)
  <2>1. IsFiniteSet(S)
    <3>1. \A n \in Nat : IsFiniteSet(1 .. n)
      BY FS_Interval
    <3>2. QED
      BY <1>3, <3>1
  <2> HIDE DEF R
  <2>2. \A i \in S : Below(S, R, i) = Ahead(list, rank, i)
    BY <1>4 DEF Below, Ahead
  <2> HIDE DEF S
  <2>3. StrictOrder(S, R)
    BY <1>4, ComesBeforeIsStrict DEF StrictOrder, S
  <2>4. QED
    BY <2>1, <2>2, <2>3
<1>6. ASSUME NEW j \in S, NEW k \in S, j < k PROVE g[sorted[j]] <= g[sorted[k]]
  <2>1. PICK a \in S, b \in S : a = p[j] /\ b = p[k]
    BY <1>3
  <2>2. /\ Cardinality(Below(S, R, a)) = j - 1 /\ Cardinality(Below(S, R, b)) = k - 1
        /\ j - 1 < k - 1 /\ ~(k - 1 < j - 1) /\ j \in Nat /\ k \in Nat
    BY <1>3, <1>5, <1>6, <2>1
  <2>3. ~ComesBefore(list, rank, b, a)
    <3>1. <<b, a>> \in R => Cardinality(Below(S, R, b)) < Cardinality(Below(S, R, a))
      <4> HIDE DEF S, R
      <4>1. QED
        BY <1>5, BelowGrows
    <3>2. QED
      BY <1>4, <2>2, <3>1
  <2>4. list[a] \in X /\ list[b] \in X /\ sorted[j] = list[a] /\ sorted[k] = list[b]
    BY <1>3, <2>1
  <2>5. PICK t \in Triple, u \in Triple : t = rank[list[a]] /\ u = rank[list[b]]
    BY <2>4
  <2>6. ~Precedes(u, t)
    BY <2>3, <2>5 DEF ComesBefore
  <2>7. t[1] \in Nat /\ u[1] \in Nat
    BY DEF Triple
  <2>8. t[1] <= u[1]
    BY <2>6, <2>7, PrecedesIs
  <2>9. QED
    BY <2>4, <2>5, <2>8
<1>7. QED
  BY <1>2, <1>3, <1>6 DEF Rises

(* Sifting keeps the order.                                                *)
LEMMA SiftRises ==
  ASSUME NEW X, NEW g \in [X -> Nat], NEW T, NEW s \in Seq(X), Rises(s, g)
  PROVE  Rises(Sift(s, T), g)
<1> DEFINE P == {r \in Seq(X) : Rises(r, g) => Rises(Sift(r, T), g)}
<1>1. << >> \in P
  <2>1. << >> \in Seq(X)
    OBVIOUS
  <2>2. QED
    BY <2>1, SiftEmpty
<1>2. ASSUME NEW r \in Seq(X), NEW x \in X, r \in P PROVE Append(r, x) \in P
  <2>1. PICK q : q = Append(r, x)
    OBVIOUS
  <2>2. /\ q \in Seq(X) /\ DOMAIN q = 1 .. Len(r) + 1 /\ DOMAIN r = 1 .. Len(r)
        /\ Len(r) \in Nat /\ q[Len(r) + 1] = x /\ \A i \in 1 .. Len(r) : q[i] = r[i]
    BY <2>1
  <2>3. ASSUME Rises(q, g) PROVE Rises(Sift(q, T), g)
    <3>1. /\ \A i \in 1 .. Len(r) : i \in 1 .. Len(r) + 1 /\ i < Len(r) + 1
          /\ Len(r) + 1 \in 1 .. Len(r) + 1
      BY <2>2
    <3>2. Rises(r, g)
      BY <2>2, <2>3, <3>1 DEF Rises
    <3>3. \A i \in 1 .. Len(r) : g[r[i]] <= g[x]
      BY <2>2, <2>3, <3>1 DEF Rises
    <3>4. \A y \in ToSet(r) : g[y] <= g[x]
      BY <2>2, <3>3 DEF ToSet
    <3>5. PICK t \in Seq(X) : t = Sift(r, T) /\ ToSet(t) \subseteq ToSet(r)
      BY SiftElements
    <3>6. Rises(t, g)
      BY <1>2, <3>2, <3>5
    <3>7. Sift(q, T) = IF x \in T THEN Append(t, x) ELSE t
      BY <2>1, <3>5, SiftAppend
    <3>8. PICK u : u = Append(t, x)
      OBVIOUS
    <3>9. /\ DOMAIN u = 1 .. Len(t) + 1 /\ DOMAIN t = 1 .. Len(t) /\ Len(t) \in Nat
          /\ u[Len(t) + 1] = x /\ \A i \in 1 .. Len(t) : u[i] = t[i]
      BY <3>8
    <3>10. \A i \in 1 .. Len(t) : t[i] \in ToSet(r)
      BY <3>5, <3>9 DEF ToSet
    <3>11. ASSUME NEW j \in 1 .. Len(t) + 1, NEW k \in 1 .. Len(t) + 1, j < k
           PROVE  g[u[j]] <= g[u[k]]
      <4>1. j \in 1 .. Len(t)
        BY <3>9, <3>11
      <4>2. CASE k \in 1 .. Len(t)
        BY <3>6, <3>9, <3>11, <4>1, <4>2 DEF Rises
      <4>3. CASE k = Len(t) + 1
        BY <3>4, <3>9, <3>10, <4>1, <4>3
      <4>4. QED
        BY <3>9, <4>2, <4>3
    <3>12. Rises(u, g)
      BY <3>9, <3>11 DEF Rises
    <3>13. QED
      BY <3>6, <3>7, <3>8, <3>12
  <2>4. QED
    BY <2>1, <2>2, <2>3
<1>3. Seq(X) \subseteq P
  <2> HIDE DEF P
  <2>1. QED
    BY <1>1, <1>2, ListInduction
<1>4. QED
  BY <1>3
=============================================================================
