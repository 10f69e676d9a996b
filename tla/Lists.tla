------------------------------- MODULE Lists --------------------------------
(***************************************************************************)
(* The loop that most of this code is made of: go over a list and keep the *)
(* elements that pass a test, in order (a comprehension with an if, or an  *)
(* append under one).                                                      *)
(***************************************************************************)
EXTENDS Integers, FiniteSets, SequencesExt

(* The elements of s that are in T.                                        *)
Sift(s, T) ==
  LET after[n \in 0 .. Len(s)] ==
        IF n = 0 THEN << >>
        ELSE IF s[n] \in T THEN Append(after[n - 1], s[n]) ELSE after[n - 1]
  IN  after[Len(s)]

(* Where x first stands in a list.                                         *)
IndexOf(x, s) == CHOOSE i \in DOMAIN s : s[i] = x /\ \A j \in 1 .. i - 1 : s[j] # x

(* sorted(s, key=rank), where a rank is three numbers: what has the same   *)
(* rank stays in the order it had.                                         *)
Precedes(r, t) ==
  \E i \in 1 .. 3 : r[i] < t[i] /\ \A j \in 1 .. i - 1 : r[j] = t[j]

ComesBefore(s, rank, i, j) ==
  \/ Precedes(rank[s[i]], rank[s[j]])
  \/ rank[s[i]] = rank[s[j]] /\ i < j

Ahead(s, rank, i) == {j \in DOMAIN s : ComesBefore(s, rank, j, i)}

(* The k-th has k - 1 ahead of it.                                         *)
SortedBy(s, rank) ==
  [k \in DOMAIN s |-> s[CHOOSE i \in DOMAIN s : Cardinality(Ahead(s, rank, i)) = k - 1]]
=============================================================================
