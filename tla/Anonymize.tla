------------------------------ MODULE Anonymize ------------------------------
(***************************************************************************)
(* tools/dogfood/anonymize.py: a real config becomes a fixture.  The text  *)
(* is its strings, each with the kind of key it has in an env block, or    *)
(* "none" elsewhere; a string is a sequence of marks.                      *)
(***************************************************************************)
EXTENDS SequencesExt, Integers, FiniteSets

CONSTANTS
  MaxStrings,  \* bound: strings of a config
  MaxMarks     \* bound: marks of a string

(* Two of the seven provider patterns, in their order.  "sk-google" is a   *)
(* Google key after `sk-`, with a hyphen the OpenAI pattern stops at.      *)
Patterns == <<"openai", "google">>

Shape == [openai |-> {"openai", "openai synthetic", "sk-google synthetic"},
          google |-> {"google", "google synthetic", "sk-google", "sk-google synthetic"}]

Synthetic == [openai |-> "openai synthetic", google |-> "google synthetic",
              entropy |-> "entropy synthetic"]

(* The matches of a pattern that are the synthetic itself.                 *)
Synthetics(p) == {Synthetic[p]} \cup (IF p = "google" THEN {"sk-google synthetic"} ELSE {})

(* What a substitution leaves of a mark.                                   *)
Substituted(p, mark) ==
  CASE mark \notin Shape[p] \ Synthetics(p) -> mark
    [] mark = "sk-google" /\ p = "google" -> "sk-google synthetic"
    [] OTHER -> Synthetic[p]

(* A private key has line breaks, which JSON writes as escapes: the value  *)
(* parsed from a text is not found in it.  It has no synthetic of its own. *)
Entropic == {"random", "random too", "entropy synthetic"}
Real == {"openai", "google", "sk-google", "random", "random too", "escaped private key"}
Mark == Real \cup {"word", "home of alice"}

Parsed(written) ==
  [i \in DOMAIN written |-> IF written[i] = "escaped private key" THEN "private key" ELSE written[i]]

----------------------------------------------------------------------------
(* checks.secrets: the first pattern that matches, else the key's name and *)
(* the entropy of the value.                                               *)
Has(value, marks) == \E i \in DOMAIN value : value[i] \in marks

LooksSecret(key, value) ==
  CASE Has(value, Shape.openai) -> "openai"
    [] ~Has(value, Shape.openai) /\ Has(value, Shape.google) -> "google"
    [] ~Has(value, Shape.openai \cup Shape.google) /\ Has(value, {"private key"}) -> "private key"
    [] OTHER -> IF key = "secret" /\ Has(value, Entropic) THEN "entropy" ELSE "none"

Label == {"openai", "google", "private key", "entropy"}

SyntheticFor(value) ==
  LET label == LooksSecret("secret", value)
  IN  << Synthetic[IF label = "private key" THEN "entropy" ELSE label] >>

(* The values a scan of the text flags, in order and once each.            *)
Env(text) == SelectSeq(text, LAMBDA s : s.key # "none")

SecretValues(text) ==
  LET env     == Env(text)
      flagged == SelectSeq(env, LAMBDA s : LooksSecret(s.key, Parsed(s.written)) # "none")
      add(values, s) == IF Parsed(s.written) \in ToSet(values) THEN values
                        ELSE Append(values, Parsed(s.written))
  IN  FoldLeft(add, << >>, flagged)

(* str.replace and str.count in one string.                                *)
RECURSIVE Replaced(_, _, _)
Replaced(written, value, synthetic) ==
  CASE Len(written) < Len(value) -> written
    [] IsPrefix(value, written) ->
         synthetic \o Replaced(SubSeq(written, Len(value) + 1, Len(written)), value, synthetic)
    [] OTHER -> <<Head(written)>> \o Replaced(Tail(written), value, synthetic)

Total(f(_), text) == FoldLeft(LAMBDA n, s : n + f(s.written), 0, text)

Occurrences(value, text) ==
  Total(LAMBDA w : (Len(w) - Len(Replaced(w, value, << >>))) \div Len(value), text)

----------------------------------------------------------------------------
VARIABLES
  original,  \* the strings of the config
  scrubbed,  \* the text so far
  pc,        \* "collect", "structured", "sweep", "homes", "check", "done" or "leak"
  todo,      \* values of the structured pass still to be replaced
  pattern,   \* index of the next pattern of the sweep
  replaced,  \* secrets_replaced
  paths      \* paths_scrubbed

vars == <<original, scrubbed, pc, todo, pattern, replaced, paths>>

String == [key : {"secret", "plain", "none"},
           written : UNION {[1..n -> Mark] : n \in 1..MaxMarks}]

Init ==
  /\ original \in UNION {[1..n -> String] : n \in 1..MaxStrings}
  /\ scrubbed = original /\ pc = "collect" /\ todo = << >> /\ pattern = 1
  /\ replaced = [label \in Label |-> 0] /\ paths = 0

Collect ==
  /\ pc = "collect"
  /\ todo' = SecretValues(original)
  /\ pc' = "structured"
  /\ UNCHANGED <<original, scrubbed, pattern, replaced, paths>>

(* Pass 1, one value.                                                      *)
ReplaceSecret ==
  /\ pc = "structured" /\ todo # << >>
  /\ LET value == Head(todo)
     IN  /\ scrubbed' = [i \in DOMAIN scrubbed |-> [scrubbed[i] EXCEPT
                           !.written = Replaced(@, value, SyntheticFor(value))]]
         /\ replaced' = [replaced EXCEPT ![LooksSecret("secret", value)] =
                           @ + Occurrences(value, scrubbed)]
  /\ todo' = Tail(todo)
  /\ UNCHANGED <<original, pc, pattern, paths>>

EndStructured ==
  /\ pc = "structured" /\ todo = << >>
  /\ pc' = "sweep"
  /\ UNCHANGED <<original, scrubbed, todo, pattern, replaced, paths>>

Found(marks, text) == Total(LAMBDA w : Cardinality({i \in DOMAIN w : w[i] \in marks}), text)

(* Mutant: the synthetics of pass 1 are counted again.                     *)
NetNewAll(p, text) == Found(Shape[p], text)

NetNew(p, text) == Found(Shape[p] \ Synthetics(p), text)

(* Pass 2, one pattern: the text is rewritten only if something is new.    *)
Sweep ==
  /\ pc = "sweep" /\ pattern <= Len(Patterns)
  /\ LET p == Patterns[pattern]
     IN  IF NetNew(p, scrubbed) = 0 THEN UNCHANGED <<scrubbed, replaced>>
         ELSE /\ scrubbed' = [i \in DOMAIN scrubbed |-> [scrubbed[i] EXCEPT
                                !.written = [k \in DOMAIN @ |-> Substituted(p, @[k])]]]
              /\ replaced' = [replaced EXCEPT ![p] = @ + NetNew(p, scrubbed)]
  /\ pattern' = pattern + 1
  /\ UNCHANGED <<original, pc, todo, paths>>

EndSweep ==
  /\ pc = "sweep" /\ pattern > Len(Patterns)
  /\ pc' = "homes"
  /\ UNCHANGED <<original, scrubbed, todo, pattern, replaced, paths>>

ScrubHomes ==
  LET homes(w) == Cardinality({i \in DOMAIN w : w[i] = "home of alice"})
  IN  /\ pc = "homes"
      /\ scrubbed' = [i \in DOMAIN scrubbed |-> [scrubbed[i] EXCEPT
                        !.written = [k \in DOMAIN @ |->
                           IF @[k] = "home of alice" THEN "home of user" ELSE @[k]]]]
      /\ paths' = paths + Total(homes, scrubbed)
      /\ pc' = "check"
      /\ UNCHANGED <<original, todo, pattern, replaced>>

(* Fail closed: a LeakError if a provider token that is not a synthetic is *)
(* left.                                                                   *)
AssertNoProviderSecret ==
  /\ pc = "check"
  /\ pc' = IF \E p \in ToSet(Patterns) : \E i \in DOMAIN scrubbed :
                 Has(scrubbed[i].written, Shape[p] \ Synthetics(p))
            THEN "leak" ELSE "done"
  /\ UNCHANGED <<original, scrubbed, todo, pattern, replaced, paths>>

Next ==
  \/ Collect \/ ReplaceSecret \/ EndStructured \/ Sweep \/ EndSweep
  \/ ScrubHomes \/ AssertNoProviderSecret

Spec == Init /\ [][Next]_vars

----------------------------------------------------------------------------
(* A config without a private key whose strings carry one secret at most.  *)
Ordinary(text) ==
  \A i \in DOMAIN text :
    /\ ~Has(text[i].written, {"escaped private key"})
    /\ Cardinality({k \in DOMAIN text[i].written : text[i].written[k] \in Real}) <= 1

Flagged(text) == {i \in DOMAIN text : text[i].key # "none"
                    /\ LooksSecret(text[i].key, Parsed(text[i].written)) # "none"}

(* "so the anonymized config still produces the identical finding - but    *)
(* the original bytes are gone" (anonymize.py:17-18), of an ordinary       *)
(* config that is not refused, whatever order its values are replaced in   *)
(* and wherever they occur again: every env entry is flagged for the same  *)
(* reason as before, none of its secret is left, and the report counts     *)
(* each secret that is gone once ("NET-NEW", anonymize.py:162).            *)
FaithfulFixture ==
  pc = "done" /\ Ordinary(original) =>
    LET reason(text, i) == LooksSecret(text[i].key, Parsed(text[i].written))
        gone == {i \in DOMAIN original :
                   Has(original[i].written, Real) /\ ~Has(scrubbed[i].written, Real)}
    IN  /\ \A i \in DOMAIN original : original[i].key # "none" =>
             reason(scrubbed, i) = reason(original, i)
        /\ Flagged(original) \subseteq gone
        /\ Cardinality(gone) = FoldFunction(LAMBDA n, m : n + m, 0, replaced)

----------------------------------------------------------------------------
(* A sentence of the documentation that the code does not keep: "No raw    *)
(* secret survives.  Every value the scanner's own detector flags is       *)
(* replaced" (anonymize.py:13-14).                                         *)
NoRawSecretSurvives ==
  pc = "done" => \A i \in Flagged(original) : ~Has(scrubbed[i].written, Real)
=============================================================================
