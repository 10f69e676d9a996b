------------------------------- MODULE Jsonc --------------------------------
(***************************************************************************)
(* The scanner that turns the JSONC of VS Code and Zed into JSON           *)
(* (adapters/jsonc.py): one pass drops comments, the next one trailing     *)
(* commas, one character at a time, neither inside a string.               *)
(*                                                                         *)
(* The texts are built from lexemes, which the scanner does not know, so   *)
(* that what it should leave can be said without it.                       *)
(***************************************************************************)
EXTENDS Integers, SequencesExt

CONSTANT MaxLexemes  \* bound: lexemes in a text

ASSUME JsoncAssumption == MaxLexemes \in Nat

Blank == {"space", "newline"}
Quote == {"double", "single"}

(* Texts are made of lexemes, and a lexeme is made of characters, which    *)
(* are written by their names.  Strings hold what means something outside  *)
(* of them; so do comments.                                                *)
Spelling ==
  [comma    |-> <<"comma">>,
   close    |-> <<"brace">>,
   blank    |-> <<"space">>,
   newline  |-> <<"newline">>,
   url      |-> <<"double", "slash", "slash", "double">>,
   list     |-> <<"double", "comma", "brace", "double">>,
   escaped  |-> <<"double", "backslash", "double", "comma", "brace", "double">>,
   other    |-> <<"single", "double", "slash", "star", "single">>,
   line     |-> <<"slash", "slash", "double", "newline">>,
   block    |-> <<"slash", "star", "slash", "star", "slash">>,
   quoted   |-> <<"slash", "star", "double", "star", "slash">>,
   unclosed |-> <<"double", "comma", "brace", "backslash">>,
   lastline |-> <<"slash", "slash", "comma", "brace">>,
   openend  |-> <<"slash", "star", "comma", "brace">>]

Lexeme == DOMAIN Spelling
OnlyLast == {"unclosed", "lastline", "openend"}

Texts == {t \in SeqOf(Lexeme, MaxLexemes) : \A k \in DOMAIN t : t[k] \in OnlyLast => k = Len(t)}

Spelled(t) == FlattenSeq([k \in DOMAIN t |-> Spelling[t[k]]])

VARIABLES
  lexemes,  \* history: what the text was built from
  text,     \* the text this pass reads
  pos,      \* its next character
  quote,    \* the quote of the string pos is in, "none" outside
  out,      \* what this pass has written
  pass      \* "comments", "commas" or "done"

stripVars == <<lexemes, text, pos, quote, out, pass>>

StripInit ==
  /\ lexemes \in Texts
  /\ text = Spelled(lexemes)
  /\ pos = 1 /\ quote = "none" /\ out = << >> /\ pass = "comments"

----------------------------------------------------------------------------
More == pass # "done" /\ pos <= Len(text)
Follows(c) == pos < Len(text) /\ text[pos + 1] = c

(* The first of the positions there is from k on, or the end of the text.  *)
FirstFrom(k, positions) ==
  LET found == {j \in positions : k <= j}
  IN  IF found = {} THEN Len(text) + 1 ELSE CHOOSE j \in found : \A h \in found : j <= h

(* Mutant: a backslash is a character like any other.                      *)
InStringUnescaped ==
  /\ More /\ quote # "none"
  /\ out' = Append(out, text[pos]) /\ pos' = pos + 1
  /\ quote' = IF text[pos] = quote THEN "none" ELSE quote
  /\ UNCHANGED <<lexemes, text, pass>>

(* Both passes copy a string as it is, with what a backslash precedes.     *)
InString ==
  /\ More /\ quote # "none"
  /\ IF text[pos] = "backslash" /\ pos < Len(text)
     THEN out' = out \o <<text[pos], text[pos + 1]>> /\ pos' = pos + 2 /\ UNCHANGED quote
     ELSE /\ out' = Append(out, text[pos]) /\ pos' = pos + 1
          /\ quote' = IF text[pos] = quote THEN "none" ELSE quote
  /\ UNCHANGED <<lexemes, text, pass>>

OpenString ==
  /\ More /\ quote = "none" /\ text[pos] \in Quote
  /\ quote' = text[pos]
  /\ out' = Append(out, text[pos]) /\ pos' = pos + 1
  /\ UNCHANGED <<lexemes, text, pass>>

AtLine  == pass = "comments" /\ text[pos] = "slash" /\ Follows("slash")
AtBlock == pass = "comments" /\ text[pos] = "slash" /\ Follows("star")

(* A line comment ends before its newline ...                              *)
SkipLine ==
  /\ More /\ quote = "none" /\ AtLine
  /\ pos' = FirstFrom(pos + 2, {j \in DOMAIN text : text[j] = "newline"})
  /\ UNCHANGED <<lexemes, text, quote, out, pass>>

(* ... and a block comment after its star and slash.                       *)
SkipBlock ==
  /\ More /\ quote = "none" /\ AtBlock
  /\ pos' = 2 + FirstFrom(pos + 2, {j \in 1 .. Len(text) - 1 :
                                      text[j] = "star" /\ text[j + 1] = "slash"})
  /\ UNCHANGED <<lexemes, text, quote, out, pass>>

AtTrailingComma ==
  /\ pass = "commas" /\ text[pos] = "comma"
  /\ LET next == FirstFrom(pos + 1, {j \in DOMAIN text : text[j] \notin Blank})
     IN  next <= Len(text) /\ text[next] = "brace"

DropComma ==
  /\ More /\ quote = "none" /\ AtTrailingComma
  /\ pos' = pos + 1
  /\ UNCHANGED <<lexemes, text, quote, out, pass>>

Copy ==
  /\ More /\ quote = "none" /\ text[pos] \notin Quote
  /\ ~AtLine /\ ~AtBlock /\ ~AtTrailingComma
  /\ out' = Append(out, text[pos]) /\ pos' = pos + 1
  /\ UNCHANGED <<lexemes, text, quote, pass>>

(* The second pass reads what the first one wrote.                         *)
NextPass ==
  /\ pass # "done" /\ pos > Len(text)
  /\ pass' = IF pass = "comments" THEN "commas" ELSE "done"
  /\ text' = out
  /\ pos' = 1 /\ quote' = "none" /\ out' = << >>
  /\ UNCHANGED lexemes

StripNext ==
  \/ InString \/ OpenString \/ SkipLine \/ SkipBlock \/ DropComma \/ Copy
  \/ NextPass

StripSpec == StripInit /\ [][StripNext]_stripVars

----------------------------------------------------------------------------
(* What should be left: no comment, but the newline of a line comment, and *)
(* no comma that only blanks, by then, separate from a closing bracket.    *)
CommentLeaves(x) ==
  CASE x \in {"block", "quoted", "lastline", "openend"} -> << >>
    [] x = "line" -> <<"newline">>
    [] OTHER -> <<x>>

Uncommented == FlattenSeq([k \in DOMAIN lexemes |-> CommentLeaves(lexemes[k])])

Trails(t, k) ==
  /\ t[k] = "comma"
  /\ \E j \in k + 1 .. Len(t) :
       t[j] = "close" /\ \A h \in k + 1 .. j - 1 : t[h] \in {"blank", "newline"}

Untrailed(t) == FlattenSeq([k \in DOMAIN t |-> IF Trails(t, k) THEN << >> ELSE <<t[k]>>])

(* "so a // or ,} inside a JSON string is never touched" (jsonc.py:8-9):   *)
(* for every text the two passes leave what they should, to the character. *)
StripsExactly == pass = "done" => text = Spelled(Untrailed(Uncommented))
=============================================================================
