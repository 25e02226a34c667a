------------------------------ MODULE Scanner ------------------------------
(***************************************************************************)
(* The scanner (src/src/scanner.c): a text is cut into tokens, one per     *)
(* step.  An interpolated string $"a{x}b" is several tokens around those   *)
(* of its placeholders, so the scanner counts the braces that are open in  *)
(* each placeholder.  The parser decodes the text of the literals later    *)
(* (stringLiteral in src/src/parser.c); it is here because what ends a     *)
(* text and what the text means have to agree.                             *)
(***************************************************************************)
EXTENDS Integers, SequencesExt, TLC

CONSTANTS
  Texts,           \* texts to be scanned: a set of sequences of characters
  Programs,        \* what may be written: a set of sequences of items, see Spell
  Letters, Digits, \* characters of names and numbers
  Lower,           \* upper case letter -> lower case letter
  Keywords,        \* sequences of letters that are no names
  NumberSuffixes,  \* the names of the number kinds
  MaxInterpDepth   \* how deep placeholders may be nested

VARIABLES
  text,     \* the characters
  written,  \* the program that the text spells, or << >>
  scanner,  \* [at, line, braces]: the next character, its line, and for each
            \* open placeholder the braces that are open in it
  tokens    \* Seq of [type, from, to, line]

vars == <<text, written, scanner, tokens>>

Char(i) == IF i <= Len(text) THEN text[i] ELSE "end"
IsAlpha(c) == c \in Letters
IsDigit(c) == c \in Digits
RunEnd(i, chars) == Min({j \in i..Len(text) + 1 : Char(j) \notin chars})
LineEnd(i) == Min({j \in i..Len(text) + 1 : Char(j) \in {"newline", "end"}})

----------------------------------------------------------------------------
RECURSIVE SkipWhitespace(_), SkipText(_, _)
SkipWhitespace(s) ==
  CASE Char(s.at) = "newline" -> SkipWhitespace([s EXCEPT !.at = @ + 1, !.line = @ + 1])
    [] Char(s.at) = " " -> SkipWhitespace([s EXCEPT !.at = @ + 1])
    [] Char(s.at) \o Char(s.at + 1) \in {"//", "#!"} -> SkipWhitespace([s EXCEPT !.at = LineEnd(s.at)])
    [] OTHER -> s

(* The text of a literal, up to its quote or, in an interpolated string,   *)
(* to a brace that is not doubled.                                         *)
SkipText(s, isInterp) ==
  LET here == IF isInterp /\ Char(s.at) = "{" THEN s.at + 1 ELSE s.at
      length == IF Char(here) = "\\" /\ Char(here + 1) # "end" THEN 2 ELSE 1
      newlines == IF Char(here) = "newline" THEN 1 ELSE 0
  IN  IF Char(s.at) \in {"\"", "end"} \/ (here > s.at /\ Char(here) # "{") THEN s
      ELSE SkipText([s EXCEPT !.at = here + length, !.line = @ + newlines], isInterp)

(* A result: the type of the token and the scanner after it.               *)
Makes(type, s) == [type |-> type, s |-> s]
Passing(s, n) == [s EXCEPT !.at = @ + n]

Identifier(s) ==
  LET end == RunEnd(s.at + 1, Letters \cup Digits)
  IN  Makes(IF SubSeq(text, s.at, end - 1) \in Keywords THEN "keyword" ELSE "identifier", [s EXCEPT !.at = end])

SuffixesAt(i) ==
  {x \in NumberSuffixes : \A k \in DOMAIN x :
     Char(i + k - 1) = x[k] \/ (k = 1 /\ Char(i) \in DOMAIN Lower /\ Lower[Char(i)] = x[1])}

Number(s) ==
  LET whole == RunEnd(s.at, Digits)
      end == IF Char(whole) = "." /\ IsDigit(Char(whole + 1)) THEN RunEnd(whole + 1, Digits) ELSE whole
      suffixes == SuffixesAt(end)
  IN  IF suffixes = {} THEN Makes("number", [s EXCEPT !.at = end])
      ELSE Makes("suffixed number", [s EXCEPT !.at = end + Len(CHOOSE x \in suffixes : TRUE)])

String(s) ==
  LET e == SkipText(Passing(s, 1), FALSE)
  IN  IF Char(e.at) = "end" THEN Makes("error", e) ELSE Makes("string", Passing(e, 1))

(* From after what opens the segment to the brace or quote that closes it. *)
InterpSegment(s, placeholder, end) ==
  LET e == SkipText(s, TRUE)
  IN  CASE Char(e.at) = "end" -> Makes("error", e)
        [] Char(e.at) = "\"" -> Makes(end, Passing(e, 1))
        [] Char(e.at) = "{" /\ Len(e.braces) = MaxInterpDepth -> Makes("error", Passing(e, 1))
        [] OTHER -> Makes(placeholder, [Passing(e, 1) EXCEPT !.braces = Append(@, 0)])

OpenBrace(s) ==
  Makes("{", [Passing(s, 1) EXCEPT !.braces = [i \in DOMAIN @ |-> IF i = Len(@) THEN @[i] + 1 ELSE @[i]]])

(* Mutant: the first closing brace ends the placeholder.                   *)
CloseAnyBrace(s) ==
  IF s.braces = << >> THEN Makes("}", Passing(s, 1))
  ELSE InterpSegment([Passing(s, 1) EXCEPT !.braces = Front(@)], "interp middle", "interp end")

CloseBrace(s) ==
  IF s.braces = << >> THEN Makes("}", Passing(s, 1))
  ELSE IF Last(s.braces) = 0
    THEN InterpSegment([Passing(s, 1) EXCEPT !.braces = Front(@)], "interp middle", "interp end")
  ELSE Makes("}", [Passing(s, 1) EXCEPT !.braces[Len(s.braces)] = @ - 1])

Single == {"(", ")", "[", "]", ";", ",", ":", ".", "-", "+", "/", "*", "!", "=", "<", ">", "%"}
Double == {"??", "&&", "||", "!=", "==", "=>", "<=", ">="}

Token(s) ==
  LET c == Char(s.at)
      d == Char(s.at + 1)
  IN  CASE c = "end" -> Makes("EOF", s)
        [] IsAlpha(c) \/ (c = "@" /\ IsAlpha(d)) -> Identifier(s)
        [] c = "$" /\ d = "\"" -> InterpSegment(Passing(s, 2), "interp start", "interp string")
        [] IsDigit(c) -> Number(s)
        [] c = "{" -> OpenBrace(s)
        [] c = "}" -> CloseBrace(s)
        [] c = "\"" -> String(s)
        [] c \o d \in Double -> Makes(c \o d, Passing(s, 2))
        [] c \in Single /\ c \o d \notin Double -> Makes(c, Passing(s, 1))
        [] OTHER -> Makes("error", Passing(s, 1))

----------------------------------------------------------------------------
(* stringLiteral, and what interpText and its callers cut off before it.   *)

Escapes == "n" :> "newline" @@ "r" :> "return" @@ "t" :> "tab" @@ "\"" :> "\"" @@ "\\" :> "\\"

RECURSIVE Decode(_, _)
Decode(cs, isInterp) ==
  LET c == Head(cs)
      d == IF Len(cs) > 1 THEN cs[2] ELSE "end"
      reads(n, ok, out) ==
        LET r == Decode(SubSeq(cs, n + 1, Len(cs)), isInterp) IN [ok |-> ok /\ r.ok, chars |-> out \o r.chars]
  IN  CASE cs = << >> -> [ok |-> TRUE, chars |-> << >>]
        [] c = "\\" /\ d \in DOMAIN Escapes -> reads(2, TRUE, <<Escapes[d]>>)
        [] c = "\\" /\ d \notin DOMAIN Escapes \cup {"end"} -> reads(2, FALSE, << >>)
        [] isInterp /\ c \in {"{", "}"} -> IF d = c THEN reads(2, TRUE, <<c>>) ELSE reads(1, FALSE, << >>)
        [] OTHER -> reads(1, TRUE, <<c>>)

Value(t) ==
  LET inner(skip) == SubSeq(text, t.from + skip, t.to - 1)
  IN  CASE t.type = "string" -> Decode(inner(1), FALSE)
        [] t.type \in {"interp string", "interp start"} -> Decode(inner(2), TRUE)
        [] t.type \in {"interp middle", "interp end"} -> Decode(inner(1), TRUE)
        [] OTHER -> [ok |-> TRUE, chars |-> SubSeq(text, t.from, t.to)]

----------------------------------------------------------------------------
(* What is written: names and numbers, strings, items in braces, and       *)
(* interpolated strings of n + 1 texts around n placeholders.              *)

Word(cs) == [k |-> "word", chars |-> cs]
Str(cs) == [k |-> "string", chars |-> cs]
Braced(items) == [k |-> "braced", items |-> items]
Interp(texts, placeholders) == [k |-> "interp", texts |-> texts, placeholders |-> placeholders]

Escaped(cs, isInterp) ==
  FlattenSeq([i \in DOMAIN cs |->
    CASE cs[i] \in {"\"", "\\"} -> <<"\\", cs[i]>>
      [] isInterp /\ cs[i] \in {"{", "}"} -> <<cs[i], cs[i]>>
      [] OTHER -> <<cs[i]>>])

RECURSIVE Spell(_), Reading(_)
Spell(items) ==
  FlattenSeq([i \in DOMAIN items |->
    LET item == items[i]
    IN  <<" ">> \o
        CASE item.k = "word" -> item.chars
          [] item.k = "string" -> <<"\"">> \o Escaped(item.chars, FALSE) \o <<"\"">>
          [] item.k = "braced" -> <<"{">> \o Spell(item.items) \o <<"}">>
          [] item.k = "interp" ->
               <<"$", "\"">> \o Escaped(item.texts[1], TRUE)
                 \o FlattenSeq([j \in DOMAIN item.placeholders |->
                      <<"{">> \o Spell(item.placeholders[j]) \o <<"}">> \o Escaped(item.texts[j + 1], TRUE)])
                 \o <<"\"">>])

WordType(cs) ==
  CASE cs \in Keywords -> "keyword"
    [] IsDigit(Head(cs)) -> IF IsDigit(Last(cs)) /\ \A i \in DOMAIN cs : cs[i] \in Digits \cup {"."}
                              THEN "number" ELSE "suffixed number"
    [] OTHER -> "identifier"

Reading(items) ==
  LET one(type, cs) == <<[type |-> type, chars |-> cs]>>
  IN  FlattenSeq([i \in DOMAIN items |->
        LET item == items[i]
            n == Len(item.placeholders)
        IN  CASE item.k = "word" -> one(WordType(item.chars), item.chars)
              [] item.k = "string" -> one("string", item.chars)
              [] item.k = "braced" -> one("{", <<"{">>) \o Reading(item.items) \o one("}", <<"}">>)
              [] item.k = "interp" /\ n = 0 -> one("interp string", item.texts[1])
              [] item.k = "interp" /\ n > 0 ->
                   one("interp start", item.texts[1])
                   \o FlattenSeq([j \in 1..n |-> Reading(item.placeholders[j])
                                    \o one(IF j = n THEN "interp end" ELSE "interp middle", item.texts[j + 1])])])

----------------------------------------------------------------------------
Init ==
  /\ \/ written \in Programs /\ text = Spell(written)
     \/ written = << >> /\ text \in Texts
  /\ scanner = [at |-> 1, line |-> 1, braces |-> << >>]
  /\ tokens = << >>

AtEnd == tokens # << >> /\ Last(tokens).type = "EOF"

ScanToken ==
  LET s == SkipWhitespace(scanner)
      r == Token(s)
  IN  /\ ~AtEnd
      /\ scanner' = r.s
      /\ tokens' = Append(tokens, [type |-> r.type, from |-> s.at, to |-> r.s.at - 1, line |-> r.s.line])
      /\ UNCHANGED <<text, written>>

Next == ScanToken

Spec == Init /\ [][Next]_vars

----------------------------------------------------------------------------
(* Properties.                                                             *)

(* What is between two tokens says nothing: blanks and comments.           *)
IsGap(from, to) ==
  \A i \in from..to :
    \/ text[i] \in {" ", "newline"}
    \/ \E j \in from..i : /\ j < to /\ text[j] \o text[j + 1] \in {"//", "#!"}
                          /\ \A k \in j..i : text[k] # "newline"

(* Newlines; one after a backslash is not counted (and is refused later).  *)
Newlines(to) == Cardinality({i \in 1..to : text[i] = "newline"})
EscapesNewline == \E i \in 1..Len(text) - 1 : text[i] = "\\" /\ text[i + 1] = "newline"

CoversTheText ==
  /\ \A i \in DOMAIN tokens :
       LET before == IF i = 1 THEN 0 ELSE tokens[i - 1].to
       IN  /\ before < tokens[i].from /\ IsGap(before + 1, tokens[i].from - 1)
           /\ EscapesNewline \/ tokens[i].line = 1 + Newlines(tokens[i].to)
  /\ AtEnd => Last(tokens).from = Len(text) + 1

(* Every character is in one token or between two, each token knows the    *)
(* line it ends in, and what was written is what is read: the tokens of a  *)
(* program are its items, and its literals decode to what they stand for,  *)
(* whatever quotes and braces are in them and around them.                 *)
TextIsReadBack ==
  /\ CoversTheText
  /\ AtEnd /\ written # << >> =>
       /\ \A i \in DOMAIN tokens : Value(tokens[i]).ok
       /\ [i \in 1..Len(tokens) - 1 |-> [type |-> tokens[i].type, chars |-> Value(tokens[i]).chars]] = Reading(written)
=============================================================================
