------------------------------ MODULE Natives ------------------------------
(***************************************************************************)
(* The native functions on texts and lists (src/src/native.c).  One step   *)
(* is one call.  Those that build a text measure it first, allocate that   *)
(* much, and then write: room is the result of the first pass and what is  *)
(* written that of the second.  Lengths are C ints.  A list and an array   *)
(* are sequences, and so is a text.  Positions are whole numbers, as the   *)
(* signatures of the natives demand.                                       *)
(***************************************************************************)
EXTENDS Integers, SequencesExt

CONSTANTS
  Calls,   \* the calls that may be made: [name, s, t, u, texts, m, n]
  Digits, Blanks,
  IntMax   \* the largest int

VARIABLES call, reply

vars == <<call, reply>>

Idle == [name |-> "none", s |-> << >>, t |-> << >>, u |-> << >>, texts |-> << >>, m |-> 0, n |-> 0]

(* A reply: whether there is one, a text or list, texts, a number, and the *)
(* length that was allocated.                                              *)
Refused == [ok |-> FALSE, text |-> << >>, texts |-> << >>, number |-> 0, room |-> 0]
Gives(s) == [Refused EXCEPT !.ok = TRUE, !.text = s, !.room = Len(s)]
Written(room, s) == [Gives(s) EXCEPT !.room = room]
TextList(ss) == [Gives(<< >>) EXCEPT !.texts = ss]
Num(n) == [Gives(<< >>) EXCEPT !.number = n]

AsInt(n) == ((n + IntMax + 1) % (2 * IntMax + 2)) - IntMax - 1

----------------------------------------------------------------------------
(* Texts.  Offsets count from 0.                                           *)

FindBytes(haystack, start, needle) ==
  LET at == {i \in start..Len(haystack) - Len(needle) : SubSeq(haystack, i + 1, i + Len(needle)) = needle}
  IN  IF at = {} THEN -1 ELSE Min(at)

(* @strSplit                                                               *)
RECURSIVE Pieces(_, _, _)
Pieces(s, separator, start) ==
  LET found == FindBytes(s, start, separator)
  IN  IF found < 0 THEN <<SubSeq(s, start + 1, Len(s))>>
      ELSE <<SubSeq(s, start + 1, found)>> \o Pieces(s, separator, found + Len(separator))

Split(s, separator) ==
  IF separator = << >> THEN [i \in DOMAIN s |-> <<s[i]>>] ELSE Pieces(s, separator, 0)

(* replaceMatches: count, measure, and go through the text again.          *)

(* Mutant: the search goes on inside the match.                            *)
AfterMatchOverlapping(at, old) == at + 1

AfterMatch(at, old) == at + Len(old)

RECURSIVE Matches(_, _, _), Rebuild(_, _, _, _, _)
Matches(s, old, start) ==
  LET at == FindBytes(s, start, old)
  IN  IF at < 0 THEN 0 ELSE 1 + Matches(s, old, AfterMatch(at, old))

Rebuild(s, old, replacement, read, matches) ==
  LET next == FindBytes(s, read, old)
  IN  IF matches = 0 THEN SubSeq(s, read + 1, Len(s))
      ELSE SubSeq(s, read + 1, next) \o replacement
             \o Rebuild(s, old, replacement, next + Len(old), matches - 1)

Replace(s, old, replacement, all) ==
  LET found == IF old = << >> THEN 0 ELSE Matches(s, old, 0)
      matches == IF all THEN found ELSE Min({1, found})
      length == Len(s) + matches * (Len(replacement) - Len(old))
  IN  IF matches = 0 THEN Gives(s)
      ELSE IF length >= IntMax THEN Refused
      ELSE Written(length, Rebuild(s, old, replacement, 0, matches))

(* joinStrings: the sum of the lengths is an int.                          *)
Join(texts, separator) ==
  LET between == IF Len(texts) > 1 THEN Len(separator) * (Len(texts) - 1) ELSE 0
      length == FoldSeq(LAMBDA s, sum : sum + Len(s), between, texts)
  IN  Written(AsInt(length),
              FlattenSeq([i \in DOMAIN texts |-> (IF i > 1 THEN separator ELSE << >>) \o texts[i]]))

(* @strTrim                                                                *)
Trim(s) ==
  LET start == Min({i \in 0..Len(s) : i = Len(s) \/ s[i + 1] \notin Blanks})
      end == Max({i \in start..Len(s) : i = start \/ s[i] \notin Blanks})
  IN  Gives(SubSeq(s, start + 1, end))

(* @strSlice: both ends may be the end of the text.                        *)
StringSlice(s, start, end) ==
  IF {start, end} \subseteq 0..Len(s) /\ start <= end THEN Gives(SubSeq(s, start + 1, end)) ELSE Refused

(* @strRepeat: the length is compared before it is computed.               *)
Repeat(s, number) ==
  IF number < 0 THEN Refused
  ELSE IF s = << >> \/ number < 1 THEN Gives(<< >>)
  ELSE IF number * Len(s) > IntMax - 1 THEN Refused
  ELSE Written(AsInt(number * Len(s)), FlattenSeq([i \in 1..number |-> s]))

(* isNumberText.  A result is the offset after what was skipped, or -1.    *)
SkipDigits(s, c) ==
  LET end == Min({i \in c..Len(s) : i = Len(s) \/ s[i + 1] \notin Digits})
  IN  IF c < 0 \/ end = c THEN -1 ELSE end
SkipSign(s, c) == IF c >= 0 /\ c < Len(s) /\ s[c + 1] \in {"+", "-"} THEN c + 1 ELSE c
Next1(s, c, char) == c >= 0 /\ c < Len(s) /\ s[c + 1] = char

IsNumberText(s, decimal) ==
  LET whole == SkipDigits(s, SkipSign(s, 0))
      fraction == IF decimal /\ Next1(s, whole, ".") THEN SkipDigits(s, whole + 1) ELSE whole
      exponent == IF decimal /\ Next1(s, fraction, "e") THEN SkipDigits(s, SkipSign(s, fraction + 1)) ELSE fraction
  IN  exponent = Len(s)

----------------------------------------------------------------------------
(* Lists.                                                                  *)

NilItem == "nil"
InListBounds(list, index) == index \in 0..Len(list)

(* @listInsert: a place at the end, and every item from there moves up.    *)
ListInsert(list, index, item) ==
  LET longer == Append(list, NilItem)
      moved == FoldLeft(LAMBDA l, i : [l EXCEPT ![i + 1] = l[i]], longer,
                        [k \in 1..Len(list) - index |-> Len(list) + 1 - k])
  IN  IF InListBounds(list, index) THEN Gives([moved EXCEPT ![index + 1] = item]) ELSE Refused

(* @listRemove: every item after it moves down.                            *)
ListRemove(list, index) ==
  LET moved == FoldLeft(LAMBDA l, i : [l EXCEPT ![i] = l[i + 1]], list,
                        [k \in 1..Len(list) - index - 1 |-> index + k])
  IN  IF InListBounds(list, index) /\ index # Len(list) THEN Gives(Front(moved)) ELSE Refused

(* @listSlice and @arrSlice: no slice starts at 0, and none is empty.      *)
ListSlice(list, start, end) ==
  IF start > 0 /\ end > 0 /\ InListBounds(list, start) /\ InListBounds(list, end) /\ start < end
    THEN Gives([i \in 1..end - start |-> list[start + i]]) ELSE Refused

Backwards(list) == Gives([i \in DOMAIN list |-> list[Len(list) + 1 - i]])
Concat(a, b) == Gives(a \o b)

(* What the natives that only look say, as a number.                       *)
Truth(b) == Num(IF b THEN 1 ELSE 0)

Answer(c) ==
  CASE c.name = "@strSplit" -> TextList(Split(c.s, c.t))
    [] c.name = "@strReplace" -> Replace(c.s, c.t, c.u, FALSE)
    [] c.name = "@strReplaceAll" -> Replace(c.s, c.t, c.u, TRUE)
    [] c.name \in {"@listJoin", "@arrJoin", "@strConcat"} -> Join(c.texts, c.t)
    [] c.name = "@strTrim" -> Trim(c.s)
    [] c.name = "@strSlice" -> StringSlice(c.s, c.m, c.n)
    [] c.name = "@strRepeat" -> Repeat(c.s, c.n)
    [] c.name = "@strIndexOf" -> Num(FindBytes(c.s, 0, c.t))
    [] c.name = "@strStartsWith" -> Truth(Len(c.t) <= Len(c.s) /\ SubSeq(c.s, 1, Len(c.t)) = c.t)
    [] c.name = "@strEndsWith" -> Truth(Len(c.t) <= Len(c.s) /\ SubSeq(c.s, Len(c.s) - Len(c.t) + 1, Len(c.s)) = c.t)
    [] c.name = "@parseInt" -> Truth(IsNumberText(c.s, FALSE))
    [] c.name = "@parseFloat" -> Truth(IsNumberText(c.s, TRUE))
    [] c.name = "@listInsert" -> ListInsert(c.s, c.n, Head(c.t))
    [] c.name = "@listRemove" -> ListRemove(c.s, c.n)
    [] c.name \in {"@listSlice", "@arrSlice"} -> ListSlice(c.s, c.m, c.n)
    [] c.name \in {"@listReverse", "@arrReverse"} -> Backwards(c.s)
    [] c.name \in {"@listConcat", "@arrConcat"} -> Concat(c.s, c.t)

Init == call = Idle /\ reply = Refused

Call(c) == call = Idle /\ call' = c /\ reply' = Answer(c)

Next == \E c \in Calls : Call(c)

Spec == Init /\ [][Next]_vars

----------------------------------------------------------------------------
(* Properties.                                                             *)

Occurs(needle, s) == \E i \in 0..Len(s) - Len(needle) : SubSeq(s, i + 1, i + Len(needle)) = needle

(* The pieces of s between the separators t, each as early as can be.      *)
ArePieces(pieces, s, t) ==
  /\ FlattenSeq([i \in DOMAIN pieces |-> (IF i > 1 THEN t ELSE << >>) \o pieces[i]]) = s
  /\ \A i \in 1..Len(pieces) - 1 : ~Occurs(t, Front(pieces[i] \o t))
  /\ ~Occurs(t, Last(pieces))

Joined(texts, t) == FlattenSeq([i \in DOMAIN texts |-> IF i = 1 THEN texts[1] ELSE t \o texts[i]])
Signs == {<< >>, <<"+">>, <<"-">>}
DigitRuns(n) == UNION {[1..k -> Digits] : k \in 1..n}
Cat(A, B) == {a \o b : a \in A, b \in B}
Wholes(n) == Cat(Signs, DigitRuns(n))
Floats(n) == Cat(Cat(Wholes(n), {<< >>} \cup Cat({<<".">>}, DigitRuns(n))), {<< >>} \cup Cat({<<"e">>}, Wholes(n)))

Promised(c, r) ==
  CASE c.name = "@strSplit" /\ c.t # << >> -> ArePieces(r.texts, c.s, c.t)
    [] c.name = "@strSplit" /\ c.t = << >> -> FlattenSeq(r.texts) = c.s /\ \A i \in DOMAIN r.texts : Len(r.texts[i]) = 1
    [] c.name = "@strReplaceAll" /\ c.t # << >> -> r.text = Joined(Split(c.s, c.t), c.u)
    [] c.name = "@strReplace" /\ c.t # << >> ->
         IF Occurs(c.t, c.s)
           THEN LET p == Split(c.s, c.t) IN r.text = p[1] \o c.u \o Joined(Tail(p), c.t)
           ELSE r.text = c.s
    [] c.name = "@listJoin" -> r.text = Joined(c.texts, c.t)
    [] c.name = "@strTrim" ->
         /\ \E i, j \in 0..Len(c.s) : /\ r.text = SubSeq(c.s, i + 1, j)
                                      /\ \A k \in 1..i \cup j + 1..Len(c.s) : c.s[k] \in Blanks
         /\ r.text # << >> => Head(r.text) \notin Blanks /\ Last(r.text) \notin Blanks
    [] c.name = "@strIndexOf" -> IF Occurs(c.t, c.s) THEN SubSeq(c.s, r.number + 1, r.number + Len(c.t)) = c.t
                                 ELSE r.number = -1
    [] c.name = "@parseInt" -> (r.number = 1) = (c.s \in Wholes(Len(c.s)))
    [] c.name = "@parseFloat" -> (r.number = 1) = (c.s \in Floats(Len(c.s)))
    [] c.name = "@listInsert" -> r.text = InsertAt(c.s, c.n + 1, Head(c.t))
    [] c.name = "@listRemove" -> r.text = RemoveAt(c.s, c.n + 1)
    [] c.name \in {"@listSlice", "@strSlice"} -> r.text = SubSeq(c.s, c.m + 1, c.n)
    [] c.name = "@listReverse" -> r.text = Reverse(c.s)
    [] OTHER -> TRUE

(* What is measured is what is written, for texts whose length is an int;  *)
(* and a native that answers gives the text or list that it is there for,  *)
(* whatever overlaps, is empty, or lies at an end.                         *)
NativesDoWhatTheyPromise ==
  reply.ok =>
    /\ Len(reply.text) <= IntMax => reply.room = Len(reply.text)
    /\ Promised(call, reply)
=============================================================================
