------------------------------ MODULE MCParser ------------------------------
(* Parser on programs that show every construct, on everything one edit    *)
(* away from them, and on all short expressions.                           *)
EXTENDS Parser

MCIdentifiers == {"x", "y", "@x"}
MCReserved == {"@x"}

Examples ==
  {<<"let", "x", ":", "[", "x", ";", "num", "]", "=", "[", "num", ",", "x", "]", ";">>,
   <<"var", "x", ":", "fun", "(", "x", ",", "y", ")", "=>", "x", "[", "y", ",", "x", "]", ";">>,
   <<"fun", "x", "[", "y", "]", "(", "x", ":", "y", ",", "y", ")", ":", "y", "=", "x", ";", "x", ";">>,
   <<"fun", "x", "(", ")", "{", "let", "y", "=", "num", ";", "return", "y", ";", "}", "x", "(", ")", ";">>,
   <<"let", "x", "=", "fun", "(", "y", ")", "{", "y", "}", ";">>,
   <<"struct", "x", "[", "y", "]", "{", "pub", "var", "x", ":", "y", ";", "let", "y", ";", "}", "x", ";">>,
   <<"impl", "x", "{", "pub", "fun", "y", "(", "self", ",", "x", ")", "{", "self", ".", "x", "=", "x", "}", "}">>,
   <<"impl", "x", "for", "y", "{", "fun", "x", "(", ")", "=", "num", ";", "}">>,
   <<"trait", "x", ":", "y", "{", "fun", "x", "(", "self", ")", ":", "x", ";", "fun", "y", "(", ")", ";", "}">>,
   <<"type", "x", "[", "y", "]", "=", "[", "y", "]", ";", "x", ";">>,
   <<"for", "(", "var", "x", "=", "num", ";", "x", "<", "y", ";", "x", "=", "y", ")", "{", "break", ";", "}">>,
   <<"for", "(", ";", ";", ")", "while", "(", "x", ")", "{", "continue", ";", "}">>,
   <<"if", "(", "x", ")", "return", ";", "else", "if", "(", "y", ")", "x", ";", "else", "{", "y", "}">>,
   <<"if", "(", "x", ")", "{", "x", ";", "}", "(", "y", ")", ";">>,
   <<"let", "x", "=", "if", "(", "x", ")", "{", "y", "}", "else", "y", "+", "num", ";">>,
   <<"x", "=", "y", ".", "x", "[", "num", "]", "=", "x", "as", "y", ";">>,
   <<"x", "=", "y", "{", "x", ":", "num", ",", "y", ":", "(", ")", ",", "}", ";">>,
   <<"{", "x", ";", "{", "y", "}", "if", "(", "x", ")", "{", "x", ";", "}", "}", "x", ";">>,
   <<"x", "(", "istart", "x", "imiddle", "y", "+", "x", "iend", ",", "str", ")", ";">>}

Inserted == {"}", "{", ")", "(", "]", ";", ",", "=", "fun", "struct", "if", "else", "error", "x", "@x", "-", "badstr", "self"}

Without(ts, i) == SubSeq(ts, 1, i - 1) \o SubSeq(ts, i + 1, Len(ts))
EditsOf(ts) ==
  UNION {{Without(ts, i), SubSeq(ts, 1, i)}
         \cup {SubSeq(ts, 1, i) \o <<t>> \o SubSeq(ts, i + 1, Len(ts)) : t \in Inserted}
         \cup {[ts EXCEPT ![i] = t] : t \in Inserted}
         \cup (IF i = Len(ts) THEN {} ELSE {[ts EXCEPT ![i] = ts[i + 1], ![i + 1] = ts[i]]}) : i \in DOMAIN ts}

Before == {<<>>, <<"-">>, <<"if", "(", "x", ")">>}
Operators == {<<"==">>, <<"<">>, <<"+">>, <<"*">>, <<"and">>, <<"or">>, <<"??">>, <<"=">>, <<"as", "y", "+">>, <<"else">>,
              <<".", "x", "=">>, <<"(", ")", "[">>}
Expressions ==
  {p \o <<"x">> \o o1 \o q \o <<"y">> \o o2 \o <<"x">> \o o3 \o <<"y">> :
     p, q \in Before, o1, o2, o3 \in Operators}

(* Tokens the scanner can produce: the parts of an interpolated string      *)
(* follow its start, with the braces of each placeholder closed between.   *)
RECURSIVE Scannable(_, _)
Scannable(ts, open) ==
  LET top == open[Len(open)]
      set(n) == Scannable(Tail(ts), [open EXCEPT ![Len(open)] = n])
  IN  ts = << >>
      \/ CASE Head(ts) = "istart" -> Scannable(Tail(ts), Append(open, 0))
           [] Head(ts) \in {"imiddle", "iend"} ->
                /\ Len(open) > 1 /\ top = 0
                /\ Scannable(Tail(ts), IF Head(ts) = "iend" THEN SubSeq(open, 1, Len(open) - 1) ELSE open)
           [] Head(ts) = "{" -> set(top + 1)
           [] Head(ts) = "}" -> (Len(open) > 1 => top > 0) /\ set(top - 1)
           [] OTHER -> set(top)

MCFiles ==
  {Append(ts, "EOF") :
     ts \in Examples \cup {e \in UNION {EditsOf(p) : p \in Examples} : Scannable(e, <<0>>)}
               \cup {<<"x", "=">> \o e \o <<";">> : e \in Expressions}}
=============================================================================
