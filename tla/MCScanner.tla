----------------------------- MODULE MCScanner -----------------------------
(* Scanner on all short texts, and on programs with interpolated strings   *)
(* in the placeholders of others, as deep as they may be.                  *)
EXTENDS Scanner

MCLetters == {"a", "n", "i", "f", "u", "U"}
MCDigits == {"1", "8"}
MCLower == "U" :> "u"
MCKeywords == {<<"i", "f">>}
MCSuffixes == {<<"u", "8">>}

Words == {<<"i", "f">>, <<"i", "f", "1">>, <<"@", "a">>, <<"1", ".", "8">>, <<"1", "U", "8">>}
Strings == SeqOf({"a", "{", "}", "\"", "\\", "newline"}, 2)
Short == {<< >>, <<"\"">>, <<"{">>, <<"}">>, <<"\\">>, <<"{", "}">>, <<"{", "{">>}

Simple == {Word(<<"a">>), Str(<<"}">>), Str(<<"\"">>), Interp(<<<<"{">>>>, << >>)}
Filled == {<<i>> : i \in Simple} \cup {<<Braced(<<i>>)>> : i \in Simple} \cup {<<Word(<<"a">>), Braced(<< >>)>>}
One == {Interp(<<t, u>>, <<p>>) : t, u \in Short, p \in Filled}
Two == {Interp(<<t, u, <<"a">>>>, <<p, q>>) : t, u \in Short, p, q \in Filled}
Nested == {Interp(<<t, u>>, <<<<Braced(<<i>>), Word(<<"a">>)>>>>) : t, u \in {<< >>, <<"\"">>, <<"}">>}, i \in One}

MCPrograms ==
  {<<i>> : i \in {Word(w) : w \in Words} \cup {Str(s) : s \in Strings} \cup {Interp(<<s>>, << >>) : s \in Strings}
                 \cup One \cup Two \cup Nested}
  \cup {<<Word(w), Braced(<<i>>), Word(w)>> : w \in Words, i \in Simple}

MCTexts ==
  SeqOf({"a", "1", "8", "u", ".", "\"", "{", "}", "$", "\\", "newline", " ", "/", "=", "?"}, 3)
  \cup SeqOf({"a", "\"", "{", "}", "$", "newline", "\\", "/"}, 4)
  \cup {<<"$", "\"", "{">> \o s : s \in SeqOf({"\"", "{", "}", "$"}, 6)}
=============================================================================
