----------------------------- MODULE MCNatives -----------------------------
(* Natives on short texts of few characters, so that matches overlap, meet *)
(* and lie at the ends, and with ints that a repeated text exceeds.        *)
EXTENDS Natives

MCDigits == {"1"}
MCBlanks == {" "}

AB(n) == SeqOf({"a", "b"}, n)
A(name) == [Idle EXCEPT !.name = name]

MCCalls ==
  {[A(f) EXCEPT !.s = s, !.t = t] : f \in {"@strSplit", "@strIndexOf", "@strStartsWith", "@strEndsWith"},
                                    s \in AB(5), t \in AB(2)}
  \cup {[A(f) EXCEPT !.s = s, !.t = t, !.u = u] :
          f \in {"@strReplace", "@strReplaceAll"}, s \in AB(5), t \in AB(2), u \in AB(2)}
  \cup {[A("@listJoin") EXCEPT !.texts = ss, !.t = t] :
          ss \in SeqOf({<< >>, <<"a">>, <<"a", "b">>}, 3), t \in AB(2)}
  \cup {[A("@strTrim") EXCEPT !.s = s] : s \in SeqOf({" ", "a"}, 5)}
  \cup {[A("@strRepeat") EXCEPT !.s = s, !.n = n] : s \in AB(3), n \in -1..IntMax + 1}
  \cup {[A(f) EXCEPT !.s = s] : f \in {"@parseInt", "@parseFloat"}, s \in SeqOf({"1", "-", ".", "e", " "}, 5)}
  \cup {[A("@listInsert") EXCEPT !.s = s, !.t = <<"x">>, !.n = n] : s \in AB(3), n \in -1..4}
  \cup {[A("@listRemove") EXCEPT !.s = s, !.n = n] : s \in AB(3), n \in -1..4}
  \cup {[A(f) EXCEPT !.s = s, !.m = m, !.n = n] : f \in {"@listSlice", "@strSlice"}, s \in AB(3), m, n \in -1..4}
  \cup {[A("@listReverse") EXCEPT !.s = s] : s \in AB(4)}
  \cup {[A("@listConcat") EXCEPT !.s = s, !.t = t] : s, t \in AB(2)}
=============================================================================
