------------------------------ MODULE MCSession ------------------------------
(* Session with two values of one type and one of another, so that both a  *)
(* changed value and a changed type can be seen.                           *)
EXTENDS Session

MCValue == {[type |-> "i64", n |-> 1], [type |-> "i64", n |-> 2], [type |-> "string", n |-> 1]}
=============================================================================
