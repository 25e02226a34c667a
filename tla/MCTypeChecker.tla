--------------------------- MODULE MCTypeChecker ---------------------------
(* TypeChecker over four scaled-down number kinds, a plain struct P, a      *)
(* generic struct Box, the list and array natives, and declarations that   *)
(* combine every form of expression.                                       *)
EXTENDS TypeChecker

i64 == Number("i64")
u8 == Number("u8")
f64 == Number("f64")
T == Declared(0, "T")
BoxOf(t) == Struct("Box", <<t>>)

MCFloatKinds == {"f64"}
MCKindMax == [k \in {"i64", "i8", "u8", "f64"} |->
                CASE k = "i64" -> 7 [] k = "i8" -> 1 [] k = "u8" -> 3 [] k = "f64" -> 4]
MCKindMin == [k \in {"i64", "i8", "u8", "f64"} |->
                CASE k = "i64" -> -8 [] k = "i8" -> -2 [] k = "u8" -> 0 [] k = "f64" -> -4]

Field(t) == [type |-> t]
MethodOf(t, names, body, public) == [type |-> t, names |-> names, body |-> body, public |-> public]
NoMembers == [x \in {} |-> Field(Unit)]

MCDeclarations ==
  [d \in {"P", "Box"} |->
     CASE d = "P" ->
            [params |-> 0, fields |-> [f \in {"n"} |-> Field(i64)], traits |-> {"Display", "Eq"},
             methods |-> [m \in {"sum"} |-> MethodOf(Fn(<<i64>>, i64), <<"a">>,
                            Bin("+", Get(Var("self"), "n"), Var("a")), TRUE)],
             statics |-> NoMembers]
       [] d = "Box" ->
            [params |-> 1, fields |-> [f \in {"v"} |-> Field(T)], traits |-> {},
             methods |-> [m \in {"get", "hidden"} |->
                            MethodOf(Fn(<< >>, T), << >>, Get(Var("self"), "v"), m = "get")],
             statics |-> [m \in {"of"} |-> MethodOf(Fn(<<T>>, BoxOf(T)), <<"a">>,
                            StructInit("Box", <<[name |-> "v", value |-> Var("a")]>>), TRUE)]]]

MCNatives ==
  [x \in {"@listPop", "@listPush", "@arrCopy", "@arrEqual"} |->
     LET t == Param(0)
     IN  CASE x = "@listPop" -> Fn(<<List(t)>>, t)
           [] x = "@listPush" -> Fn(<<List(t), t>>, Unit)
           [] x = "@arrCopy" -> Fn(<<Array(t, -1)>>, Array(t, -1))
           [] x = "@arrEqual" -> Fn(<<Array(t, -1), Array(t, -1)>>, Bool)]

TextLit == Lit(Str)
BoolLit == Lit(Bool)
Init1(name, f, e) == StructInit(name, <<[name |-> f, value |-> e]>>)

Literals == {Plain(v) : v \in {0, 1, 2, 3, 4, 5, 7, 8, 9, 16}} \cup {Num("u8", 3), Num("f64", 2)}
Few == {Plain(1), Num("u8", 3), Num("f64", 2), TextLit, Var("x")}
Values == Few \cup {BoolLit, Var("xs"), Var("f"), Items(<<Plain(1)>>), Items(<<TextLit>>), Items(<< >>)}

Conditionals == {If(BoolLit, a, b) : a \in Few, b \in Few \cup {None}}
Numeric ==
  Literals \cup {Neg(e) : e \in Literals} \cup {Group(Neg(Plain(2))), Neg(Group(Plain(8))), Neg(Neg(Plain(2)))}
  \cup {Bin(op, a, b) : op \in {"+", "<", "=="}, a, b \in Few \cup {Neg(Plain(1))}}
  \cup Conditionals \cup {Cast(e, "u8") : e \in Few} \cup {Block("x", a, b) : a \in Few \ {Var("x")}, b \in Few}

Calls ==
  {Call(Var("f"), <<e>>) : e \in Values}
  \cup {Call(Var("id"), <<e>>) : e \in Values} \cup {Call(Var("pick"), <<a, b>>) : a, b \in Few \cup {Var("xs")}}
  \cup {Call(Var("apply"), <<g, e>>) : e \in {Plain(1), TextLit},
          g \in {Var("id"), Var("f"), Lambda(<<"y">>, <<Unknown>>, Unknown, Var("y")),
                 Lambda(<<"y">>, <<i64>>, Unknown, Bin("+", Var("y"), Plain(1)))}}
  \cup {Call(Var("@listPop"), <<e>>) : e \in {Var("xs"), Items(<<Plain(1)>>), Var("x")}}
  \cup {Call(Var("@arrEqual"), <<a, b>>) : a, b \in {Var("xs"), Items(<<Plain(1)>>), Items(<<Plain(1), Plain(2)>>)}}
  \cup {Call(Var("@arrCopy"), <<Items(<<Plain(1), Plain(2)>>)>>)}
  \cup {Call(Get(Var("Box"), "of"), <<e>>) : e \in Few}
  \cup {Call(Get(Var("b"), m), << >>) : m \in {"get", "hidden"}}
  \cup {Call(Get(Init1("P", "n", Plain(1)), "sum"), <<e>>) : e \in Few}

Structs ==
  {Init1(name, f, e) : name \in {"P", "Box"}, f \in {"n", "v"}, e \in Few}
  \cup {Get(Var("b"), f) : f \in {"v", "n"}} \cup {Get(Init1("Box", "v", e), "v") : e \in Few}

Lambdas ==
  {Lambda(<<"y">>, <<t>>, r, e) : t, r \in {Unknown, i64, Str},
     e \in {Var("y"), Plain(1), Bin("+", Var("y"), TextLit), Bin("+", Var("y"), Plain(1))}}

Anything ==
  Numeric \cup Calls \cup Structs \cup Lambdas
  \cup {Items(<<a, b>>) : a, b \in Few \cup {Neg(Plain(1))}}
  \cup {IndexGet(Var("xs"), i) : i \in {Plain(0), Plain(2), Num("u8", 3), Num("f64", 2)}}
  \cup {Interp(e) : e \in Values \cup {Init1("P", "n", Plain(1)), Init1("Box", "v", Plain(1))}}
  \cup {Logical("and", a, b) : a, b \in {BoolLit, Var("x")}} \cup {Logical("nullish", a, b) : a, b \in Few}
  \cup {Not(Var("x")), Var("id"), Var("xs"), Var("@listPop")}

Declared_ ==
  {Let(x, Unknown, e) : x \in {"x"}, e \in Few \cup {Cast(Plain(1), "u8"), Var("@listPop"), BoolLit}}
  \cup {Let("x", t, e) : t \in {i64, u8, f64, Number("i8")}, e \in Numeric}
  \cup {Let("xs", t, e) : t \in {List(i64), List(u8), Array(u8, 1), Array(f64, 2), Unknown, List(Str)},
          e \in {Items(<< >>), Items(<<Plain(1)>>), Items(<<Plain(1), Num("f64", 2)>>), Items(<<TextLit>>),
                 Call(Var("@arrCopy"), <<Items(<<Plain(1), Plain(2)>>)>>)}}
  \cup {Let("f", t, e) : t \in {Unknown, Fn(<<i64>>, i64), Fn(<<Str>>, Str), Fn(<<i64>>, Str)},
          e \in Lambdas \cup {Var("id"), Var("f"), Call(Var("id"), <<Var("f")>>)}}
  \cup {Let("b", t, e) : t \in {Unknown, BoxOf(i64), BoxOf(f64), BoxOf(List(i64)), BoxOf(Fn(<<i64>>, i64))},
          e \in {Init1("Box", "v", v) : v \in Values \cup Lambdas}
                \cup {Call(Get(Var("Box"), "of"), <<v>>) : v \in Values}}

Generic ==
  {Function("id", 1, <<"a">>, <<T>>, T, e) :
     e \in {Var("a"), Plain(1), Var("x"), Bin("+", Var("a"), Var("a")), Call(Var("id"), <<Var("a")>>),
            If(BoolLit, Var("a"), Var("a")), Get(Init1("Box", "v", Var("a")), "v"),
            IndexGet(Items(<<Var("a")>>), Plain(0)), Call(Get(Var("Box"), "of"), <<Var("a")>>)}}
  \cup {Function("pick", 1, <<"a", "b">>, <<T, T>>, T, e) : e \in {Var("b"), If(BoolLit, Var("a"), Var("b"))}}
  \cup {Function("apply", 2, <<"g", "a">>, <<Fn(<<T>>, Declared(1, "U")), T>>, r, e) :
          r \in {T, Declared(1, "U")}, e \in {Call(Var("g"), <<Var("a")>>), Var("a")}}

Stored_ ==
  {Assign("x", e) : e \in Numeric} \cup {IndexSet(Var("xs"), Plain(0), e) : e \in Few}
  \cup {Call(Var("@listPush"), <<Var("xs"), e>>) : e \in Values} \cup {Set(Var("b"), "v", e) : e \in Values \cup Lambdas}

First ==
  Generic
  \cup {Let("x", Unknown, e) : e \in {Plain(1), Num("f64", 2), TextLit, Cast(Plain(1), "u8"), Var("@listPop")}}
  \cup {d \in Declared_ : d.name = "xs"}
  \cup {Let("f", t, e) : t \in {Unknown, Fn(<<i64>>, i64), Fn(<<Str>>, Str)}, e \in Lambdas}
  \cup {Let("b", t, Init1("Box", "v", v)) : t \in {Unknown, BoxOf(i64), BoxOf(f64), BoxOf(Fn(<<i64>>, i64))},
                                              v \in Few \cup Lambdas \cup {Items(<<Plain(1)>>)}}

Second ==
  Declared_ \cup Generic \cup {Let("z", Unknown, e) : e \in Anything}
  \cup {Let("z", i64, e) : e \in Anything} \cup {Expression(e) : e \in Stored_}

MCEnterable == <<First, Second>>
=============================================================================
