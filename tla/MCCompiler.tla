----------------------------- MODULE MCCompiler -----------------------------
(***************************************************************************)
(* Modules for model-checking the compiler.                                *)
(***************************************************************************)
EXTENDS Compiler

X == Variable("x")
G == Variable("g")
True == Literal("bool", 1)
One  == Literal("uint", 1)

Conditionals(C, S, T) ==
    {Conditional(c, s, << >>) : c \in C, s \in S}
        \union {Conditional(c, s, <<t>>) : c \in C, s \in S, t \in T}
Binaries(O, S, T) == {Binary(o, s, t) : o \in O, s \in S, t \in T}

Def(name, in, out, body) == ConstantDef(name, Function("x", in, out, body))

-----------------------------------------------------------------------------
(* Two functions of three types, in both orders; the body of one is any    *)
(* expression with one operator, whether or not it has a type.             *)
Atoms == {X, True, One, G, Variable("unbound")}
Bodies ==
    Atoms \union {Not(a) : a \in Atoms} \union Binaries({"xor", "call"}, Atoms, Atoms)
          \union Conditionals({X, True, One}, Atoms, Atoms)
Signatures == {<<"Bool", "Bool">>, <<"UInt", "UInt">>, <<"Bool", "UInt">>}

ShallowModules ==
    {<<Def("g", s[1], s[2], b), Def("main", t[1], t[2], c)>> :
        s \in Signatures, b \in {X, One}, t \in Signatures, c \in Bodies}
    \union
    {<<Def("g", s[1], s[2], X), Def("main", t[1], t[2], One)>> :
        s \in Signatures, t \in Signatures}

(* Well-typed bodies two operators deep, where g negates.                  *)
Negates == Def("g", "Bool", "Bool", Not(X))
Flat == {X, True}
Level1 ==
    {Not(X)} \union Binaries({"and", "lor"}, Flat, Flat)
             \union {Call(G, a) : a \in Flat}
             \union {Conditional(X, a, <<b>>) : a \in Flat, b \in Flat}
Level2 ==
    {Not(e) : e \in Level1} \union {Call(G, e) : e \in Level1}
        \union Binaries({"xor"}, Level1, Level1)
        \union {Conditional(c, a, <<b>>) : c \in Level1, a \in Flat, b \in Level1}
        \union {Conditional(c, a, <<b>>) : c \in {X}, a \in Level1, b \in Level1}

DeepModules == {<<Negates, Def("main", "Bool", "Bool", e)>> : e \in Level2}

-----------------------------------------------------------------------------
(* Functions in functions, recursion, and names that mean several things.  *)

Id(name, type) == Function(name, type, type, Variable(name))

NestedModules ==
    (* a function applied where it is written, its variable hiding x *)
    {<<Def("main", "Bool", "Bool", Call(f, X))>> :
        f \in {Id("x", "Bool"), Id("y", "Bool"),
               Function("y", "Bool", "Bool", X),
               Function("y", "Bool", "Bool", Not(Call(Id("z", "Bool"), Variable("y")))),
               Function("y", "Bool", "Bool", Call(Function("z", "Bool", "Bool", X), True)),
               Function("x", "Bool", "Bool", Call(Id("x", "Bool"), Not(X)))}}
    \union
    (* a function that is chosen, and one inside the other's alternative *)
    {<<Negates, Def("main", "Bool", "Bool",
                    Call(Conditional(X, G, <<Id("y", "Bool")>>), X))>>,
     <<Def("main", "Bool", "Bool",
           Conditional(X, Call(Function("y", "Bool", "Bool", Not(Variable("y"))), X),
                       <<Call(Id("y", "Bool"), X)>>))>>}

RecursiveModules ==
    (* main calls itself: once more, or for ever *)
    {<<Def("main", "Bool", "Bool", Conditional(X, Call(Variable("main"), e), <<f>>))>> :
        e \in {X, Not(X)}, f \in {True, Not(X), Call(Variable("main"), True)}}
    \union
    (* a function defined after its use, and two that call each other *)
    {<<Def("a", "Bool", "UInt", Conditional(X, Call(Variable("b"), Not(X)), <<One>>)),
       Def("b", "Bool", "UInt", Conditional(X, Literal("uint", 2),
                                            <<Call(Variable("a"), X)>>))>>}

UnitModules ==
    {<<Def("g", "Bool", "Unit", Conditional(X, Call(G, Not(X)), << >>)),
       Def("main", "Unit", "Unit", e)>> :
        e \in {X, Call(G, True), Conditional(True, X, << >>),
               Conditional(True, Call(G, True), <<X>>)}}

NameModules ==
    (* an input that hides a constant, a constant that hides a type, two   *)
    (* constants of one name, one that is no function, unknown types       *)
    {<<Negates, ConstantDef("main", Function("g", "Bool", "Bool", e))>> :
        e \in {G, Not(G), Call(G, G)}}
    \union {<<Def("Bool", "UInt", "UInt", X), Def("main", t, t, X)>> : t \in {"Bool", "UInt"}}
    \union {<<Negates, Def("g", "Bool", "UInt", One)>>,
            <<Negates, Def("g", "Bool", "Bool", X), Def("main", "Bool", "Bool", Call(G, X))>>,
            <<Negates, ConstantDef("main", True)>>,
            <<ConstantDef("main", Variable("g")), Negates>>,
            <<Def("main", "Word", "UInt", One)>>, <<Def("main", "UInt", "Word", One)>>,
            <<ConstantDef("main", Id("Bool", "Bool"))>>}

AllModules ==
    ShallowModules \union DeepModules \union NestedModules \union RecursiveModules
        \union UnitModules \union NameModules

-----------------------------------------------------------------------------
(* For the two runs that end in an error.                                  *)
UnboundModules == {<<Def("main", "Bool", "Bool", e)>> : e \in Bodies}
SameTypeModules ==
    {<<Def("g", s[1], s[2], One), Def("main", t[1], t[2], One)>> :
        s \in Signatures, t \in Signatures}
=============================================================================
