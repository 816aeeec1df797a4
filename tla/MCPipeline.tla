---------------------------- MODULE MCPipeline ----------------------------
(***************************************************************************)
(* Instances of Pipeline.  The programs read x, do what a few levels of    *)
(* the grammar build and the semantic check lets through, and print x.     *)
(***************************************************************************)
EXTENDS Pipeline, Semantics, Typing

\* Among them long ones, of so many characters
LongId == {"long46", "long47", "long60"}
MCId == {"x", "f", "Up"} \cup LongId
MCNumInt == {"1", "7", "8"}
MCNumFloat == {"2.5"}
MCText == MCId \cup MCNumInt \cup MCNumFloat \cup {"0", "0.0", ""}
MCWidth == [t \in MCText |->
  CASE t = "long46" -> 46 [] t = "long47" -> 47 [] t = "long60" -> 60 [] t = "" -> 0
    [] t \in {"2.5", "0.0"} -> 3 [] t = "Up" -> 2 [] OTHER -> 1]
\* Texts of fewer than 64 characters
MCPrefix63 == [t \in MCText |-> t]
MCSymbols == [x |-> INT, f |-> FLOAT]
MCVariable == {"x", "f"} \cup LongId
\* (not as Runner!..., whose constants these are)
N == INSTANCE Numbers
MCNumberOf ==
  [t \in MCNumInt \cup MCNumFloat \cup {"0", "0.0"} |->
    CASE t = "1" -> N!Whole(1) [] t = "7" -> N!Whole(7) [] t = "8" -> N!Whole(8)
      [] t = "2.5" -> N!Fraction(5, 2) [] t = "0" -> N!Whole(0)
      [] t = "0.0" -> N!Fraction(0, 1)]
Half == N!Fraction(-7, 2)
\* The second line is what is read: a number that fits, one that float() does not
\* take, and one that int() does not; an infinity and nan, for a float
MCStdin ==
  {<<Runner!JUNK, N!Whole(7), Half>>, <<Half>>,
   <<N!Whole(300), N!Whole(100), N!Whole(300)>>,
   <<N!Fraction(1, 0), N!Whole(7), N!Fraction(0, 0)>>}

ListsOf(S, n) == UNION {[1 .. k -> S] : k \in 0 .. n}
Accepted(symbols, statements) ==
  {[symbols |-> symbols, body |-> new_ast_statement_block(
      <<new_ast_statement_input("x"), s, new_ast_statement_output(new_ast_expr_id("x"))>>)] :
     s \in {t \in statements : check_statement(symbols, t) = 0}}

X == new_ast_expr_id("x")
F == new_ast_expr_id("f")
One == new_ast_expr_int_literal("1")
Eight == new_ast_expr_int_literal("8")
Less == new_ast_expr_binary("LT", X, Eight)
LessEqual == new_ast_expr_binary("LE", X, Eight)
Plus == new_ast_expr_binary("ADD", X, One)

----------------------------------------------------------------------------
(* Control flow: statements nested to depth 3.                             *)

AddOne == new_ast_statement_assign("x", Plus)
Break_ == new_ast_statement_break
Cases(list) == <<new_ast_case("7", list), new_ast_case("8", <<AddOne>>)>>
Reversed == <<new_ast_case("8", <<AddOne>>), new_ast_case("7", <<AddOne>>)>>

\* The statements one of whose parts is in S
Nest(S) ==
  {new_ast_statement_if(Less, s, e) : s \in S, e \in {NULL, AddOne}}
  \cup {new_ast_statement_if(Less, AddOne, s) : s \in S}
  \cup {new_ast_statement_while(Less, s) : s \in S}
  \cup {new_ast_statement_switch(X, Cases(<<s>>), <<AddOne>>) : s \in S}
  \cup {new_ast_statement_switch(X, <<>>, <<s>>) : s \in S}
  \cup {new_ast_statement_block(<<s, AddOne>>) : s \in S}

Control1 == Nest({AddOne, Break_}) \cup {new_ast_statement_block(<<>>)}
Control2 == Nest(Control1)
ControlLoop == {new_ast_statement_while(LessEqual, s) : s \in Control2}

----------------------------------------------------------------------------
(* Types: every operator over operands of both types, and the conversions. *)

Leaf == {X, F, Eight, new_ast_expr_float_literal("2.5")}
Casts(E) == {new_ast_expr_cast_int(e) : e \in E} \cup {new_ast_expr_cast_float(e) : e \in E}
Binaries(ops, L, R) == {new_ast_expr_binary(op, l, r) : op \in ops, l \in L, r \in R}
Arith1 == Leaf \cup Casts(Leaf) \cup Binaries(ArithOp, {X, F}, {F, Eight})
Arith2 == Casts(Binaries({"DIV"}, {X, F}, {F, Eight})) \cup Casts(Casts({X, F}))
Rel == Binaries(RelOp, {X, F}, {F, Eight})
Bool1 ==
  Rel
  \cup {new_ast_expr_not(c) : c \in Binaries({"EQ"}, {X, F}, {F, Eight})}
  \cup Binaries(BoolOp, Binaries({"GE"}, {X}, {F, Eight}), Binaries({"NE"}, {X}, {F, Eight}))
MCExpression == Arith1 \cup Arith2 \cup {One, Plus} \cup {new_ast_expr_id(id) : id \in LongId}
MCCondition == Bool1 \cup {Less, LessEqual}

InputF == new_ast_statement_input("f")
TypesStatement ==
  {new_ast_statement_assign(id, e) : id \in {"x", "f"}, e \in Casts({X, F}) \cup Binaries({"ADD"}, {X}, {F, Eight})}
  \cup {new_ast_statement_output(e) : e \in Arith1 \cup Arith2}
  \cup {new_ast_statement_if(c, AddOne, NULL) : c \in Bool1}
  \cup {new_ast_statement_switch(e, Reversed, <<>>) : e \in Leaf \cup Casts(Leaf)}
TypesBody == {new_ast_statement_block(<<InputF, s>>) : s \in TypesStatement}
\* A variable without a value
Unread == {new_ast_statement_output(e) : e \in Leaf}
\* An identifier that the lexer accepts and the interpreter does not
UpBody == {new_ast_statement_input("Up")}

\* Lines that do not fit, below all labels and above one, and one of 99 characters
Copy(id, from) == new_ast_statement_assign(id, new_ast_expr_id(from))
Longs(id, from) ==
  new_ast_statement_block(<<Copy(from, "x"), Copy(id, from), new_ast_statement_output(new_ast_expr_id(id))>>)
LongBelow ==
  new_ast_statement_block(<<new_ast_statement_while(LessEqual, AddOne), Longs("long60", "long47")>>)
LongAbove == new_ast_statement_if(Less, Longs("long60", "long47"), AddOne)
LongBody == {LongBelow, LongAbove, Longs("long47", "long46")}

----------------------------------------------------------------------------
Bodies == Control1 \cup ControlLoop \cup TypesBody \cup Unread
MCProgram ==
  Accepted(MCSymbols, Bodies) \cup Accepted([x |-> INT, Up |-> INT], UpBody)
  \cup Accepted([id \in LongId \cup {"x"} |-> INT], LongBody)
Parts(block) == {block.statements[k] : k \in DOMAIN block.statements}
LongParts ==
  LongBody \cup Parts(LongBelow) \cup Parts(LongAbove.then_stmt) \cup Parts(Longs("long47", "long46"))
MCStatement == Control1 \cup Control2 \cup Bodies \cup TypesStatement \cup UpBody \cup LongParts
  \cup {AddOne, Break_, InputF}
  \cup {new_ast_statement_input("x"), new_ast_statement_output(X)} \cup {q.body : q \in MCProgram}
MCCapacity == {0, 2, 4, 6, 14, 1000}
MCFault == {"realloc", "print", "read"}
NoFault == {}
NoLimit == {1000}

----------------------------------------------------------------------------
\* What theorem OperandsAlwaysTyped (QuadEmitOperandProofs) asks of a program
\* follows from the semantic check: what does_resolve_to_int finds of each tree is
\* a typing, and the statements that check_statement lets through pass it.
TypeFound(symbols) == [e \in Tree |-> IF does_resolve_to_int(symbols, e) THEN INT ELSE FLOAT]
LetThrough(symbols) == {s \in Statement : check_statement(symbols, s) = 0}
ASSUME CheckedIsTyped ==
  \A symbols \in {p.symbols : p \in Program} :
    LET type == TypeFound(symbols)
        checked == LetThrough(symbols)
    IN  \A p \in Program : p.symbols = symbols => IsTyping(p, type, checked)
ASSUME TextsFit
=============================================================================
