------------------------------ MODULE MCParser ------------------------------
(***************************************************************************)
(* Instances of Reading: files written from small trees, and the same with  *)
(* a token dropped or put in the place of another, or with a comment, a    *)
(* newline or a character of no rule in between.                           *)
(***************************************************************************)
EXTENDS Reading, Grammar

A == new_ast_expr_id("a")
One == new_ast_expr_int_literal("1")
Half == new_ast_expr_float_literal("0.5")
Atom == {A, One, Half}

\* Expressions with one operator, and with two
Bin(op, l, r) == new_ast_expr_binary(op, l, r)
Expr1 ==
  {Bin(op, A, One) : op \in ArithOp}
  \cup {new_ast_expr_cast_int(Half), new_ast_expr_cast_float(A)}
Expr2 ==
  {Bin(op, A, e) : op \in ArithOp, e \in Expr1} \cup {Bin(op, e, A) : op \in ArithOp, e \in Expr1}
  \cup {new_ast_expr_cast_int(e) : e \in Expr1}
Less == Bin("LT", A, One)
Cond1 == {Bin(op, A, One) : op \in RelOp}
Cond2 ==
  {new_ast_expr_not(Less), Bin("AND", Less, new_ast_expr_not(Less)), Bin("OR", Less, Less),
   Bin("OR", Bin("AND", Less, Less), Less), Bin("OR", Bin("OR", Less, Less), Bin("AND", Less, Less)),
   Bin("AND", Bin("AND", Less, Less), Less), new_ast_expr_not(Bin("OR", Less, Less)),
   Bin("GE", Bin("ADD", A, One), Bin("MUL", A, One))}

Assign(e) == new_ast_statement_assign("a", e)
Input_ == new_ast_statement_input("a")
Break_ == new_ast_statement_break
Simple == {Assign(One), Input_, new_ast_statement_output(Half), Break_, new_ast_statement_block(<<>>)}
Control(S) ==
  {new_ast_statement_if(Less, s, NULL) : s \in S}
  \cup {new_ast_statement_if(Less, s, Break_) : s \in S}
  \cup {new_ast_statement_if(Less, Break_, s) : s \in S}
  \cup {new_ast_statement_while(Less, s) : s \in S}
  \cup {new_ast_statement_switch(A, <<new_ast_case("1", <<s>>), new_ast_case("2", <<>>)>>, <<s>>) : s \in S}
  \cup {new_ast_statement_block(<<s, Break_, s>>) : s \in S}
Statement ==
  {Assign(e) : e \in Atom \cup Expr1 \cup Expr2}
  \cup {new_ast_statement_while(c, Input_) : c \in Cond1 \cup Cond2}
  \cup Simple \cup Control(Simple) \cup Control(Control({Break_}))

Program(declarations, list) ==
  [declarations |-> declarations, body |-> new_ast_statement_block(list)]
Declare(names, type) == [identifiers |-> names, type |-> type]
\* What is damaged: everything that has an error production, and its neighbours
Whole ==
  Program(<<Declare(<<"a", "b">>, INT)>>,
          <<Assign(Bin("MUL", Bin("ADD", A, One), A)),
            new_ast_statement_switch(A, <<new_ast_case("1", <<Input_>>)>>, <<Break_>>),
            new_ast_statement_if(Less, new_ast_statement_output(A), Input_)>>)
Tree_ ==
  {Whole} \cup {Program(<<>>, <<s>>) : s \in Statement}
  \cup {Program(<<Declare(<<"a", "b", "a">>, FLOAT), Declare(<<"b">>, INT), Declare(<<"b">>, FLOAT)>>, <<>>)}

\* (TLC keeps the value of a definition, but not of one that a constant stands for.)
MCTree == Tree_
MCTables == BisonTables

----------------------------------------------------------------------------
(* From words to pieces                                                    *)

Keyword == {"break", "case", "default", "else", "float", "if", "input", "int", "output",
            "switch", "while", "cast<<int>>", "cast<<float>>"}
Width(w) ==
  CASE w \in {"int", "0.5"} -> 3 [] w \in {"||", "&&", "==", "!=", ">=", "<=", "if", "10"} -> 2
    [] w \in {"output", "switch"} -> 6 [] w \in {"input", "while", "break", "float"} -> 5
    [] w = "default" -> 7 [] w = "cast<<int>>" -> 11 [] w = "cast<<float>>" -> 13
    [] w \in {"case", "else"} -> 4 [] OTHER -> 1
PieceOf(t) ==
  [is |-> IF t.token \in TextToken THEN "TEXT" ELSE "WORD", token |-> t.token, text |-> t.text,
   width |-> Width(IF t.token \in TextToken THEN t.text ELSE t.token)]
Other(is, width) == [is |-> is, token |-> "", text |-> "", width |-> width]
Space(n) == Other("BLANK", n)
NewLine == Other("NEWLINE", 1)
Bad == Other("BAD", 1)
Open == Other("OPEN", 2)
Close == Other("CLOSE", 2)

Pieces(tokens) == [i \in DOMAIN tokens |-> PieceOf(tokens[i])]
Between(pieces, k, more) == SubSeq(pieces, 1, k) \o more \o SubSeq(pieces, k + 1, Len(pieces))
LineAfter(pieces, word) ==
  FlattenSeq([i \in DOMAIN pieces |-> IF pieces[i].token = word THEN <<pieces[i], NewLine, Space(2)>>
                                      ELSE <<pieces[i]>>])

Damaged == Pieces(WrittenProgram(Whole, FALSE))
Intruder == {PieceOf(t) : t \in {[token |-> x, text |-> ""] : x \in {";", "}", "else", "int", ")"}}
                                 \cup {[token |-> "ID", text |-> "b"]}}
           \cup {Bad, Open}
Comment == <<Open, Bad, NewLine, Open, Space(3), Close>>

\* tests/test_parser_errors.ou
Text_(token, text) == PieceOf([token |-> token, text |-> text])
W(token) == Text_(token, "")
MCExample ==
  <<Text_("ID", "a"), W(","), Space(1), Text_("ID", "b"), Space(1), W("int"), W(";"), NewLine,
    W("{"), NewLine,
    Space(4), Text_("ID", "x"), Space(1), W("="), Space(1), W(";"), NewLine,
    Space(4), W("if"), Space(1), W("("), Text_("ID", "x"), Space(1), W("<"), Space(1), Text_("NUM_INT", "10"),
    NewLine,
    Space(8), W("output"), W("("), Text_("ID", "x"), W(")"), NewLine,
    W("}"), NewLine>>

\* Without a space these would be one word.
Letters(p) == p.is = "TEXT" \/ p.token \in Keyword
Spaced(pieces) ==
  FlattenSeq([i \in DOMAIN pieces |->
    IF i > 1 /\ Letters(pieces[i]) /\ Letters(pieces[i - 1]) THEN <<Space(1), pieces[i]>> ELSE <<pieces[i]>>])

Mixed ==
  {Pieces(words) : words \in Sentence}
  \cup {LineAfter(Between(Damaged, k, <<>>), ";") : k \in {0, Len(Damaged)}}
  \cup {LineAfter(RemoveAt(Damaged, k), ";") : k \in DOMAIN Damaged}
  \cup {LineAfter([Damaged EXCEPT ![k] = p], ";") : k \in DOMAIN Damaged, p \in Intruder}
  \cup {Between(Damaged, k, Comment) : k \in DOMAIN Damaged}
  \cup {Between(Damaged, k, Comment \o <<Space(1), Bad, NewLine>>) : k \in DOMAIN Damaged}
  \cup {MCExample, <<>>}
MCFile == {Spaced(f) : f \in Mixed}
=============================================================================
