------------------------------- MODULE Source -------------------------------
(***************************************************************************)
(* How a program is written, to compare with what the parser makes of it:  *)
(* the tokens of a tree, each operand in parentheses exactly when the      *)
(* grammar needs them ("all": or always), and the tree in a memory.        *)
(***************************************************************************)
EXTENDS Ast, AstHeap

Words(tokens) == [i \in DOMAIN tokens |-> [token |-> tokens[i], text |-> ""]]
Named(token, text) == <<[token |-> token, text |-> text]>>

Sign == [ADD |-> "+", SUB |-> "-", MUL |-> "*", DIV |-> "/", OR |-> "||", AND |-> "&&",
         EQ |-> "==", NE |-> "!=", LT |-> "<", GT |-> ">", GE |-> ">=", LE |-> "<="]

\* How strongly the root of an expression or a condition binds
Level(e) ==
  IF e.kind # "BINARY" THEN 6
  ELSE CASE e.op = "OR" -> 1 [] e.op = "AND" -> 2 [] e.op \in RelOp -> 3
         [] e.op \in {"ADD", "SUB"} -> 4 [] e.op \in {"MUL", "DIV"} -> 5
IsCondition(e) == e.kind = "NOT" \/ (e.kind = "BINARY" /\ e.op \in BoolOp \cup RelOp)

RECURSIVE Written(_, _, _)
WrittenNode(e, all) ==
  CASE e.kind = "ID"            -> Named("ID", e.identifier)
    [] e.kind = "INT_LITERAL"   -> Named("NUM_INT", e.number_text)
    [] e.kind = "FLOAT_LITERAL" -> Named("NUM_FLOAT", e.number_text)
    [] e.kind = "CAST_INT"   -> Words(<<"cast<<int>>", "(">>) \o Written(e.operand, 4, all) \o Words(<<")">>)
    [] e.kind = "CAST_FLOAT" -> Words(<<"cast<<float>>", "(">>) \o Written(e.operand, 4, all) \o Words(<<")">>)
    [] e.kind = "NOT"        -> Words(<<"!", "(">>) \o Written(e.operand, 1, all) \o Words(<<")">>)
    [] e.kind = "BINARY"     ->
         Written(e.left, IF e.op \in RelOp THEN 4 ELSE Level(e), all)
         \o Words(<<Sign[e.op]>>) \o Written(e.right, Level(e) + 1, all)
\* e where only an expression of this level or a stronger one may stand
Written(e, level, all) ==
  IF Level(e) < level \/ (all /\ ~IsCondition(e))
  THEN Words(<<"(">>) \o WrittenNode(e, all) \o Words(<<")">>)
  ELSE WrittenNode(e, all)

----------------------------------------------------------------------------
\* An "else" behind the statement would be taken for its own.
RECURSIVE TakesElse(_)
TakesElse(s) ==
  CASE s.kind = "IF"    -> s.else_stmt = NULL \/ TakesElse(s.else_stmt)
    [] s.kind = "WHILE" -> TakesElse(s.body)
    [] OTHER            -> FALSE

Condition(word, e, all) == Words(<<word, "(">>) \o Written(e, 1, all) \o Words(<<")">>)

RECURSIVE WrittenStatement(_, _)
WrittenList(list, all) == FlattenSeq([i \in DOMAIN list |-> WrittenStatement(list[i], all)])
WrittenCase(c, all) ==
  Words(<<"case">>) \o Named("NUM_INT", c.int_literal) \o Words(<<":">>) \o WrittenList(c.statements, all)
WrittenStatement(s, all) ==
  CASE s.kind = "ASSIGN" -> Named("ID", s.identifier) \o Words(<<"=">>)
                            \o Written(s.expression, 4, all) \o Words(<<";">>)
    [] s.kind = "INPUT"  -> Words(<<"input", "(">>) \o Named("ID", s.identifier) \o Words(<<")", ";">>)
    [] s.kind = "OUTPUT" -> Words(<<"output", "(">>) \o Written(s.expression, 4, all) \o Words(<<")", ";">>)
    [] s.kind = "IF"     ->
         LET then == WrittenStatement(s.then_stmt, all)
         IN  Condition("if", s.condition, all)
             \o (IF s.else_stmt = NULL THEN then
                 ELSE (IF TakesElse(s.then_stmt) THEN Words(<<"{">>) \o then \o Words(<<"}">>) ELSE then)
                      \o Words(<<"else">>) \o WrittenStatement(s.else_stmt, all))
    [] s.kind = "WHILE"  -> Condition("while", s.condition, all) \o WrittenStatement(s.body, all)
    [] s.kind = "SWITCH" ->
         Words(<<"switch", "(">>) \o Written(s.expression, 4, all) \o Words(<<")", "{">>)
         \o FlattenSeq([i \in DOMAIN s.cases |-> WrittenCase(s.cases[i], all)])
         \o Words(<<"default", ":">>) \o WrittenList(s.default_statements, all) \o Words(<<"}">>)
    [] s.kind = "BREAK"  -> Words(<<"break", ";">>)
    [] s.kind = "BLOCK"  -> Words(<<"{">>) \o WrittenList(s.statements, all) \o Words(<<"}">>)

TypeWord == [INT |-> "int", FLOAT |-> "float"]
WrittenDeclaration(d) ==
  FlattenSeq([i \in DOMAIN d.identifiers |->
                (IF i = 1 THEN <<>> ELSE Words(<<",">>)) \o Named("ID", d.identifiers[i])])
  \o Words(<<":", TypeWord[d.type], ";">>)
WrittenProgram(p, all) ==
  FlattenSeq([i \in DOMAIN p.declarations |-> WrittenDeclaration(p.declarations[i])])
  \o WrittenStatement(p.body, all)

----------------------------------------------------------------------------
(* The tree that begins at an address of a memory                          *)

RECURSIVE ReadList(_, _)
ReadList(heap, a) == IF a = NIL THEN <<>> ELSE <<a>> \o ReadList(heap, heap[a].next)

RECURSIVE Read(_, _)
ReadAll(heap, a) == LET list == ReadList(heap, a) IN [i \in DOMAIN list |-> Read(heap, list[i])]
Read(heap, a) ==
  LET kind    == heap[a].kind
      kid(k)  == Read(heap, heap[a].kids[k])
      text    == heap[heap[a].kids[1]].tag
      list(k) == ReadAll(heap, heap[a].kids[k])
  IN  CASE kind = "ID"            -> new_ast_expr_id(text)
        [] kind = "INT_LITERAL"   -> new_ast_expr_int_literal(text)
        [] kind = "FLOAT_LITERAL" -> new_ast_expr_float_literal(text)
        [] kind = "CAST_INT"      -> new_ast_expr_cast_int(kid(1))
        [] kind = "CAST_FLOAT"    -> new_ast_expr_cast_float(kid(1))
        [] kind = "NOT"           -> new_ast_expr_not(kid(1))
        [] kind = "BINARY"        -> new_ast_expr_binary(heap[a].tag, kid(1), kid(2))
        [] kind = "ASSIGN"        -> new_ast_statement_assign(text, kid(2))
        [] kind = "INPUT"         -> new_ast_statement_input(text)
        [] kind = "OUTPUT"        -> new_ast_statement_output(kid(1))
        [] kind = "IF"            -> new_ast_statement_if(kid(1), kid(2),
                                       IF Len(heap[a].kids) = 3 THEN kid(3) ELSE NULL)
        [] kind = "WHILE"         -> new_ast_statement_while(kid(1), kid(2))
        [] kind = "SWITCH"        -> new_ast_statement_switch(kid(1), list(2), list(3))
        [] kind = "CASE"          -> new_ast_case(text, list(2))
        [] kind = "BREAK"         -> new_ast_statement_break
        [] kind = "BLOCK"         -> new_ast_statement_block(list(1))
        [] kind = "IDENTIFIER"    -> text
        [] kind = "DECLARATION"   -> [identifiers |-> list(1), type |-> heap[a].tag]
        [] kind = "PROGRAM"       -> [declarations |-> list(1), body |-> kid(2)]
=============================================================================
