---------------------------- MODULE MCQuadEmit -----------------------------
(***************************************************************************)
(* An instance of QuadEmit with long texts (MCPipeline has the others):    *)
(* "l" is an identifier and "d" a number of more than 63 characters, "l63" *)
(* and "d63" are their first 63 characters.                                *)
(***************************************************************************)
EXTENDS QuadEmit, Semantics

NoFault == {1000}
NoNumFloat == {}
LongId == {"x", "l", "l63"}
LongNumInt == {"7", "d", "d63"}
LongPrefix63 ==
  [t \in LongId \cup LongNumInt \cup {"0", "0.0", ""} |->
     IF t = "l" THEN "l63" ELSE IF t = "d" THEN "d63" ELSE t]
LongSymbols == [x |-> INT, l |-> INT]
LongExpression ==
  {new_ast_expr_id(id) : id \in LongId} \cup {new_ast_expr_int_literal(n) : n \in LongNumInt}
LongSimple ==
  {new_ast_statement_assign(id, e) : id \in {"x", "l"}, e \in LongExpression}
NoCondition == {}
LongBody == {new_ast_statement_block(<<s, t>>) : s \in LongSimple, t \in LongSimple}
LongStatement == LongSimple \cup LongBody
LongProgram ==
  {[symbols |-> LongSymbols, body |-> s] :
     s \in {t \in LongBody : check_statement(LongSymbols, t) = 0}}
=============================================================================
