------------------------------- MODULE Debug -------------------------------
(***************************************************************************)
(* What "--debug" prints of a syntax tree (src/src/debug.c): a sequence of *)
(* lines, each with its depth, a label and the text or the name in it.     *)
(***************************************************************************)
EXTENDS Ast, SequencesExt

Line(depth, label, text) == <<[depth |-> depth, label |-> label, text |-> text]>>

dbg_type_name == [INT |-> "int", FLOAT |-> "float"]

\* Faulty: two operators have the same name
dbg_binop_name_Twice ==
  [ADD |-> "+", SUB |-> "-", MUL |-> "*", DIV |-> "/", OR |-> "||", AND |-> "&&",
   EQ |-> "==", NE |-> "!=", LT |-> "<", GT |-> ">", GE |-> ">", LE |-> "<="]
dbg_binop_name ==
  [ADD |-> "+", SUB |-> "-", MUL |-> "*", DIV |-> "/", OR |-> "||", AND |-> "&&",
   EQ |-> "==", NE |-> "!=", LT |-> "<", GT |-> ">", GE |-> ">=", LE |-> "<="]

dbg_print_declaration_list(declarations, depth) ==
  LET identifiers(d) == FlattenSeq([i \in DOMAIN d.identifiers |-> Line(depth + 3, "-", d.identifiers[i])])
      declaration(d) == Line(depth + 1, "declaration", dbg_type_name[d.type])
                        \o Line(depth + 2, "identifiers", "") \o identifiers(d)
  IN  IF declarations = <<>> THEN Line(depth, "declarations", "<empty>")
      ELSE Line(depth, "declarations", "")
           \o FlattenSeq([i \in DOMAIN declarations |-> declaration(declarations[i])])

RECURSIVE dbg_print_expression(_, _)
dbg_print_expression(e, depth) ==
  CASE e.kind = "ID"            -> Line(depth, "id", e.identifier)
    [] e.kind = "INT_LITERAL"   -> Line(depth, "int_lit", e.number_text)
    [] e.kind = "FLOAT_LITERAL" -> Line(depth, "float_lit", e.number_text)
    [] e.kind \in {"CAST_INT", "CAST_FLOAT", "NOT"} ->
         Line(depth, e.kind, "") \o dbg_print_expression(e.operand, depth + 1)
    [] e.kind = "BINARY" ->
         Line(depth, "binary", dbg_binop_name[e.op])
         \o Line(depth + 1, "left", "") \o dbg_print_expression(e.left, depth + 2)
         \o Line(depth + 1, "right", "") \o dbg_print_expression(e.right, depth + 2)

RECURSIVE dbg_print_statement(_, _)
dbg_print_statement_list(list, depth) ==
  IF list = <<>> THEN Line(depth, "<empty>", "")
  ELSE FlattenSeq([i \in DOMAIN list |-> dbg_print_statement(list[i], depth)])
dbg_print_case_list(cases, depth) ==
  IF cases = <<>> THEN Line(depth, "cases", "<empty>")
  ELSE Line(depth, "cases", "")
       \o FlattenSeq([i \in DOMAIN cases |-> Line(depth + 1, "case", cases[i].int_literal)
                                           \o dbg_print_statement_list(cases[i].statements, depth + 2)])
dbg_print_statement(s, depth) ==
  CASE s.kind = "ASSIGN" -> Line(depth, "assign", s.identifier) \o dbg_print_expression(s.expression, depth + 1)
    [] s.kind = "INPUT"  -> Line(depth, "input", s.identifier)
    [] s.kind = "OUTPUT" -> Line(depth, "output", "") \o dbg_print_expression(s.expression, depth + 1)
    [] s.kind = "IF"     ->
         Line(depth, "if", "")
         \o Line(depth + 1, "condition", "") \o dbg_print_expression(s.condition, depth + 2)
         \o Line(depth + 1, "then", "") \o dbg_print_statement(s.then_stmt, depth + 2)
         \o (IF s.else_stmt = NULL THEN <<>>
             ELSE Line(depth + 1, "else", "") \o dbg_print_statement(s.else_stmt, depth + 2))
    [] s.kind = "WHILE"  ->
         Line(depth, "while", "")
         \o Line(depth + 1, "condition", "") \o dbg_print_expression(s.condition, depth + 2)
         \o Line(depth + 1, "body", "") \o dbg_print_statement(s.body, depth + 2)
    [] s.kind = "SWITCH" ->
         Line(depth, "switch", "")
         \o Line(depth + 1, "expression", "") \o dbg_print_expression(s.expression, depth + 2)
         \o dbg_print_case_list(s.cases, depth + 1)
         \o Line(depth + 1, "default", "") \o dbg_print_statement_list(s.default_statements, depth + 2)
    [] s.kind = "BREAK"  -> Line(depth, "break", "")
    [] s.kind = "BLOCK"  -> Line(depth, "block", "") \o dbg_print_statement_list(s.statements, depth + 1)

debug_print_ast(program) ==
  Line(0, "AST", "") \o dbg_print_declaration_list(program.declarations, 1)
  \o Line(1, "body", "") \o dbg_print_statement(program.body, 2)
=============================================================================
