-------------------------------- MODULE Ast --------------------------------
(***************************************************************************)
(* The abstract syntax tree of a CPL program (src/src/ast.h, ast.c) and    *)
(* the productions of the grammar that build it (src/src/parser.y).        *)
(*                                                                         *)
(* A node is a record with the field "kind" of the C struct and the        *)
(* members of the union that this kind uses.  A linked list of nodes (the  *)
(* "next" pointers) is a sequence.  Identifiers and literals are members   *)
(* of small sets: their spelling is not modelled here.                     *)
(***************************************************************************)
EXTENDS Integers, Sequences

INT   == "INT"      \* AST_TYPE_INT
FLOAT == "FLOAT"    \* AST_TYPE_FLOAT
AstType == {INT, FLOAT}

ArithOp == {"ADD", "SUB", "MUL", "DIV"}
RelOp   == {"EQ", "NE", "LT", "GT", "GE", "LE"}
BoolOp  == {"OR", "AND"}

NULL == [kind |-> "NULL"]

----------------------------------------------------------------------------
(* Constructors of ast.c.  (Their failure, when calloc returns NULL, ends  *)
(* the parse: no tree with a hole in it leaves the parser.)                *)

new_ast_expr_id(identifier) == [kind |-> "ID", identifier |-> identifier]
new_ast_expr_int_literal(number_text) ==
    [kind |-> "INT_LITERAL", number_text |-> number_text]
new_ast_expr_float_literal(number_text) ==
    [kind |-> "FLOAT_LITERAL", number_text |-> number_text]
new_ast_expr_cast_int(operand)   == [kind |-> "CAST_INT",   operand |-> operand]
new_ast_expr_cast_float(operand) == [kind |-> "CAST_FLOAT", operand |-> operand]
new_ast_expr_not(operand)        == [kind |-> "NOT",        operand |-> operand]
new_ast_expr_binary(op, left, right) ==
    [kind |-> "BINARY", op |-> op, left |-> left, right |-> right]

new_ast_statement_assign(identifier, expression) ==
    [kind |-> "ASSIGN", identifier |-> identifier, expression |-> expression]
new_ast_statement_input(identifier)  == [kind |-> "INPUT", identifier |-> identifier]
new_ast_statement_output(expression) == [kind |-> "OUTPUT", expression |-> expression]
new_ast_statement_if(condition, then_stmt, else_stmt) ==
    [kind |-> "IF", condition |-> condition,
     then_stmt |-> then_stmt, else_stmt |-> else_stmt]
new_ast_statement_while(condition, body) ==
    [kind |-> "WHILE", condition |-> condition, body |-> body]
new_ast_statement_switch(expression, cases, default_statements) ==
    [kind |-> "SWITCH", expression |-> expression, cases |-> cases,
     default_statements |-> default_statements]
new_ast_statement_break == [kind |-> "BREAK"]
new_ast_statement_block(statements) == [kind |-> "BLOCK", statements |-> statements]
new_ast_case(int_literal, statements) ==
    [int_literal |-> int_literal, statements |-> statements]

----------------------------------------------------------------------------
(* One level of the grammar: the nodes a production builds over given sets *)
(* of children.  A set X of trees is closed when X \subseteq XOver(X).     *)

\* expression, term, factor
ExpressionOver(Id, Int_, Float_, E) ==
    [kind : {"ID"}, identifier : Id]
    \cup [kind : {"INT_LITERAL"}, number_text : Int_]
    \cup [kind : {"FLOAT_LITERAL"}, number_text : Float_]
    \cup [kind : {"CAST_INT", "CAST_FLOAT"}, operand : E]
    \cup [kind : {"BINARY"}, op : ArithOp, left : E, right : E]

\* boolexpr, boolterm, boolfactor: conditions are never nested in expressions
ConditionOver(E, C) ==
    [kind : {"NOT"}, operand : C]
    \cup [kind : {"BINARY"}, op : BoolOp, left : C, right : C]
    \cup [kind : {"BINARY"}, op : RelOp, left : E, right : E]

CaseOver(Int_, S) == [int_literal : Int_, statements : Seq(S)]

\* stmt and its alternatives, without the error productions
StatementOver(Id, Int_, E, C, S) ==
    [kind : {"ASSIGN"}, identifier : Id, expression : E]
    \cup [kind : {"INPUT"}, identifier : Id]
    \cup [kind : {"OUTPUT"}, expression : E]
    \cup [kind : {"IF"}, condition : C, then_stmt : S, else_stmt : S \cup {NULL}]
    \cup [kind : {"WHILE"}, condition : C, body : S]
    \cup [kind : {"SWITCH"}, expression : E, cases : Seq(CaseOver(Int_, S)),
          default_statements : Seq(S)]
    \cup [kind : {"BREAK"}]
    \cup [kind : {"BLOCK"}, statements : Seq(S)]
============================================================================
