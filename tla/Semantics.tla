----------------------------- MODULE Semantics -----------------------------
(***************************************************************************)
(* The semantic check (src/src/semantics.c).  It is a pure function of the *)
(* program: it builds the symbol table from the declarations and counts    *)
(* the errors.  The table is a function from names to types here           *)
(* (SymbolTable.tla models the hash table, and that its insertion may      *)
(* fail); the messages are left out.                                       *)
(***************************************************************************)
EXTENDS Ast, Functions, SequencesExt

\* A declaration "idlist : type ;" as parser.y builds it
new_ast_declaration(identifiers, type) == [identifiers |-> identifiers, type |-> type]

\* symtable_find(ctx->symbols, name) == NULL
Undeclared(symbols, name) == name \notin DOMAIN symbols
ErrorIf(condition) == IF condition THEN 1 ELSE 0

RECURSIVE does_resolve_to_int(_, _)
does_resolve_to_int(symbols, expr) ==
  CASE expr.kind = "ID" -> ~Undeclared(symbols, expr.identifier)
                             /\ symbols[expr.identifier] = INT
    [] expr.kind \in {"INT_LITERAL", "CAST_INT", "NOT"} -> TRUE
    [] expr.kind \in {"FLOAT_LITERAL", "CAST_FLOAT"} -> FALSE
    [] expr.kind = "BINARY" /\ expr.op \in ArithOp ->
         does_resolve_to_int(symbols, expr.left) /\ does_resolve_to_int(symbols, expr.right)
    [] expr.kind = "BINARY" /\ expr.op \in BoolOp \cup RelOp -> TRUE

RECURSIVE check_expression(_, _)
check_expression(symbols, expr) ==
  CASE expr.kind = "ID" -> ErrorIf(Undeclared(symbols, expr.identifier))
    [] expr.kind \in {"INT_LITERAL", "FLOAT_LITERAL"} -> 0
    [] expr.kind \in {"CAST_INT", "CAST_FLOAT", "NOT"} -> check_expression(symbols, expr.operand)
    [] expr.kind = "BINARY" ->
         check_expression(symbols, expr.left) + check_expression(symbols, expr.right)

\* int = float is not legal
check_assignment(symbols, stmt) ==
  ErrorIf(/\ ~Undeclared(symbols, stmt.identifier)
          /\ symbols[stmt.identifier] = INT
          /\ ~does_resolve_to_int(symbols, stmt.expression))

check_switch_value(symbols, expr) == ErrorIf(~does_resolve_to_int(symbols, expr))

\* check_statement and check_statement_list: a BREAK outside of a loop is no
\* error here, the code generator reports it
RECURSIVE check_statement(_, _)
check_statement(symbols, stmt) ==
  LET check_statement_list(list) ==
        FoldLeft(LAMBDA n, s : n + check_statement(symbols, s), 0, list)
      check_cases(cases) ==
        FoldLeft(LAMBDA n, c : n + check_statement_list(c.statements), 0, cases)
  IN CASE stmt.kind \in {"NULL", "BREAK"} -> 0
       [] stmt.kind = "ASSIGN" -> ErrorIf(Undeclared(symbols, stmt.identifier))
                                  + check_expression(symbols, stmt.expression)
                                  + check_assignment(symbols, stmt)
       [] stmt.kind = "INPUT"  -> ErrorIf(Undeclared(symbols, stmt.identifier))
       [] stmt.kind = "OUTPUT" -> check_expression(symbols, stmt.expression)
       [] stmt.kind = "IF"     -> check_expression(symbols, stmt.condition)
                                  + check_statement(symbols, stmt.then_stmt)
                                  + check_statement(symbols, stmt.else_stmt)
       [] stmt.kind = "WHILE"  -> check_expression(symbols, stmt.condition)
                                  + check_statement(symbols, stmt.body)
       [] stmt.kind = "SWITCH" -> check_expression(symbols, stmt.expression)
                                  + check_switch_value(symbols, stmt.expression)
                                  + check_cases(stmt.cases)
                                  + check_statement_list(stmt.default_statements)
       [] stmt.kind = "BLOCK"  -> check_statement_list(stmt.statements)

\* One identifier of a declaration: a name that is already there keeps its type
declare(check, name, type) ==
  IF Undeclared(check.symbols, name)
  THEN [check EXCEPT !.symbols = [x \in DOMAIN @ \cup {name} |->
                                    IF x = name THEN type ELSE @[x]]]
  ELSE [check EXCEPT !.error_count = @ + 1]

check_declarations(declarations) ==
  LET check_declaration(check, decl) ==
        FoldLeft(LAMBDA c, name : declare(c, name, decl.type), check, decl.identifiers)
  IN  FoldLeft(check_declaration, [symbols |-> <<>>, error_count |-> 0], declarations)

\* The error count and, when it is 0, the symbol table that is handed on
semantic_check_program(program) ==
  LET check == check_declarations(program.declarations)
  IN  [check EXCEPT !.error_count = @ + check_statement(check.symbols, program.body)]
============================================================================
