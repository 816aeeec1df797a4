------------------------------- MODULE Typing -------------------------------
(***************************************************************************)
(* What a program that src/src/semantics.c lets through has over others,   *)
(* as far as the types of operands depend on it, stated one level of the   *)
(* tree at a time (Semantics has the recursive functions of the check).    *)
(***************************************************************************)
EXTENDS QuadEmit

Tree == Expression \cup Condition

\* "type" is what does_resolve_to_int finds of every tree
Resolves(symbols, type) ==
  \A e \in Tree :
    /\ e.kind = "ID" /\ e.identifier \in DOMAIN symbols => type[e] = symbols[e.identifier]
    /\ e.kind \in {"INT_LITERAL", "CAST_INT", "NOT"} => type[e] = INT
    /\ e.kind \in {"FLOAT_LITERAL", "CAST_FLOAT"} => type[e] = FLOAT
    /\ e.kind = "BINARY" =>
         type[e] = IF e.op \in ArithOp /\ FLOAT \in {type[e.left], type[e.right]}
                   THEN FLOAT ELSE INT

\* check_statement and check_assignment find no int = float in any statement of
\* "checked", nor in the statements inside it
Passes(symbols, type, checked) ==
  \A s \in checked :
    /\ s.kind = "ASSIGN" /\ s.identifier \in DOMAIN symbols /\ symbols[s.identifier] = INT
         => type[s.expression] = INT
    /\ s.kind = "IF" => s.then_stmt \in checked /\ s.else_stmt \in checked \cup {NULL}
    /\ s.kind = "WHILE" => s.body \in checked
    /\ s.kind = "SWITCH" => /\ s.cases \in Seq(CaseOver(NumInt, checked))
                            /\ s.default_statements \in Seq(checked)
    /\ s.kind = "BLOCK" => s.statements \in Seq(checked)

IsTyping(p, type, checked) ==
  Resolves(p.symbols, type) /\ Passes(p.symbols, type, checked) /\ p.body \in checked

WellTyped(p) ==
  \E type \in [Tree -> AstType], checked \in SUBSET Statement : IsTyping(p, type, checked)

\* Every text fits into the 64 characters of a "place"
TextsFit == \A t \in Text : Prefix63[t] = t
=============================================================================
