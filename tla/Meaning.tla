------------------------------ MODULE Meaning ------------------------------
(***************************************************************************)
(* What a CPL program means: an evaluator of syntax trees, without labels, *)
(* temporaries or jumps.  It follows the rules that the comments of        *)
(* src/src/quad.c, quad_utils.c and semantics.c state for each construct;  *)
(* of a switch there are two readings, see Switch.                         *)
(*                                                                         *)
(* The state of an execution is [env, in, out, mode, fuel]: the values of  *)
(* the variables, the lines still to be read, the numbers printed, how     *)
(* control leaves the statement (GO, BREAK, RAISED, or LOST when a loop    *)
(* uses up the fuel), and how often loops may still repeat.                *)
(***************************************************************************)
EXTENDS Ast, Numbers, SequencesExt

GO == "go"
BREAK == "break"
RAISED == "raised"
LOST == "lost"
UNDEFINED == [type |-> "UNDEFINED"]

----------------------------------------------------------------------------
(* Expressions.  Both operands are always evaluated.                       *)

IsTrue(v) == ~IsZero(v)
Common(l, r) == IF FLOAT \in {l.type, r.type} THEN FLOAT ELSE INT
\* The operands are converted to a common type
Converted(l, r) == Common(l, r) = FLOAT => FitsFloat(l) /\ FitsFloat(r)

Combine(op, l, r) ==
  CASE UNDEFINED \in {l, r} -> UNDEFINED
    [] op = "OR"  -> Truth(IsTrue(l) \/ IsTrue(r))
    [] op = "AND" -> Truth(IsTrue(l) /\ IsTrue(r))
    [] ~Converted(l, r) -> UNDEFINED
    [] op = "EQ"  -> Truth(Equal(l, r))
    [] op = "NE"  -> Truth(~Equal(l, r))
    [] op = "LT"  -> Truth(Less(l, r))
    [] op = "GT"  -> Truth(Less(r, l))
    [] op = "GE"  -> Truth(~Less(l, r))
    [] op = "LE"  -> Truth(~Less(r, l))
    [] op = "DIV" /\ IsZero(r) -> UNDEFINED
    [] OTHER -> Compute(IF op = "MUL" THEN "MLT" ELSE op, Common(l, r), l, r)

RECURSIVE Value(_, _, _)
Value(env, number, expr) ==
  CASE expr.kind = "ID" -> IF expr.identifier \in DOMAIN env THEN env[expr.identifier]
                           ELSE UNDEFINED
    [] expr.kind \in {"INT_LITERAL", "FLOAT_LITERAL"} -> number[expr.number_text]
    [] expr.kind = "BINARY" -> Combine(expr.op, Value(env, number, expr.left),
                                       Value(env, number, expr.right))
    [] OTHER ->
         LET v == Value(env, number, expr.operand) IN
         CASE v = UNDEFINED -> UNDEFINED
           [] expr.kind = "CAST_INT" -> IF IsFinite(v) THEN ToInt(v) ELSE UNDEFINED
           [] expr.kind = "CAST_FLOAT" -> IF FitsFloat(v) THEN ToFloat(v) ELSE UNDEFINED
           [] expr.kind = "NOT" -> Truth(~IsTrue(v))

----------------------------------------------------------------------------
(* Statements.  "p" holds what does not change: the types of the variables *)
(* (symbols), the numbers of the literals, and the reading of switch.      *)

Bind(st, id, v) ==
  [st EXCEPT !.env = [x \in DOMAIN @ \cup {id} |-> IF x = id THEN v ELSE @[x]]]

Assign(st, id, type, v) ==
  CASE type = INT -> Bind(st, id, v)
    [] type = FLOAT /\ FitsFloat(v)  -> Bind(st, id, ToFloat(v))
    [] type = FLOAT /\ ~FitsFloat(v) -> [st EXCEPT !.mode = RAISED]

\* The first line that is a number of the type
Accepts(line, type) ==
  \/ line.type = INT /\ (type = FLOAT \/ HasText(line))
  \/ line.type = FLOAT /\ type = FLOAT
Read(st, p, id) ==
  LET K == {k \in DOMAIN st.in : Accepts(st.in[k], p.symbols[id])}
      first == CHOOSE k \in K : \A m \in K : k <= m
  IN  IF K = {} THEN [st EXCEPT !.mode = RAISED]
      ELSE Bind([st EXCEPT !.in = SubSeq(@, first + 1, Len(@))], id,
                Number(p.symbols[id], st.in[first].n, st.in[first].d))

\* An int variable is not copied, with or without a cast to int
RECURSIVE StandsForVariable(_, _)
StandsForVariable(p, expr) ==
  \/ expr.kind = "ID" /\ p.symbols[expr.identifier] = INT
  \/ expr.kind = "CAST_INT" /\ StandsForVariable(p, expr.operand)

RECURSIVE Run(_, _, _)
RECURSIVE RunList(_, _, _)
RECURSIVE RunCases(_, _, _, _)

RunList(st, p, list) ==
  IF list = <<>> THEN st ELSE RunList(Run(st, p, Head(list)), p, Tail(list))

\* Every case is tested, with the value that the expression of the switch has then
\* if it is a variable, and that it had (v) otherwise
RunCases(st, p, stmt, v) ==
  LET c    == Head(stmt.cases)
      now  == IF StandsForVariable(p, stmt.expression)
              THEN Value(st.env, p.number, stmt.expression) ELSE v
      case == IF st.mode = GO /\ now = p.number[c.int_literal]
              THEN RunList(st, p, c.statements) ELSE st
  IN  IF stmt.cases = <<>> THEN st
      ELSE RunCases(case, p, [stmt EXCEPT !.cases = Tail(@)], v)

\* The statements of the first case that matches and of all below it
Below(p, stmt, v) ==
  LET K == {k \in DOMAIN stmt.cases : v = p.number[stmt.cases[k].int_literal]}
      first == CHOOSE k \in K : \A m \in K : k <= m
      rest == SubSeq(stmt.cases, first, Len(stmt.cases))
  IN  IF K = {} THEN <<>> ELSE FlattenSeq([k \in DOMAIN rest |-> rest[k].statements])

Left(st) == IF st.mode = BREAK THEN [st EXCEPT !.mode = GO] ELSE st
Burn(st) == [st EXCEPT !.fuel = @ - 1]

\* What a statement evaluates first
Subject(stmt) ==
  CASE stmt.kind \in {"ASSIGN", "OUTPUT", "SWITCH"} -> <<stmt.expression>>
    [] stmt.kind \in {"IF", "WHILE"} -> <<stmt.condition>>
    [] OTHER -> <<>>

Run(st, p, stmt) ==
  LET v == IF Subject(stmt) = <<>> THEN Whole(0)
           ELSE Value(st.env, p.number, Head(Subject(stmt)))
      body  == Run(Burn(st), p, stmt.body)
      cases == IF p.fall_through THEN RunList(st, p, Below(p, stmt, v))
               ELSE RunCases(st, p, stmt, v)
  IN IF st.mode # GO \/ stmt = NULL THEN st
     ELSE IF v = UNDEFINED THEN [st EXCEPT !.mode = RAISED]
     ELSE
     CASE stmt.kind = "ASSIGN" -> Assign(st, stmt.identifier, p.symbols[stmt.identifier], v)
       [] stmt.kind = "INPUT"  -> Read(st, p, stmt.identifier)
       [] stmt.kind = "OUTPUT" /\ HasText(v)  -> [st EXCEPT !.out = Append(@, v)]
       [] stmt.kind = "OUTPUT" /\ ~HasText(v) -> [st EXCEPT !.mode = RAISED]
       [] stmt.kind = "IF"     -> Run(st, p, IF IsTrue(v) THEN stmt.then_stmt ELSE stmt.else_stmt)
       [] stmt.kind = "WHILE" /\ ~IsTrue(v)    -> st
       [] stmt.kind = "WHILE" /\ IsTrue(v) ->
            IF st.fuel = 0 THEN [st EXCEPT !.mode = LOST]
            ELSE IF body.mode = BREAK THEN Left(body) ELSE Run(body, p, stmt)
       [] stmt.kind = "SWITCH" -> Left(RunList(cases, p, stmt.default_statements))
       [] stmt.kind = "BREAK"  -> [st EXCEPT !.mode = BREAK]
       [] stmt.kind = "BLOCK"  -> RunList(st, p, stmt.statements)

Outcome(body, symbols, number, input, fall_through, fuel) ==
  LET st == Run([env |-> <<>>, in |-> input, out |-> <<>>, mode |-> GO, fuel |-> fuel],
                [symbols |-> symbols, number |-> number, fall_through |-> fall_through], body)
  IN  [mode |-> st.mode, out |-> st.out]
=============================================================================
