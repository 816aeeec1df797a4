------------------------------ MODULE QuadEmit ------------------------------
(***************************************************************************)
(* The first stage of code generation (src/src/quad.c, quad_utils.c): a    *)
(* walk over the syntax tree that writes Quad instructions with symbolic   *)
(* labels to a temporary file.                                             *)
(*                                                                         *)
(* The walk is recursive in C.  Here "stack" is the C call stack: one      *)
(* frame per activation of quad_emit_statement, quad_emit_stmt_list or     *)
(* quad_emit_expr, whose pc says which of its calls it is waiting for.     *)
(* A step runs from one such call or return to the next.                   *)
(*                                                                         *)
(* Labels and temporaries are the numbers that quad_new_label and          *)
(* quad_new_temp print after "L" and "_t".  break_labels holds pointers    *)
(* to the l_end buffers that live in the activations of WHILE and SWITCH:  *)
(* here, the index of that activation's frame.                             *)
(***************************************************************************)
EXTENDS Ast, FiniteSets

CONSTANTS
  Id,               \* identifiers
  NumInt, NumFloat, \* the texts of int and float literals
  Prefix63,         \* what fits of a text in the 64 characters of a "place"
  Expression, Condition, Statement, \* trees, closed under taking subtrees
  Program,          \* inputs: the symbol table and the body of a program
  Capacity,         \* how many lines the temporary file may take before
                    \* a write fails
  MAX_BREAK_DEPTH

Literal == NumInt \cup NumFloat \cup {"0", "0.0"}
Text == Id \cup Literal \cup {""}
SymbolTable == UNION {[D -> AstType] : D \in SUBSET Id}

ASSUME PlaceAssumption ==
  /\ Prefix63 \in [Text -> Text]
  /\ Prefix63[""] = "" /\ Prefix63["0"] = "0" /\ Prefix63["0.0"] = "0.0"
ASSUME TreeAssumption ==
  /\ Expression \subseteq ExpressionOver(Id, NumInt, NumFloat, Expression)
  /\ Condition \subseteq ConditionOver(Expression, Condition)
  /\ Statement \subseteq StatementOver(Id, NumInt, Expression, Condition, Statement)
ProgramType == [symbols : SymbolTable, body : Statement]
ASSUME ProgramAssumption == Program \subseteq ProgramType
ASSUME CapacityAssumption == Capacity \subseteq Nat
ASSUME DepthAssumption == MAX_BREAK_DEPTH \in Nat \ {0}

VARIABLES
  program, \* the arguments of quad_first_stage
  ctx,     \* its QuadContext
  stack,   \* the C call stack, innermost activation last
  ret,     \* the QuadValue the last call of quad_emit_expr returned
  rc       \* the result of quad_first_stage, RUNNING before it returns
vars == <<program, ctx, stack, ret, rc>>

RUNNING == -1

----------------------------------------------------------------------------
(* A line of the temporary file.  "label" is the label that LABEL defines  *)
(* and that JUMP and JMPZ name, 0 in the other lines.                      *)

Quad(op, args) == [op |-> op, label |-> 0, args |-> args]
LABEL(l)   == [op |-> "LABEL", label |-> l, args |-> <<>>]
JUMP(l)    == [op |-> "JUMP",  label |-> l, args |-> <<>>]
JMPZ(l, p) == [op |-> "JMPZ",  label |-> l, args |-> <<p>>]

\* The operands: a temporary, or the text of an identifier or literal
Temp(n) == [temp |-> n]
Txt(t)  == [text |-> t]
Value(type, place) == [type |-> type, place |-> place]
NoValue == Value(INT, Txt(""))

\* What a helper does to the context, and the value it returns
Result(c, v) == [ctx |-> c, val |-> v]

quad_emitf(c, line) ==
  IF c.error THEN c
  ELSE IF Len(c.out) >= c.capacity THEN [c EXCEPT !.error = TRUE]
  ELSE [c EXCEPT !.out = Append(@, line)]

quad_new_label(c) == [c EXCEPT !.label_counter = @ + 1]

\* Faulty: the counter stays where it is
quad_new_temp_Stuck(c) == c

quad_new_temp(c)  == [c EXCEPT !.temp_counter = @ + 1]

quad_symbol_type(c, name) ==
  IF name \in DOMAIN c.symbols THEN [ctx |-> c, type |-> c.symbols[name]]
  ELSE [ctx |-> [c EXCEPT !.error = TRUE], type |-> INT]

quad_tmp(c, type) ==
  LET d == quad_new_temp(c) IN Result(d, Value(type, Temp(d.temp_counter)))

\* A new temporary, and the line that computes it
EmitUnary(c, type, op, a) ==
  LET t == quad_tmp(c, type)
  IN  Result(quad_emitf(t.ctx, Quad(op, <<t.val.place, a>>)), t.val)
EmitTemp(c, type, op, a, b) ==
  LET t == quad_tmp(c, type)
  IN  Result(quad_emitf(t.ctx, Quad(op, <<t.val.place, a, b>>)), t.val)

quad_to_float(c, v) ==
  IF c.error \/ v.type = FLOAT THEN Result(c, v)
  ELSE EmitUnary(c, FLOAT, "ITOR", v.place)

\* Faulty: a value that is an int already is forgotten
quad_to_int_Forgets(c, v) ==
  IF c.error \/ v.type = INT THEN Result(c, NoValue)
  ELSE EmitUnary(c, INT, "RTOI", v.place)

quad_to_int(c, v) ==
  IF c.error \/ v.type = INT THEN Result(c, v)
  ELSE EmitUnary(c, INT, "RTOI", v.place)

quad_to_bool_int(c, v) ==
  IF v.type = INT THEN Result(c, v)
  ELSE EmitTemp(c, INT, "RNQL", v.place, Txt("0.0"))

quad_invert_bool(c, v) == EmitTemp(c, INT, "IEQL", v.place, Txt("0"))

quad_is_float(l, r) == l.type = FLOAT \/ r.type = FLOAT

\* Faulty: the right operand is not converted
quad_emit_pair_LeftOnly(c, op, type, l, r) ==
  LET out == quad_tmp(c, type)
      fl  == quad_to_float(out.ctx, l)
      rop == Quad(op.rop, <<out.val.place, fl.val.place, r.place>>)
      iop == Quad(op.iop, <<out.val.place, l.place, r.place>>)
  IN  IF quad_is_float(l, r) THEN Result(quad_emitf(fl.ctx, rop), out.val)
      ELSE Result(quad_emitf(out.ctx, iop), out.val)

\* quad_emit_arith and quad_emit_cmp, which differ in the type of the result:
\* its temporary is taken before those of the conversions
quad_emit_pair(c, op, type, l, r) ==
  LET out == quad_tmp(c, type)
      fl  == quad_to_float(out.ctx, l)
      fr  == quad_to_float(fl.ctx, r)
  IN  IF quad_is_float(l, r)
      THEN Result(quad_emitf(fr.ctx, Quad(op.rop, <<out.val.place, fl.val.place, fr.val.place>>)),
                  out.val)
      ELSE Result(quad_emitf(out.ctx, Quad(op.iop, <<out.val.place, l.place, r.place>>)),
                  out.val)

quad_emit_arith(c, op, l, r) ==
  quad_emit_pair(c, op, IF quad_is_float(l, r) THEN FLOAT ELSE INT, l, r)
quad_emit_cmp(c, op, l, r) == quad_emit_pair(c, op, INT, l, r)

\* The opcodes of an operator.  GE and LE are the inverse of LT and GT
QuadOpPair == [op \in ArithOp \cup RelOp |->
  CASE op = "ADD" -> [iop |-> "IADD", rop |-> "RADD"]
    [] op = "SUB" -> [iop |-> "ISUB", rop |-> "RSUB"]
    [] op = "MUL" -> [iop |-> "IMLT", rop |-> "RMLT"]
    [] op = "DIV" -> [iop |-> "IDIV", rop |-> "RDIV"]
    [] op = "EQ"  -> [iop |-> "IEQL", rop |-> "REQL"]
    [] op = "NE"  -> [iop |-> "INQL", rop |-> "RNQL"]
    [] op \in {"LT", "GE"} -> [iop |-> "ILSS", rop |-> "RLSS"]
    [] op \in {"GT", "LE"} -> [iop |-> "IGRT", rop |-> "RGRT"]]

\* The operators that have no opcode: a || b is a + b > 0, a && b is a * b
quad_emit_or(c, l, r) ==
  LET bl  == quad_to_bool_int(c, l)
      br  == quad_to_bool_int(bl.ctx, r)
      sum == EmitTemp(br.ctx, INT, "IADD", bl.val.place, br.val.place)
  IN  EmitTemp(sum.ctx, INT, "IGRT", sum.val.place, Txt("0"))

quad_emit_and(c, l, r) ==
  LET bl == quad_to_bool_int(c, l)
      br == quad_to_bool_int(bl.ctx, r)
  IN  EmitTemp(br.ctx, INT, "IMLT", bl.val.place, br.val.place)

quad_emit_inverse(c, op, l, r) ==
  LET b == quad_emit_cmp(c, op, l, r) IN quad_invert_bool(b.ctx, b.val)

\* quad_emit_binary, once both operands are evaluated
quad_emit_binary(c, op, l, r) ==
  IF c.error THEN Result(c, NoValue)
  ELSE CASE op \in ArithOp -> quad_emit_arith(c, QuadOpPair[op], l, r)
         [] op \in {"EQ", "NE", "LT", "GT"} -> quad_emit_cmp(c, QuadOpPair[op], l, r)
         [] op \in {"GE", "LE"} -> quad_emit_inverse(c, QuadOpPair[op], l, r)
         [] op = "OR"  -> quad_emit_or(c, l, r)
         [] op = "AND" -> quad_emit_and(c, l, r)

----------------------------------------------------------------------------
(* The stack of break labels.  Popping does not look at ctx.error: after   *)
(* an overflow it takes away the label of an outer statement.              *)

quad_push_break(c, label) ==
  IF Len(c.break_labels) >= MAX_BREAK_DEPTH THEN [c EXCEPT !.error = TRUE]
  ELSE [c EXCEPT !.break_labels = Append(@, label)]

quad_pop_break(c) ==
  IF c.break_labels = <<>> THEN c
  ELSE [c EXCEPT !.break_labels = SubSeq(@, 1, Len(@) - 1)]

----------------------------------------------------------------------------
(* The C call stack.                                                       *)

Frame(fn, node, rest) ==
  [fn |-> fn, pc |-> "enter", node |-> node, rest |-> rest,
   label |-> 0,       \* l_else, l_start or l_next
   l_end |-> 0,
   val |-> NoValue]   \* dst and id of ASSIGN, svi of SWITCH, left of BINARY
Stmt(stmt) == Frame("statement", stmt, <<>>)
List(list) == Frame("list", NULL, list)
Expr(expr) == Frame("expr", expr, <<>>)

depth == Len(stack)
top   == stack[depth]
At(fn, pc)       == stack # <<>> /\ top.fn = fn /\ top.pc = pc
AtNode(fn, kinds, pc) == At(fn, pc) /\ top.node.kind \in kinds

Stay(frame) == stack' = [stack EXCEPT ![depth] = frame] /\ ret' = NoValue
Call(frame, callee) ==
  stack' = Append([stack EXCEPT ![depth] = frame], callee) /\ ret' = NoValue
Return(value) == stack' = SubSeq(stack, 1, depth - 1) /\ ret' = value

Constant == UNCHANGED <<program, rc>>
Silent   == UNCHANGED <<program, rc, ctx>>

Init ==
  /\ program \in Program
  /\ \E capacity \in Capacity :
       ctx = [out |-> <<>>, capacity |-> capacity, symbols |-> program.symbols,
              temp_counter |-> 0, label_counter |-> 0, break_labels |-> <<>>,
              error |-> FALSE]
  /\ stack = <<Stmt(program.body)>>
  /\ ret = NoValue
  /\ rc = RUNNING

----------------------------------------------------------------------------
(* quad_emit_statement                                                     *)

\* if (!stmt || ctx->error) return;
StatementSkip ==
  /\ At("statement", "enter") /\ (ctx.error \/ top.node = NULL)
  /\ Return(NoValue) /\ Silent

Enter(kind) == AtNode("statement", {kind}, "enter") /\ ~ctx.error
Resume(kind, pc) == AtNode("statement", {kind}, pc)

AssignExpression ==
  /\ Enter("ASSIGN")
  /\ LET id == top.node.identifier
         dst == quad_symbol_type(ctx, id)
     IN  /\ ctx' = dst.ctx
         /\ Call([top EXCEPT !.pc = "assign", !.val = Value(dst.type, Txt(id))],
                 Expr(top.node.expression))
  /\ Constant

\* IASN or RASN by the type of the target; an int is converted to a float target
Assign ==
  /\ Resume("ASSIGN", "assign")
  /\ LET dst == top.val
         src == IF dst.type = FLOAT /\ ret.type = INT THEN quad_to_float(ctx, ret)
                ELSE Result(ctx, ret)
         op == IF dst.type = INT THEN "IASN" ELSE "RASN"
     IN  ctx' = IF ctx.error THEN ctx
                ELSE quad_emitf(src.ctx, Quad(op, <<dst.place, src.val.place>>))
  /\ Return(NoValue) /\ Constant

Input ==
  /\ Enter("INPUT")
  /\ LET id == top.node.identifier
         t == quad_symbol_type(ctx, id)
     IN  ctx' = quad_emitf(t.ctx, Quad(IF t.type = INT THEN "IINP" ELSE "RINP", <<Txt(id)>>))
  /\ Return(NoValue) /\ Constant

OutputExpression ==
  /\ Enter("OUTPUT")
  /\ Call([top EXCEPT !.pc = "output"], Expr(top.node.expression)) /\ Silent

Output ==
  /\ Resume("OUTPUT", "output")
  /\ ctx' = quad_emitf(ctx, Quad(IF ret.type = INT THEN "IPRT" ELSE "RPRT", <<ret.place>>))
  /\ Return(NoValue) /\ Constant

\* Faulty: one label for both ends
IfCondition_OneLabel ==
  /\ Enter("IF")
  /\ ctx' = quad_new_label(ctx)
  /\ Call([top EXCEPT !.pc = "condition", !.label = ctx'.label_counter,
                      !.l_end = ctx'.label_counter],
          Expr(top.node.condition))
  /\ Constant

\* Both labels are taken, also when there is no else
IfCondition ==
  /\ Enter("IF")
  /\ LET l_else == quad_new_label(ctx)
         l_end  == quad_new_label(l_else)
     IN  /\ ctx' = l_end
         /\ Call([top EXCEPT !.pc = "condition", !.label = l_else.label_counter,
                             !.l_end = l_end.label_counter],
                 Expr(top.node.condition))
  /\ Constant

IfThen ==
  /\ Resume("IF", "condition")
  /\ LET c == quad_to_bool_int(ctx, ret)
     IN  ctx' = quad_emitf(c.ctx, JMPZ(top.label, c.val.place))
  /\ Call([top EXCEPT !.pc = "then"], Stmt(top.node.then_stmt)) /\ Constant

\* Faulty: the wrong one of the two labels
IfWithoutElse_EndLabel ==
  /\ Resume("IF", "then") /\ top.node.else_stmt = NULL
  /\ ctx' = quad_emitf(ctx, LABEL(top.l_end))
  /\ Return(NoValue) /\ Constant

IfWithoutElse ==
  /\ Resume("IF", "then") /\ top.node.else_stmt = NULL
  /\ ctx' = quad_emitf(ctx, LABEL(top.label))
  /\ Return(NoValue) /\ Constant

IfElse ==
  /\ Resume("IF", "then") /\ top.node.else_stmt # NULL
  /\ ctx' = quad_emitf(quad_emitf(ctx, JUMP(top.l_end)), LABEL(top.label))
  /\ Call([top EXCEPT !.pc = "else"], Stmt(top.node.else_stmt)) /\ Constant

IfEnd ==
  /\ Resume("IF", "else")
  /\ ctx' = quad_emitf(ctx, LABEL(top.l_end))
  /\ Return(NoValue) /\ Constant

WhileCondition ==
  /\ Enter("WHILE")
  /\ LET l_start == quad_new_label(ctx)
         l_end   == quad_new_label(l_start)
     IN  /\ ctx' = quad_emitf(l_end, LABEL(l_start.label_counter))
         /\ Call([top EXCEPT !.pc = "condition", !.label = l_start.label_counter,
                             !.l_end = l_end.label_counter],
                 Expr(top.node.condition))
  /\ Constant

WhileBody ==
  /\ Resume("WHILE", "condition")
  /\ LET c == quad_to_bool_int(ctx, ret)
     IN  ctx' = quad_push_break(quad_emitf(c.ctx, JMPZ(top.l_end, c.val.place)), depth)
  /\ Call([top EXCEPT !.pc = "body"], Stmt(top.node.body)) /\ Constant

\* Faulty: the break label is left behind
WhileEnd_NoPop ==
  /\ Resume("WHILE", "body")
  /\ ctx' = quad_emitf(quad_emitf(ctx, JUMP(top.label)), LABEL(top.l_end))
  /\ Return(NoValue) /\ Constant

WhileEnd ==
  /\ Resume("WHILE", "body")
  /\ LET c == quad_pop_break(ctx)
     IN  ctx' = quad_emitf(quad_emitf(c, JUMP(top.label)), LABEL(top.l_end))
  /\ Return(NoValue) /\ Constant

SwitchExpression ==
  /\ Enter("SWITCH")
  /\ ctx' = quad_new_label(ctx)
  /\ Call([top EXCEPT !.pc = "expression", !.l_end = ctx'.label_counter],
          Expr(top.node.expression))
  /\ Constant

\* Faulty: a switch pushes no break label
SwitchValue_NoPush ==
  /\ Resume("SWITCH", "expression")
  /\ LET svi == quad_to_int(ctx, ret)
     IN  /\ ctx' = svi.ctx
         /\ Stay([top EXCEPT !.pc = "cases", !.rest = top.node.cases, !.val = svi.val])
  /\ Constant

SwitchValue ==
  /\ Resume("SWITCH", "expression")
  /\ LET svi == quad_to_int(ctx, ret)
     IN  /\ ctx' = quad_push_break(svi.ctx, depth)
         /\ Stay([top EXCEPT !.pc = "cases", !.rest = top.node.cases, !.val = svi.val])
  /\ Constant

\* One test per case: a case whose literal differs goes to the next test
SwitchCase ==
  /\ Resume("SWITCH", "cases") /\ top.rest # <<>> /\ ~ctx.error
  /\ LET case == Head(top.rest)
         l_next == quad_new_label(ctx)
         cmp == EmitTemp(l_next, INT, "IEQL", top.val.place, Txt(case.int_literal))
     IN  /\ ctx' = quad_emitf(cmp.ctx, JMPZ(l_next.label_counter, cmp.val.place))
         /\ Call([top EXCEPT !.pc = "case", !.label = l_next.label_counter, !.rest = Tail(@)],
                 List(case.statements))
  /\ Constant

\* Faulty: the label of the next test is forgotten
SwitchNext_NoLabel ==
  /\ Resume("SWITCH", "case")
  /\ Stay([top EXCEPT !.pc = "cases"]) /\ Silent

SwitchNext ==
  /\ Resume("SWITCH", "case")
  /\ ctx' = quad_emitf(ctx, LABEL(top.label))
  /\ Stay([top EXCEPT !.pc = "cases"]) /\ Constant

SwitchDefault ==
  /\ Resume("SWITCH", "cases") /\ (top.rest = <<>> \/ ctx.error)
  /\ Call([top EXCEPT !.pc = "default"], List(top.node.default_statements)) /\ Silent

SwitchEnd ==
  /\ Resume("SWITCH", "default")
  /\ ctx' = quad_pop_break(quad_emitf(ctx, LABEL(top.l_end)))
  /\ Return(NoValue) /\ Constant

\* Faulty: the outermost statement is left
Break_Outermost ==
  /\ Enter("BREAK")
  /\ ctx' = IF ctx.break_labels = <<>> THEN [ctx EXCEPT !.error = TRUE]
            ELSE quad_emitf(ctx, JUMP(stack[ctx.break_labels[1]].l_end))
  /\ Return(NoValue) /\ Constant

\* Jumps to the l_end of the activation on top of break_labels
Break ==
  /\ Enter("BREAK")
  /\ ctx' = IF ctx.break_labels = <<>> THEN [ctx EXCEPT !.error = TRUE]
            ELSE quad_emitf(ctx, JUMP(stack[ctx.break_labels[Len(ctx.break_labels)]].l_end))
  /\ Return(NoValue) /\ Constant

Block ==
  /\ Enter("BLOCK")
  /\ Call([top EXCEPT !.pc = "block"], List(top.node.statements)) /\ Silent

BlockEnd == Resume("BLOCK", "block") /\ Return(NoValue) /\ Silent

----------------------------------------------------------------------------
(* quad_emit_stmt_list                                                     *)

ListNext ==
  /\ At("list", "enter") /\ top.rest # <<>> /\ ~ctx.error
  /\ Call([top EXCEPT !.rest = Tail(@)], Stmt(Head(top.rest))) /\ Silent

ListEnd ==
  /\ At("list", "enter") /\ (top.rest = <<>> \/ ctx.error)
  /\ Return(NoValue) /\ Silent

----------------------------------------------------------------------------
(* quad_emit_expr.  It runs to its end also when ctx.error is set.         *)

ExprId ==
  /\ AtNode("expr", {"ID"}, "enter")
  /\ LET id == top.node.identifier
         t == quad_symbol_type(ctx, id)
     IN  ctx' = t.ctx /\ Return(Value(t.type, Txt(Prefix63[id])))
  /\ Constant

ExprLiteral ==
  /\ AtNode("expr", {"INT_LITERAL", "FLOAT_LITERAL"}, "enter")
  /\ Return(Value(IF top.node.kind = "INT_LITERAL" THEN INT ELSE FLOAT,
                  Txt(Prefix63[top.node.number_text])))
  /\ Silent

Unary == {"CAST_INT", "CAST_FLOAT", "NOT"}

ExprOperand ==
  /\ AtNode("expr", Unary, "enter")
  /\ Call([top EXCEPT !.pc = "operand"], Expr(top.node.operand)) /\ Silent

ExprUnary ==
  /\ AtNode("expr", Unary, "operand")
  /\ LET b == quad_to_bool_int(ctx, ret)
         r == CASE top.node.kind = "CAST_INT"   -> quad_to_int(ctx, ret)
                [] top.node.kind = "CAST_FLOAT" -> quad_to_float(ctx, ret)
                [] top.node.kind = "NOT"        -> quad_invert_bool(b.ctx, b.val)
     IN  ctx' = r.ctx /\ Return(r.val)
  /\ Constant

ExprLeft ==
  /\ AtNode("expr", {"BINARY"}, "enter")
  /\ Call([top EXCEPT !.pc = "left"], Expr(top.node.left)) /\ Silent

ExprRight ==
  /\ AtNode("expr", {"BINARY"}, "left")
  /\ Call([top EXCEPT !.pc = "right", !.val = ret], Expr(top.node.right)) /\ Silent

ExprBinary ==
  /\ AtNode("expr", {"BINARY"}, "right")
  /\ LET r == quad_emit_binary(ctx, top.node.op, top.val, ret)
     IN  ctx' = r.ctx /\ Return(r.val)
  /\ Constant

----------------------------------------------------------------------------
(* quad_first_stage, once quad_emit_statement has returned                 *)

Finish ==
  /\ stack = <<>> /\ rc = RUNNING
  /\ ctx' = IF ctx.error THEN ctx
            ELSE quad_emitf(quad_emitf(ctx, Quad("HALT", <<>>)), Quad("SIGNATURE", <<>>))
  /\ rc' = IF ctx'.error THEN 1 ELSE 0
  /\ UNCHANGED <<program, stack, ret>>

Terminated == rc # RUNNING /\ UNCHANGED vars

StatementStep ==
  \/ StatementSkip
  \/ AssignExpression \/ Assign \/ Input \/ OutputExpression \/ Output
  \/ IfCondition \/ IfThen \/ IfWithoutElse \/ IfElse \/ IfEnd
  \/ WhileCondition \/ WhileBody \/ WhileEnd
  \/ SwitchExpression \/ SwitchValue \/ SwitchCase \/ SwitchNext
  \/ SwitchDefault \/ SwitchEnd
  \/ Break \/ Block \/ BlockEnd
ListStep == ListNext \/ ListEnd
ExprStep ==
  \/ ExprId \/ ExprLiteral \/ ExprOperand \/ ExprUnary
  \/ ExprLeft \/ ExprRight \/ ExprBinary
Step == StatementStep \/ ListStep \/ ExprStep \/ Finish

Next == Step \/ Terminated
Spec == Init /\ [][Next]_vars
FairSpec == Spec /\ WF_vars(Step)

----------------------------------------------------------------------------
(* Types                                                                   *)

Place    == [temp : Nat] \cup [text : Text]
QuadValue == [type : AstType, place : Place]
Op ==
  {"ITOR", "RTOI", "IADD", "RADD", "ISUB", "RSUB", "IMLT", "RMLT", "IDIV", "RDIV",
   "IEQL", "REQL", "INQL", "RNQL", "ILSS", "RLSS", "IGRT", "RGRT", "IASN", "RASN",
   "IINP", "RINP", "IPRT", "RPRT", "HALT", "SIGNATURE", "LABEL", "JUMP", "JMPZ"}
Line == [op : Op, label : Nat, args : Seq(Place)]
QuadContext ==
  [out : Seq(Line), capacity : Nat, symbols : SymbolTable, temp_counter : Nat,
   label_counter : Nat, break_labels : Seq(Nat), error : BOOLEAN]

Case == CaseOver(NumInt, Statement)
FrameOf(fn, pcs, nodes, rests) ==
  [fn : {fn}, pc : pcs, node : nodes, rest : rests, label : Nat, l_end : Nat, val : QuadValue]
StatementPc ==
  {"enter", "assign", "output", "condition", "then", "else", "body", "expression",
   "cases", "case", "default", "block"}
StatementFrame == FrameOf("statement", StatementPc, Statement \cup {NULL}, Seq(Case))
ListFrame == FrameOf("list", {"enter"}, {NULL}, Seq(Statement))
ExprFrame ==
  FrameOf("expr", {"enter", "operand", "left", "right"}, Expression \cup Condition, {<<>>})

AnyFrame == StatementFrame \cup ListFrame \cup ExprFrame

TypeOK ==
  /\ program \in ProgramType
  /\ ctx \in QuadContext
  /\ stack \in Seq(AnyFrame)
  /\ ret \in QuadValue
  /\ rc \in {RUNNING, 0, 1}

----------------------------------------------------------------------------
(* Labels                                                                  *)

IsLabel(line) == line.op = "LABEL"
IsJump(line)  == line.op \in {"JUMP", "JMPZ"}
LabelsIn(out) == {out[i].label : i \in {j \in DOMAIN out : IsLabel(out[j])}}
JumpsIn(out)  == {out[i].label : i \in {j \in DOMAIN out : IsJump(out[j])}}
DistinctLabels(out) ==
  \A i, j \in DOMAIN out :
    (IsLabel(out[i]) /\ IsLabel(out[j]) /\ out[i].label = out[j].label) => i = j

\* When the first stage succeeds, every label that a jump names is defined in
\* the temporary file: quad_finalize finds a line for it.  IF, WHILE, SWITCH and
\* BREAK write the jump long before, or in another activation than, the label.
JumpsResolved == rc = 0 => JumpsIn(ctx.out) \subseteq LabelsIn(ctx.out)

\* No label is defined twice: quad_find_label takes the first entry of its name
\* and would send the jumps to the second one elsewhere.
LabelsUnique == DistinctLabels(ctx.out)

\* An activation that a BREAK below it may leave
Breakable(frame) ==
  /\ frame.fn = "statement"
  /\ \/ frame.node.kind = "WHILE" /\ frame.pc = "body"
     \/ frame.node.kind = "SWITCH" /\ frame.pc \in {"cases", "case", "default"}

\* break_labels never holds a pointer into an activation that has returned, nor
\* one twice, also while the calls unwind after an error, when a label that was
\* not pushed is popped all the same.
NoDanglingBreakLabel ==
  /\ \A k \in DOMAIN ctx.break_labels :
       ctx.break_labels[k] \in 1 .. depth /\ Breakable(stack[ctx.break_labels[k]])
  /\ \A k, m \in DOMAIN ctx.break_labels :
       k < m => ctx.break_labels[k] < ctx.break_labels[m]

\* While nothing has failed, break_labels holds exactly the loops and switches
\* that are being emitted.
BreakStackMirrorsNesting ==
  ~ctx.error => \A i \in 1 .. depth :
    Breakable(stack[i]) => \E k \in DOMAIN ctx.break_labels : ctx.break_labels[k] = i

\* A break that is emitted leaves the innermost enclosing loop or switch, and
\* there is one: a misplaced break never gets through.
BreakLeavesInnermost ==
  [][ (At("statement", "enter") /\ top.node.kind = "BREAK" /\ ctx'.out # ctx.out) =>
        \E i \in 1 .. depth :
          /\ Breakable(stack[i])
          /\ \A j \in i + 1 .. depth : ~Breakable(stack[j])
          /\ ctx'.out = Append(ctx.out, JUMP(stack[i].l_end)) ]_vars

----------------------------------------------------------------------------
(* Why the jumps are resolved.  An activation owes the labels that it has  *)
(* taken and will still define.                                            *)

OwesLabel(frame) ==
  /\ frame.fn = "statement"
  /\ \/ frame.node.kind = "IF" /\ frame.pc \in {"condition", "then"}
     \/ frame.node.kind = "SWITCH" /\ frame.pc = "case"
OwesEnd(frame) ==
  /\ frame.fn = "statement"
  /\ \/ /\ frame.node.kind = "IF" /\ frame.pc \in {"condition", "then"}
        /\ frame.node.else_stmt # NULL
     \/ frame.node.kind = "IF" /\ frame.pc = "else"
     \/ frame.node.kind = "WHILE" /\ frame.pc \in {"condition", "body"}
     \/ frame.node.kind = "SWITCH" /\ frame.pc \in {"expression", "cases", "case", "default"}
Owed(frame) ==
  {l \in {frame.label, frame.l_end} : \/ l = frame.label /\ OwesLabel(frame)
                                      \/ l = frame.l_end /\ OwesEnd(frame)}

\* An activation of WHILE that will jump back to its l_start
Loops(frame) ==
  frame.fn = "statement" /\ frame.node.kind = "WHILE" /\ frame.pc \in {"condition", "body"}

\* Labels are owed by one activation at a time, and not defined before.
OwedOnce ==
  /\ LabelsIn(ctx.out) \subseteq 1 .. ctx.label_counter
  /\ \A k \in 1 .. depth :
       /\ Owed(stack[k]) \subseteq (1 .. ctx.label_counter) \ LabelsIn(ctx.out)
       /\ OwesLabel(stack[k]) /\ OwesEnd(stack[k]) => stack[k].label # stack[k].l_end
       /\ \A m \in 1 .. depth : k # m => Owed(stack[k]) \cap Owed(stack[m]) = {}

\* While nothing has failed, a jump is resolved or some activation owes its label.
JumpsOwed ==
  ~ctx.error =>
    /\ JumpsIn(ctx.out) \subseteq LabelsIn(ctx.out) \cup UNION {Owed(stack[k]) : k \in 1 .. depth}
    /\ \A k \in 1 .. depth : Loops(stack[k]) => stack[k].label \in LabelsIn(ctx.out)

\* Together with what is true of break_labels and of the return this is inductive:
\* it holds at every step of the walk, and gives JumpsResolved at its end.
LabelInv ==
  /\ LabelsUnique
  /\ OwedOnce
  /\ JumpsOwed
  /\ NoDanglingBreakLabel
  /\ rc # RUNNING => stack = <<>>
  /\ rc = 0 => ~ctx.error

----------------------------------------------------------------------------
(* Operands                                                                *)

Computes(line) == line.op \notin
  {"LABEL", "JUMP", "JMPZ", "HALT", "SIGNATURE", "IPRT", "RPRT"}
Target(line) == line.args[1]
\* The operands that a line reads
Sources(line) ==
  IF line.op \in {"IINP", "RINP"} THEN {}
  ELSE {line.args[k] : k \in {m \in DOMAIN line.args : m > 1 \/ ~Computes(line)}}
IsTemp(place) == "temp" \in DOMAIN place

\* A temporary is computed by one line, and read only below it.
TempsComputedOnce ==
  \A i \in DOMAIN ctx.out :
    /\ Computes(ctx.out[i]) /\ IsTemp(Target(ctx.out[i])) =>
         \A j \in DOMAIN ctx.out :
           (Computes(ctx.out[j]) /\ Target(ctx.out[j]) = Target(ctx.out[i])) => i = j
    /\ \A p \in Sources(ctx.out[i]) : IsTemp(p) =>
         \E j \in 1 .. i - 1 : Computes(ctx.out[j]) /\ Target(ctx.out[j]) = p

\* The type that an opcode writes, and the type of the operands it reads
ResultType(op) ==
  IF op \in {"ITOR", "RADD", "RSUB", "RMLT", "RDIV", "RASN", "RINP"} THEN FLOAT ELSE INT
OperandType(op) ==
  IF op \in {"RTOI", "RADD", "RSUB", "RMLT", "RDIV", "REQL", "RNQL", "RLSS", "RGRT",
             "RASN", "RPRT"} THEN FLOAT ELSE INT

\* "place" holds a value of the type: a temporary by the line that computes it
HasType(place, type) ==
  IF IsTemp(place)
  THEN \A i \in DOMAIN ctx.out :
         (Computes(ctx.out[i]) /\ Target(ctx.out[i]) = place) => ResultType(ctx.out[i].op) = type
  ELSE \/ place.text \in Id /\ place.text \in DOMAIN ctx.symbols /\ ctx.symbols[place.text] = type
       \/ place.text \in NumInt \cup {"0"} /\ type = INT
       \/ place.text \in NumFloat \cup {"0.0"} /\ type = FLOAT

\* Every operand has the type its opcode asks for, as quad_runner.py requires of
\* it, and JMPZ tests a variable.  This holds of a program that semantics.c lets
\* through: the two agree on the type of every expression.
OperandsTyped ==
  \A i \in DOMAIN ctx.out : LET line == ctx.out[i] IN
    /\ \A p \in Sources(line) : HasType(p, OperandType(line.op))
    /\ Computes(line) => HasType(Target(line), ResultType(line.op))
    /\ line.op = "JMPZ" => IsTemp(line.args[1])

\* What an expression that is an identifier or a literal hands to its statement
\* is that identifier or literal, whatever its length: "ids can be written as
\* they are", "literals can be written as they are" (quad.c:140, 146, 152).
WrittenAsTheyAre ==
  At("statement", "assign") =>
    LET expr == top.node.expression IN
    /\ expr.kind = "ID" => ret.place = Txt(expr.identifier)
    /\ expr.kind \in {"INT_LITERAL", "FLOAT_LITERAL"} => ret.place = Txt(expr.number_text)

============================================================================
