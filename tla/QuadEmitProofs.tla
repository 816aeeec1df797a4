--------------------------- MODULE QuadEmitProofs ---------------------------
(***************************************************************************)
(* Proofs about QuadEmit for every set of programs, every capacity of the  *)
(* file and every MAX_BREAK_DEPTH.                                         *)
(***************************************************************************)
EXTENDS QuadEmit, SequenceTheorems, TLAPS

(***************************************************************************)
(* Lines                                                                   *)
(***************************************************************************)

\* What one more line does to the labels of the file
LEMMA AppendLine ==
  ASSUME NEW out \in Seq(Line), NEW line \in Line
  PROVE  /\ Append(out, line) \in Seq(Line)
         /\ LabelsIn(Append(out, line)) =
              LabelsIn(out) \cup (IF IsLabel(line) THEN {line.label} ELSE {})
         /\ JumpsIn(Append(out, line)) =
              JumpsIn(out) \cup (IF IsJump(line) THEN {line.label} ELSE {})
         /\ DistinctLabels(out) /\ (IsLabel(line) => line.label \notin LabelsIn(out))
              => DistinctLabels(Append(out, line))
  <1> DEFINE new == Append(out, line)
  <1>1. /\ new \in Seq(Line) /\ Len(new) = Len(out) + 1 /\ Len(out) \in Nat
        /\ \A i \in 1 .. Len(out) : new[i] = out[i]
        /\ new[Len(out) + 1] = line
        /\ DOMAIN new = 1 .. Len(out) + 1 /\ DOMAIN out = 1 .. Len(out)
    OBVIOUS
  <1> HIDE DEF new
  <1>2. LabelsIn(new) = LabelsIn(out) \cup (IF IsLabel(line) THEN {line.label} ELSE {})
    BY <1>1 DEF LabelsIn
  <1>3. JumpsIn(new) = JumpsIn(out) \cup (IF IsJump(line) THEN {line.label} ELSE {})
    BY <1>1 DEF JumpsIn
  <1>4. ASSUME DistinctLabels(out), IsLabel(line) => line.label \notin LabelsIn(out)
        PROVE  DistinctLabels(new)
    BY <1>1, <1>4 DEF DistinctLabels, LabelsIn
  <1> QED BY <1>1, <1>2, <1>3, <1>4 DEF new

LEMMA Pop ==
  ASSUME NEW S, NEW s \in Seq(S), s # <<>>
  PROVE  /\ SubSeq(s, 1, Len(s) - 1) \in Seq(S)
         /\ Len(SubSeq(s, 1, Len(s) - 1)) = Len(s) - 1
         /\ Len(s) - 1 \in Nat
         /\ \A i \in 1 .. Len(s) - 1 : SubSeq(s, 1, Len(s) - 1)[i] = s[i]
  <1>1. Len(s) \in Nat /\ Len(s) >= 1
    OBVIOUS
  <1> DEFINE n == Len(s) - 1
  <1>2. n \in Nat /\ \A i \in 1 .. n : s[i] \in S
    BY <1>1
  <1> HIDE DEF n
  <1>3. /\ SubSeq(s, 1, n) \in Seq(S)
        /\ Len(SubSeq(s, 1, n)) = IF 1 <= n THEN n - 1 + 1 ELSE 0
        /\ \A i \in 1 .. n - 1 + 1 : SubSeq(s, 1, n)[i] = s[1 + i - 1]
    BY <1>2, SubSeqProperties
  <1>4. \A i \in 1 .. n : SubSeq(s, 1, n)[i] = s[i]
    BY <1>2, <1>3
  <1>5. /\ SubSeq(s, 1, n) \in Seq(S)
        /\ Len(SubSeq(s, 1, n)) = n
        /\ n \in Nat
        /\ \A i \in 1 .. n : SubSeq(s, 1, n)[i] = s[i]
    <2>1. (IF 1 <= n THEN n - 1 + 1 ELSE 0) = n
      BY <1>2
    <2>2. Len(SubSeq(s, 1, n)) = n
      BY <1>3, <2>1
    <2> QED BY <1>2, <1>3, <1>4, <2>2
  <1> QED BY <1>5 DEF n

(***************************************************************************)
(* The context                                                             *)
(***************************************************************************)

\* The fields of a context, for the provers: what an update of one leaves alone
LEMMA ContextFields ==
  ASSUME NEW c \in QuadContext
  PROVE  /\ c.out \in Seq(Line) /\ c.capacity \in Nat /\ c.symbols \in SymbolTable
         /\ c.temp_counter \in Nat /\ c.label_counter \in Nat
         /\ c.break_labels \in Seq(Nat) /\ c.error \in BOOLEAN
  BY DEF QuadContext

\* What writing a line does
LEMMA EmitLine ==
  ASSUME NEW c \in QuadContext, NEW line \in Line, NEW d, d = quad_emitf(c, line)
  PROVE  /\ d \in QuadContext
         /\ d.label_counter = c.label_counter /\ d.break_labels = c.break_labels
         /\ c.error => d.error
         /\ LabelsIn(c.out) \subseteq LabelsIn(d.out)
         /\ LabelsIn(d.out) \subseteq LabelsIn(c.out) \cup (IF IsLabel(line) THEN {line.label} ELSE {})
         /\ JumpsIn(d.out) \subseteq JumpsIn(c.out) \cup (IF IsJump(line) THEN {line.label} ELSE {})
         /\ IsLabel(line) /\ ~d.error => line.label \in LabelsIn(d.out)
         /\ DistinctLabels(c.out) /\ (IsLabel(line) => line.label \notin LabelsIn(c.out))
              => DistinctLabels(d.out)
  <1>1. CASE c.error
    BY <1>1 DEF quad_emitf
  <1>2. CASE ~c.error /\ Len(c.out) >= c.capacity
    BY <1>2 DEF quad_emitf, QuadContext
  <1>3. CASE ~c.error /\ ~(Len(c.out) >= c.capacity)
    <2>1. d = [c EXCEPT !.out = Append(@, line)]
      BY <1>3 DEF quad_emitf
    <2>2. d \in QuadContext /\ d.out = Append(c.out, line)
          /\ d.label_counter = c.label_counter /\ d.break_labels = c.break_labels
          /\ d.error = c.error /\ c.out \in Seq(Line)
      BY <2>1, AppendLine DEF QuadContext
    <2> QED BY <1>3, <2>2, AppendLine
  <1> QED BY <1>1, <1>2, <1>3

\* d is c after lines that concern no label, or after a failure to write them
Quiet(c, d) ==
  /\ d \in QuadContext
  /\ d.label_counter = c.label_counter /\ d.break_labels = c.break_labels
  /\ c.error => d.error
  /\ LabelsIn(d.out) = LabelsIn(c.out) /\ JumpsIn(d.out) \subseteq JumpsIn(c.out)
  /\ DistinctLabels(c.out) => DistinctLabels(d.out)

\* The result of a helper that computes a value
Computed(c, r) == Quiet(c, r.ctx) /\ r.val \in QuadValue

LEMMA QuietReflexive == ASSUME NEW c \in QuadContext PROVE Quiet(c, c)
  BY DEF Quiet

LEMMA QuietTransitive ==
  ASSUME NEW c, NEW d, NEW e, Quiet(c, d), Quiet(d, e)
  PROVE  Quiet(c, e)
  BY DEF Quiet

PlainOp == Op \ {"LABEL", "JUMP", "JMPZ"}

LEMMA QuadLine ==
  ASSUME NEW op \in PlainOp, NEW args \in Seq(Place)
  PROVE  Quad(op, args) \in Line /\ ~IsLabel(Quad(op, args)) /\ ~IsJump(Quad(op, args))
  BY DEF Quad, Line, PlainOp, IsLabel, IsJump

LEMMA EmitQuad ==
  ASSUME NEW c \in QuadContext, NEW op \in PlainOp, NEW args \in Seq(Place)
  PROVE  Quiet(c, quad_emitf(c, Quad(op, args)))
  <1> DEFINE line == Quad(op, args)
  <1>1. line \in Line /\ ~IsLabel(line) /\ ~IsJump(line)
    BY QuadLine
  <1> DEFINE d == quad_emitf(c, line)
  <1> HIDE DEF line, d
  <1>2. d = quad_emitf(c, line)
    BY DEF d
  <1>3. /\ d \in QuadContext
        /\ d.label_counter = c.label_counter /\ d.break_labels = c.break_labels
        /\ c.error => d.error
        /\ LabelsIn(c.out) \subseteq LabelsIn(d.out)
        /\ LabelsIn(d.out) \subseteq LabelsIn(c.out) \cup (IF IsLabel(line) THEN {line.label} ELSE {})
        /\ JumpsIn(d.out) \subseteq JumpsIn(c.out) \cup (IF IsJump(line) THEN {line.label} ELSE {})
        /\ DistinctLabels(c.out) => DistinctLabels(d.out)
    BY <1>1, <1>2, EmitLine, Zenon
  <1>4. Quiet(c, d)
    BY <1>1, <1>3 DEF Quiet
  <1> QED BY <1>4 DEF d, line

\* A new temporary
LEMMA NewTemp ==
  ASSUME NEW c \in QuadContext, NEW type \in AstType
  PROVE  Computed(c, quad_tmp(c, type)) /\ quad_tmp(c, type).val.type = type
  BY SMTT(30) DEF Computed, Quiet, quad_tmp, quad_new_temp, Result, Value, Temp, QuadContext, QuadValue, Place

LEMMA EmitUnaryComputes ==
  ASSUME NEW c \in QuadContext, NEW type \in AstType, NEW op \in PlainOp, NEW a \in Place
  PROVE  Computed(c, EmitUnary(c, type, op, a)) /\ EmitUnary(c, type, op, a).val.type = type
  <1> DEFINE t == quad_tmp(c, type)
  <1>1. Computed(c, t) /\ t.val.type = type
    BY NewTemp
  <1>2. t.val.place \in Place /\ t.ctx \in QuadContext
    BY <1>1 DEF Computed, Quiet, QuadValue
  <1> HIDE DEF t
  <1>3. <<t.val.place, a>> \in Seq(Place)
    BY <1>2
  <1>4. Quiet(t.ctx, quad_emitf(t.ctx, Quad(op, <<t.val.place, a>>)))
    BY <1>2, <1>3, EmitQuad
  <1> QED BY <1>1, <1>4, QuietTransitive DEF EmitUnary, t, Computed, Result

LEMMA EmitTempComputes ==
  ASSUME NEW c \in QuadContext, NEW type \in AstType, NEW op \in PlainOp,
         NEW a \in Place, NEW b \in Place
  PROVE  Computed(c, EmitTemp(c, type, op, a, b)) /\ EmitTemp(c, type, op, a, b).val.type = type
  <1> DEFINE t == quad_tmp(c, type)
  <1>1. Computed(c, t) /\ t.val.type = type
    BY NewTemp
  <1>2. t.val.place \in Place /\ t.ctx \in QuadContext
    BY <1>1 DEF Computed, Quiet, QuadValue
  <1> HIDE DEF t
  <1>3. <<t.val.place, a, b>> \in Seq(Place)
    BY <1>2
  <1>4. Quiet(t.ctx, quad_emitf(t.ctx, Quad(op, <<t.val.place, a, b>>)))
    BY <1>2, <1>3, EmitQuad
  <1> QED BY <1>1, <1>4, QuietTransitive DEF EmitTemp, t, Computed, Result

\* The conversions
LEMMA ConversionComputes ==
  ASSUME NEW c \in QuadContext, NEW v \in QuadValue
  PROVE  /\ Computed(c, quad_to_float(c, v))
         /\ Computed(c, quad_to_int(c, v))
         /\ Computed(c, quad_to_bool_int(c, v))
         /\ Computed(c, quad_invert_bool(c, v))
  <1>1. Computed(c, Result(c, v))
    BY QuietReflexive DEF Computed, Result
  <1>2. v.place \in Place /\ Txt("0") \in Place /\ Txt("0.0") \in Place
    BY DEF QuadValue, Place, Txt, Text, Literal
  <1>3. {"ITOR", "RTOI", "RNQL", "IEQL"} \subseteq PlainOp /\ INT \in AstType /\ FLOAT \in AstType
    BY DEF PlainOp, Op, AstType
  <1>4. Computed(c, quad_to_float(c, v))
    BY <1>1, <1>2, <1>3, EmitUnaryComputes DEF quad_to_float
  <1>5. Computed(c, quad_to_int(c, v))
    BY <1>1, <1>2, <1>3, EmitUnaryComputes DEF quad_to_int
  <1>6. Computed(c, quad_to_bool_int(c, v))
    BY <1>1, <1>2, <1>3, EmitTempComputes DEF quad_to_bool_int, Result
  <1>7. Computed(c, quad_invert_bool(c, v))
    BY <1>2, <1>3, EmitTempComputes DEF quad_invert_bool
  <1> QED BY <1>4, <1>5, <1>6, <1>7

OpPair == [iop : PlainOp, rop : PlainOp]

LEMMA OpPairs == \A op \in ArithOp \cup RelOp : QuadOpPair[op] \in OpPair
  <1> SUFFICES ASSUME NEW op \in ArithOp \cup RelOp PROVE QuadOpPair[op] \in OpPair
    OBVIOUS
  <1>1. \A i \in PlainOp, r \in PlainOp : [iop |-> i, rop |-> r] \in OpPair
    BY DEF OpPair
  <1>2. {"IADD", "RADD", "ISUB", "RSUB", "IMLT", "RMLT", "IDIV", "RDIV", "IEQL", "REQL",
         "INQL", "RNQL", "ILSS", "RLSS", "IGRT", "RGRT"} \subseteq PlainOp
    BY DEF PlainOp, Op
  <1> QED BY <1>1, <1>2 DEF QuadOpPair, ArithOp, RelOp

LEMMA PairComputes ==
  ASSUME NEW c \in QuadContext, NEW op \in OpPair, NEW type \in AstType,
         NEW l \in QuadValue, NEW r \in QuadValue
  PROVE  Computed(c, quad_emit_pair(c, op, type, l, r))
  <1> DEFINE out == quad_tmp(c, type)
             fl == quad_to_float(out.ctx, l)
             fr == quad_to_float(fl.ctx, r)
             rline == Quad(op.rop, <<out.val.place, fl.val.place, fr.val.place>>)
             iline == Quad(op.iop, <<out.val.place, l.place, r.place>>)
  <1>1. Computed(c, out)
    BY NewTemp
  <1>2. Computed(out.ctx, fl)
    BY <1>1, ConversionComputes DEF Computed, Quiet
  <1>3. Computed(fl.ctx, fr)
    BY <1>2, ConversionComputes DEF Computed, Quiet
  <1> HIDE DEF out, fl, fr
  <1>4. op.rop \in PlainOp /\ op.iop \in PlainOp
    BY DEF OpPair
  <1>5. /\ <<out.val.place, fl.val.place, fr.val.place>> \in Seq(Place)
        /\ <<out.val.place, l.place, r.place>> \in Seq(Place)
    BY <1>1, <1>2, <1>3 DEF Computed, QuadValue
  <1>6. Quiet(fr.ctx, quad_emitf(fr.ctx, rline))
    BY <1>3, <1>4, <1>5, EmitQuad DEF Computed, Quiet
  <1>7. Quiet(out.ctx, quad_emitf(out.ctx, iline))
    BY <1>1, <1>4, <1>5, EmitQuad DEF Computed, Quiet
  <1>8. Quiet(c, quad_emitf(fr.ctx, rline)) /\ Quiet(c, quad_emitf(out.ctx, iline))
    BY <1>1, <1>2, <1>3, <1>6, <1>7, QuietTransitive DEF Computed
  <1>9. /\ Computed(c, Result(quad_emitf(fr.ctx, rline), out.val))
        /\ Computed(c, Result(quad_emitf(out.ctx, iline), out.val))
    BY <1>1, <1>8 DEF Computed, Result
  <1>10. \/ quad_emit_pair(c, op, type, l, r) = Result(quad_emitf(fr.ctx, rline), out.val)
         \/ quad_emit_pair(c, op, type, l, r) = Result(quad_emitf(out.ctx, iline), out.val)
    BY DEF quad_emit_pair, out, fl, fr
  <1> QED BY <1>9, <1>10

LEMMA InverseComputes ==
  ASSUME NEW c \in QuadContext, NEW op \in OpPair, NEW l \in QuadValue, NEW r \in QuadValue
  PROVE  Computed(c, quad_emit_inverse(c, op, l, r))
  <1> DEFINE b == quad_emit_cmp(c, op, l, r)
  <1>1. Computed(c, b)
    BY PairComputes DEF quad_emit_cmp, AstType
  <1> HIDE DEF b
  <1>2. Computed(b.ctx, quad_invert_bool(b.ctx, b.val))
    BY <1>1, ConversionComputes DEF Computed, Quiet
  <1> QED BY <1>1, <1>2, QuietTransitive DEF quad_emit_inverse, Computed, b

LEMMA BoolComputes ==
  ASSUME NEW c \in QuadContext, NEW l \in QuadValue, NEW r \in QuadValue
  PROVE  Computed(c, quad_emit_or(c, l, r)) /\ Computed(c, quad_emit_and(c, l, r))
  <1> DEFINE bl == quad_to_bool_int(c, l)
             br == quad_to_bool_int(bl.ctx, r)
             sum == EmitTemp(br.ctx, INT, "IADD", bl.val.place, br.val.place)
             or == EmitTemp(sum.ctx, INT, "IGRT", sum.val.place, Txt("0"))
             and == EmitTemp(br.ctx, INT, "IMLT", bl.val.place, br.val.place)
  <1>0. {"IADD", "IGRT", "IMLT"} \subseteq PlainOp /\ INT \in AstType /\ Txt("0") \in Place
    BY DEF PlainOp, Op, AstType, Place, Txt, Text, Literal
  <1>1. Computed(c, bl)
    BY ConversionComputes
  <1>2. Computed(bl.ctx, br)
    BY <1>1, ConversionComputes DEF Computed, Quiet
  <1> HIDE DEF bl, br
  <1>3. br.ctx \in QuadContext /\ bl.val.place \in Place /\ br.val.place \in Place
    BY <1>1, <1>2 DEF Computed, Quiet, QuadValue
  <1>4. Computed(br.ctx, sum) /\ Computed(br.ctx, and)
    BY <1>0, <1>3, EmitTempComputes
  <1> HIDE DEF sum, and
  <1>5. sum.ctx \in QuadContext /\ sum.val.place \in Place
    BY <1>4 DEF Computed, Quiet, QuadValue
  <1>6. Computed(sum.ctx, or)
    BY <1>0, <1>5, EmitTempComputes
  <1> HIDE DEF or
  <1>7. quad_emit_or(c, l, r) = or /\ quad_emit_and(c, l, r) = and
    BY DEF quad_emit_or, quad_emit_and, bl, br, sum, or, and
  <1> QED BY <1>1, <1>2, <1>4, <1>6, <1>7, QuietTransitive DEF Computed

LEMMA BinaryComputes ==
  ASSUME NEW c \in QuadContext, NEW op \in ArithOp \cup RelOp \cup BoolOp,
         NEW l \in QuadValue, NEW r \in QuadValue
  PROVE  Computed(c, quad_emit_binary(c, op, l, r))
  <1>1. CASE c.error
    <2>1. NoValue \in QuadValue
      BY DEF NoValue, Value, QuadValue, Place, Txt, Text, AstType
    <2> QED BY <1>1, <2>1, QuietReflexive DEF quad_emit_binary, Computed, Result
  <1>2. CASE ~c.error
    <2>1. INT \in AstType /\ FLOAT \in AstType
      BY DEF AstType
    <2>2. CASE op \in ArithOp
      <3>1. quad_emit_binary(c, op, l, r) = quad_emit_arith(c, QuadOpPair[op], l, r)
        BY <1>2, <2>2 DEF quad_emit_binary, ArithOp
      <3> QED BY <2>1, <2>2, <3>1, OpPairs, PairComputes DEF quad_emit_arith
    <2>3. CASE op \in {"EQ", "NE", "LT", "GT"}
      <3>1. quad_emit_binary(c, op, l, r) = quad_emit_cmp(c, QuadOpPair[op], l, r)
        BY <1>2, <2>3 DEF quad_emit_binary, ArithOp
      <3> QED BY <2>1, <2>3, <3>1, OpPairs, PairComputes DEF quad_emit_cmp, RelOp
    <2>4. CASE op \in {"GE", "LE"}
      <3>1. quad_emit_binary(c, op, l, r) = quad_emit_inverse(c, QuadOpPair[op], l, r)
        BY <1>2, <2>4 DEF quad_emit_binary, ArithOp
      <3> QED BY <2>4, <3>1, OpPairs, InverseComputes DEF RelOp
    <2>5. CASE op \in BoolOp
      <3>1. \/ quad_emit_binary(c, op, l, r) = quad_emit_or(c, l, r)
            \/ quad_emit_binary(c, op, l, r) = quad_emit_and(c, l, r)
        BY <1>2, <2>5 DEF quad_emit_binary, ArithOp, BoolOp
      <3> QED BY <3>1, BoolComputes
    <2> QED BY <2>2, <2>3, <2>4, <2>5 DEF RelOp
  <1>3. c.error \in BOOLEAN
    BY ContextFields
  <1> QED BY <1>1, <1>2, <1>3

(***************************************************************************)
(* Trees and frames                                                        *)
(***************************************************************************)

LEMMA StatementNode ==
  ASSUME NEW s \in Statement
  PROVE  /\ s.kind = "ASSIGN" => s.identifier \in Id /\ s.expression \in Expression
         /\ s.kind = "INPUT" => s.identifier \in Id
         /\ s.kind = "OUTPUT" => s.expression \in Expression
         /\ s.kind = "IF" => /\ s.condition \in Condition
                             /\ s.then_stmt \in Statement
                             /\ s.else_stmt \in Statement \cup {NULL}
         /\ s.kind = "WHILE" => s.condition \in Condition /\ s.body \in Statement
         /\ s.kind = "SWITCH" => /\ s.expression \in Expression
                                 /\ s.cases \in Seq(Case)
                                 /\ s.default_statements \in Seq(Statement)
         /\ s.kind = "BLOCK" => s.statements \in Seq(Statement)
  <1>1. s \in StatementOver(Id, NumInt, Expression, Condition, Statement)
    BY TreeAssumption
  <1> QED BY <1>1 DEF StatementOver, Case

LEMMA ExpressionNode ==
  ASSUME NEW e \in Expression \cup Condition
  PROVE  /\ e.kind = "ID" => e.identifier \in Id
         /\ e.kind \in {"INT_LITERAL", "FLOAT_LITERAL"} => e.number_text \in NumInt \cup NumFloat
         /\ e.kind \in Unary => e.operand \in Expression \cup Condition
         /\ e.kind = "BINARY" => /\ e.op \in ArithOp \cup RelOp \cup BoolOp
                                 /\ e.left \in Expression \cup Condition
                                 /\ e.right \in Expression \cup Condition
  <1>1. CASE e \in Expression
    <2>1. e \in ExpressionOver(Id, NumInt, NumFloat, Expression)
      BY <1>1, TreeAssumption
    <2> QED BY <2>1 DEF ExpressionOver, Unary
  <1>2. CASE e \in Condition
    <2>1. e \in ConditionOver(Expression, Condition)
      BY <1>2, TreeAssumption
    <2> QED BY <2>1 DEF ConditionOver, Unary
  <1> QED BY <1>1, <1>2

LEMMA NewFrames ==
  /\ NoValue \in QuadValue
  /\ \A s \in Statement \cup {NULL} : Stmt(s) \in StatementFrame
  /\ \A list \in Seq(Statement) : List(list) \in ListFrame
  /\ \A e \in Expression \cup Condition : Expr(e) \in ExprFrame
  <1>1. NoValue \in QuadValue
    BY DEF NoValue, Value, QuadValue, Place, Txt, Text, AstType
  <1>2. \A s \in Statement \cup {NULL} : Stmt(s) \in StatementFrame
    BY <1>1 DEF Stmt, Frame, StatementFrame, FrameOf, StatementPc
  <1>3. \A list \in Seq(Statement) : List(list) \in ListFrame
    BY <1>1 DEF List, Frame, ListFrame, FrameOf
  <1>4. \A e \in Expression \cup Condition : Expr(e) \in ExprFrame
    BY <1>1 DEF Expr, Frame, ExprFrame, FrameOf
  <1> QED BY <1>1, <1>2, <1>3, <1>4

LEMMA TopFrame ==
  ASSUME TypeOK, stack # <<>>
  PROVE  /\ depth \in Nat \ {0} /\ top \in AnyFrame
         /\ top.fn = "statement" => top \in StatementFrame
         /\ top.fn = "list" => top \in ListFrame
         /\ top.fn = "expr" => top \in ExprFrame
  <1>1. depth \in Nat \ {0} /\ top \in AnyFrame
    BY DEF TypeOK, depth, top
  <1> HIDE DEF top
  <1> QED BY <1>1 DEF AnyFrame, StatementFrame, ListFrame, ExprFrame, FrameOf

\* The stack after a call, a step inside of an activation, and a return
LEMMA CallStack ==
  ASSUME TypeOK, stack # <<>>, NEW f \in AnyFrame, NEW g \in AnyFrame, Call(f, g)
  PROVE  /\ stack' \in Seq(AnyFrame) /\ Len(stack') = depth + 1
         /\ stack'[depth] = f /\ stack'[depth + 1] = g
         /\ \A k \in 1 .. depth - 1 : stack'[k] = stack[k]
         /\ ret' = NoValue
  BY DEF TypeOK, Call, depth

LEMMA StayStack ==
  ASSUME TypeOK, stack # <<>>, NEW f \in AnyFrame, Stay(f)
  PROVE  /\ stack' \in Seq(AnyFrame) /\ Len(stack') = depth
         /\ stack'[depth] = f
         /\ \A k \in 1 .. depth - 1 : stack'[k] = stack[k]
         /\ ret' = NoValue
  BY DEF TypeOK, Stay, depth

LEMMA ReturnStack ==
  ASSUME TypeOK, stack # <<>>, NEW v, Return(v)
  PROVE  /\ stack' \in Seq(AnyFrame) /\ Len(stack') = depth - 1
         /\ \A k \in 1 .. depth - 1 : stack'[k] = stack[k]
         /\ ret' = v
  BY Pop DEF TypeOK, Return, depth

(***************************************************************************)
(* What a step must do for the labels.  Every action changes the top of    *)
(* the stack and the context only.                                         *)
(***************************************************************************)

New == (ctx.label_counter + 1) .. ctx'.label_counter
Kept == IF Len(stack') >= depth THEN Owed(stack'[depth]) ELSE {}

\* The frames below the top stay, one that is pushed owes nothing
StackStep ==
  /\ stack # <<>>
  /\ stack' \in Seq(AnyFrame)
  /\ Len(stack') \in {depth - 1, depth, depth + 1}
  /\ \A k \in 1 .. depth - 1 : stack'[k] = stack[k]
  /\ Len(stack') = depth + 1 =>
       Owed(stack'[depth + 1]) = {} /\ ~Loops(stack'[depth + 1])

\* Labels are defined that the top owed or that are new, and are then no longer owed
LabelsStep ==
  /\ ctx' \in QuadContext
  /\ ctx.label_counter <= ctx'.label_counter
  /\ DistinctLabels(ctx'.out)
  /\ LabelsIn(ctx.out) \subseteq LabelsIn(ctx'.out)
  /\ LabelsIn(ctx'.out) \subseteq LabelsIn(ctx.out) \cup Owed(top) \cup New
  /\ Kept \subseteq (Owed(top) \cup New) \ LabelsIn(ctx'.out)
  /\ Len(stack') >= depth =>
       (OwesLabel(stack'[depth]) /\ OwesEnd(stack'[depth])
          => stack'[depth].label # stack'[depth].l_end)

\* As long as nothing fails the top defines what it owes, and jumps to no other label
JumpsStep ==
  ~ctx'.error =>
    /\ ~ctx.error
    /\ Owed(top) \subseteq LabelsIn(ctx'.out) \cup Kept
    /\ JumpsIn(ctx'.out) \subseteq JumpsIn(ctx.out) \cup LabelsIn(ctx'.out) \cup Kept
                                    \cup UNION {Owed(stack[k]) : k \in 1 .. depth - 1}
    /\ Len(stack') >= depth /\ Loops(stack'[depth]) => stack'[depth].label \in LabelsIn(ctx'.out)

LEMMA OwedOnceStep ==
  ASSUME TypeOK, OwedOnce, StackStep, LabelsStep
  PROVE  OwedOnce'
  <1> DEFINE n == ctx.label_counter
             m == ctx'.label_counter
             L == LabelsIn(ctx.out)
             M == LabelsIn(ctx'.out)
  <1>1. n \in Nat /\ m \in Nat /\ n <= m /\ depth \in Nat \ {0} /\ Len(stack') \in Nat /\ top = stack[depth]
    BY DEF TypeOK, LabelsStep, StackStep, QuadContext, depth, top
  <1>2. L \subseteq 1 .. n /\ Owed(top) \subseteq (1 .. n) \ L
    BY <1>1 DEF OwedOnce
  <1>3. New \subseteq 1 .. m /\ New \cap 1 .. n = {}
    BY <1>1 DEF New
  <1>4. M \subseteq L \cup Owed(top) \cup New /\ Kept \subseteq (Owed(top) \cup New) \ M
    BY DEF LabelsStep
  <1> HIDE DEF n, m, L, M
  <1>5. M \subseteq 1 .. m
    BY <1>1, <1>2, <1>3, <1>4
  <1>6. ASSUME NEW k \in 1 .. depth - 1
        PROVE  /\ stack'[k] = stack[k]
               /\ Owed(stack[k]) \subseteq (1 .. m) \ M
               /\ Owed(stack[k]) \cap Kept = {}
               /\ OwesLabel(stack[k]) /\ OwesEnd(stack[k]) => stack[k].label # stack[k].l_end
               /\ \A j \in 1 .. depth - 1 : k # j => Owed(stack[k]) \cap Owed(stack[j]) = {}
    <2>1. stack'[k] = stack[k]
      BY DEF StackStep
    <2>2. k \in 1 .. depth /\ k # depth
      BY <1>1
    <2>3. /\ Owed(stack[k]) \subseteq (1 .. n) \ L
          /\ OwesLabel(stack[k]) /\ OwesEnd(stack[k]) => stack[k].label # stack[k].l_end
          /\ \A j \in 1 .. depth : k # j => Owed(stack[k]) \cap Owed(stack[j]) = {}
      BY <2>2 DEF OwedOnce, n, L
    <2>4. Owed(stack[k]) \cap Owed(top) = {}
      BY <1>1, <2>2, <2>3
    <2>5. \A j \in 1 .. depth - 1 : j \in 1 .. depth
      BY <1>1
    <2>6. Owed(stack[k]) \subseteq (1 .. m) \ M
      BY <1>1, <1>3, <1>4, <2>3, <2>4
    <2>7. Owed(stack[k]) \cap Kept = {}
      BY <1>3, <1>4, <2>3, <2>4
    <2> QED BY <2>1, <2>3, <2>5, <2>6, <2>7
  <1>7. ASSUME Len(stack') >= depth
        PROVE  /\ Owed(stack'[depth]) = Kept
               /\ Kept \subseteq (1 .. m) \ M
               /\ OwesLabel(stack'[depth]) /\ OwesEnd(stack'[depth])
                    => stack'[depth].label # stack'[depth].l_end
    <2>1. Owed(stack'[depth]) = Kept
      BY <1>7 DEF Kept
    <2>2. Owed(top) \subseteq 1 .. m
      BY <1>1, <1>2
    <2>3. Kept \subseteq (1 .. m) \ M
      BY <1>3, <1>4, <2>2
    <2> QED BY <1>7, <2>1, <2>3 DEF LabelsStep
  <1>8. ASSUME Len(stack') = depth + 1
        PROVE  /\ Owed(stack'[depth + 1]) = {}
               /\ ~(OwesLabel(stack'[depth + 1]) /\ OwesEnd(stack'[depth + 1]))
    BY <1>8 DEF StackStep, Owed
  <1>9. ASSUME NEW k \in 1 .. Len(stack')
        PROVE  /\ Owed(stack'[k]) \subseteq (1 .. m) \ M
               /\ OwesLabel(stack'[k]) /\ OwesEnd(stack'[k]) => stack'[k].label # stack'[k].l_end
               /\ \A j \in 1 .. Len(stack') : k # j => Owed(stack'[k]) \cap Owed(stack'[j]) = {}
    <2>1. \A j \in 1 .. Len(stack') :
            \/ j \in 1 .. depth - 1
            \/ j = depth /\ Len(stack') >= depth
            \/ j = depth + 1 /\ Len(stack') = depth + 1
      BY <1>1 DEF StackStep
    <2>2. CASE k \in 1 .. depth - 1
      BY <1>6, <1>7, <1>8, <2>1, <2>2
    <2>3. CASE k = depth /\ Len(stack') >= depth
      BY <1>6, <1>7, <1>8, <2>1, <2>3
    <2>4. CASE k = depth + 1 /\ Len(stack') = depth + 1
      BY <1>6, <1>7, <1>8, <2>1, <2>4
    <2> QED BY <2>1, <2>2, <2>3, <2>4
  <1> QED BY <1>5, <1>9 DEF OwedOnce, depth, m, M

LEMMA JumpsOwedStep ==
  ASSUME TypeOK, JumpsOwed, StackStep, LabelsStep, JumpsStep
  PROVE  JumpsOwed'
  <1> SUFFICES ASSUME ~ctx'.error
               PROVE  /\ JumpsIn(ctx'.out) \subseteq LabelsIn(ctx'.out) \cup
                           UNION {Owed(stack'[k]) : k \in 1 .. Len(stack')}
                      /\ \A k \in 1 .. Len(stack') :
                           Loops(stack'[k]) => stack'[k].label \in LabelsIn(ctx'.out)
    BY DEF JumpsOwed, depth
  <1> DEFINE Below == UNION {Owed(stack[k]) : k \in 1 .. depth - 1}
             Now == UNION {Owed(stack'[k]) : k \in 1 .. Len(stack')}
  <1>1. depth \in Nat \ {0} /\ Len(stack') \in Nat /\ top = stack[depth]
    BY DEF TypeOK, StackStep, depth, top
  <1>2. UNION {Owed(stack[k]) : k \in 1 .. depth} \subseteq Below \cup Owed(top)
    BY <1>1
  <1>3. Below \subseteq Now
    <2>1. \A k \in 1 .. depth - 1 : k \in 1 .. Len(stack') /\ stack'[k] = stack[k]
      BY <1>1 DEF StackStep
    <2> QED BY <2>1
  <1>4. Kept \subseteq Now
    <2>1. Len(stack') >= depth => depth \in 1 .. Len(stack')
      BY <1>1
    <2> QED BY <2>1 DEF Kept
  <1>5. JumpsIn(ctx.out) \subseteq LabelsIn(ctx.out) \cup UNION {Owed(stack[k]) : k \in 1 .. depth}
    BY DEF JumpsOwed, JumpsStep
  <1>6. JumpsIn(ctx'.out) \subseteq JumpsIn(ctx.out) \cup LabelsIn(ctx'.out) \cup Kept \cup Below
    BY DEF JumpsStep
  <1>7. LabelsIn(ctx.out) \subseteq LabelsIn(ctx'.out) /\ Owed(top) \subseteq LabelsIn(ctx'.out) \cup Kept
    BY DEF LabelsStep, JumpsStep
  <1> HIDE DEF Below, Now
  <1>8. JumpsIn(ctx'.out) \subseteq LabelsIn(ctx'.out) \cup Now
    BY <1>2, <1>3, <1>4, <1>5, <1>6, <1>7
  <1>9. ASSUME NEW k \in 1 .. Len(stack'), Loops(stack'[k])
        PROVE  stack'[k].label \in LabelsIn(ctx'.out)
    <2>1. CASE k \in 1 .. depth - 1
      <3>1. k \in 1 .. depth /\ stack'[k] = stack[k]
        BY <1>1, <2>1 DEF StackStep
      <3> QED BY <1>7, <1>9, <3>1 DEF JumpsOwed, JumpsStep
    <2>2. CASE k = depth
      BY <1>1, <1>9, <2>2 DEF JumpsStep
    <2>3. CASE k = depth + 1 /\ Len(stack') = depth + 1
      BY <1>9, <2>3 DEF StackStep
    <2> QED BY <1>1, <2>1, <2>2, <2>3 DEF StackStep
  <1> QED BY <1>8, <1>9 DEF Now

(***************************************************************************)
(* What a step must do for the break labels                                *)
(***************************************************************************)

LEMMA BreakLabelsKept ==
  ASSUME TypeOK, NoDanglingBreakLabel, StackStep, ctx'.break_labels = ctx.break_labels,
         Breakable(top) => Len(stack') >= depth /\ Breakable(stack'[depth])
  PROVE  NoDanglingBreakLabel'
  <1>1. depth \in Nat \ {0} /\ Len(stack') \in Nat /\ top = stack[depth]
    BY DEF TypeOK, StackStep, depth, top
  <1>2. ASSUME NEW k \in DOMAIN ctx.break_labels
        PROVE  ctx.break_labels[k] \in 1 .. Len(stack') /\ Breakable(stack'[ctx.break_labels[k]])
    <2>1. ctx.break_labels[k] \in 1 .. depth /\ Breakable(stack[ctx.break_labels[k]])
      BY DEF NoDanglingBreakLabel
    <2>2. CASE ctx.break_labels[k] = depth
      BY <1>1, <2>1, <2>2
    <2>3. CASE ctx.break_labels[k] # depth
      BY <1>1, <2>1, <2>3 DEF StackStep
    <2> QED BY <2>2, <2>3
  <1> QED BY <1>2 DEF NoDanglingBreakLabel, depth

\* quad_push_break.  The new label is above all others, which were pushed by
\* activations below the top.
LEMMA BreakLabelPushed ==
  ASSUME TypeOK, NoDanglingBreakLabel, StackStep, ~Breakable(top),
         Len(stack') >= depth, Breakable(stack'[depth]),
         ctx'.break_labels = Append(ctx.break_labels, depth)
  PROVE  NoDanglingBreakLabel'
  <1> DEFINE b == ctx.break_labels
             d == ctx'.break_labels
  <1>1. depth \in Nat \ {0} /\ Len(stack') \in Nat /\ top = stack[depth] /\ b \in Seq(Nat)
    BY ContextFields DEF TypeOK, StackStep, depth, top
  <1>2. d = Append(b, depth)
    OBVIOUS
  <1> HIDE DEF d, b
  <1>3. /\ Len(b) \in Nat /\ DOMAIN b = 1 .. Len(b)
        /\ DOMAIN d = 1 .. Len(b) + 1 /\ d[Len(b) + 1] = depth
        /\ \A k \in 1 .. Len(b) : d[k] = b[k]
    BY <1>1, <1>2
  <1>4. ASSUME NEW k \in 1 .. Len(b)
        PROVE  b[k] \in 1 .. depth - 1 /\ Breakable(stack[b[k]]) /\ stack'[b[k]] = stack[b[k]]
    <2>1. b[k] \in 1 .. depth /\ Breakable(stack[b[k]])
      BY <1>3 DEF NoDanglingBreakLabel, b
    <2>2. b[k] # depth
      BY <1>1, <2>1
    <2> QED BY <1>1, <2>1, <2>2 DEF StackStep
  <1>5. \A k \in DOMAIN d : d[k] \in 1 .. Len(stack') /\ Breakable(stack'[d[k]])
    <2> SUFFICES ASSUME NEW k \in DOMAIN d
                 PROVE  d[k] \in 1 .. Len(stack') /\ Breakable(stack'[d[k]])
      OBVIOUS
    <2>1. CASE k = Len(b) + 1
      BY <1>1, <1>3, <2>1
    <2>2. CASE k \in 1 .. Len(b)
      BY <1>1, <1>3, <1>4, <2>2
    <2> QED BY <1>3, <2>1, <2>2
  <1>6. \A k, m \in DOMAIN d : k < m => d[k] < d[m]
    <2> SUFFICES ASSUME NEW k \in DOMAIN d, NEW m \in DOMAIN d, k < m PROVE d[k] < d[m]
      OBVIOUS
    <2>1. k \in 1 .. Len(b)
      BY <1>3
    <2>2. CASE m = Len(b) + 1
      BY <1>1, <1>3, <1>4, <2>1, <2>2
    <2>3. CASE m \in 1 .. Len(b)
      <3>1. b[k] < b[m]
        BY <1>3, <2>1, <2>3 DEF NoDanglingBreakLabel, b
      <3> QED BY <1>3, <2>1, <2>3, <3>1
    <2> QED BY <1>3, <2>2, <2>3
  <1> QED BY <1>5, <1>6 DEF NoDanglingBreakLabel, depth, d

\* quad_pop_break, on the return of the activation on top: if its label was
\* pushed it is the last one, and in any case the others are below the top.
LEMMA BreakLabelPopped ==
  ASSUME TypeOK, NoDanglingBreakLabel, StackStep, Len(stack') = depth - 1,
         NEW c \in QuadContext, c.break_labels = ctx.break_labels,
         ctx'.break_labels = quad_pop_break(c).break_labels
  PROVE  NoDanglingBreakLabel'
  <1> DEFINE b == ctx.break_labels
             d == ctx'.break_labels
  <1>1. depth \in Nat \ {0} /\ b \in Seq(Nat)
    BY ContextFields DEF TypeOK, StackStep, depth
  <1>2. CASE b = <<>>
    <2>1. d = <<>>
      BY <1>2 DEF quad_pop_break
    <2> QED BY <2>1 DEF NoDanglingBreakLabel
  <1>3. CASE b # <<>>
    <2>1. d = SubSeq(b, 1, Len(b) - 1)
      BY <1>3 DEF quad_pop_break, QuadContext
    <2> HIDE DEF b, d
    <2>2. /\ Len(b) \in Nat \ {0} /\ DOMAIN b = 1 .. Len(b)
          /\ DOMAIN d = 1 .. Len(b) - 1
          /\ \A k \in 1 .. Len(b) - 1 : d[k] = b[k]
      <3>1. d \in Seq(Nat) /\ Len(d) = Len(b) - 1 /\ \A k \in 1 .. Len(b) - 1 : d[k] = b[k]
        BY <1>1, <1>3, <2>1, Pop
      <3> QED BY <1>1, <1>3, <3>1
    <2>3. ASSUME NEW k \in 1 .. Len(b) - 1
          PROVE  b[k] \in 1 .. depth - 1 /\ Breakable(stack[b[k]]) /\ stack'[b[k]] = stack[b[k]]
      <3>1. k \in DOMAIN b /\ Len(b) \in DOMAIN b /\ k < Len(b)
        BY <2>2
      <3>2. /\ b[k] \in 1 .. depth /\ Breakable(stack[b[k]])
            /\ b[Len(b)] \in 1 .. depth /\ b[k] < b[Len(b)]
        BY <3>1 DEF NoDanglingBreakLabel, b
      <3>3. b[k] \in 1 .. depth - 1
        BY <1>1, <3>2
      <3> QED BY <3>2, <3>3 DEF StackStep
    <2>4. \A k \in DOMAIN d : d[k] \in 1 .. Len(stack') /\ Breakable(stack'[d[k]])
      BY <2>2, <2>3
    <2>5. \A k, m \in DOMAIN d : k < m => d[k] < d[m]
      <3>1. \A k \in DOMAIN d : k \in DOMAIN b /\ d[k] = b[k]
        BY <2>2
      <3> QED BY <3>1 DEF NoDanglingBreakLabel, b
    <2> QED BY <2>4, <2>5 DEF NoDanglingBreakLabel, depth, d
  <1> QED BY <1>2, <1>3

(***************************************************************************)
(* The steps that concern no label                                         *)
(***************************************************************************)

LEMMA Entering ==
  ASSUME NEW f, f.pc = "enter"
  PROVE  /\ ~OwesLabel(f) /\ ~OwesEnd(f) /\ Owed(f) = {}
         /\ ~Loops(f) /\ ~Breakable(f)
  BY DEF OwesLabel, OwesEnd, Owed, Loops, Breakable

\* f owes and allows what g does
Like(f, g) ==
  /\ f.label = g.label /\ f.l_end = g.l_end
  /\ OwesLabel(f) <=> OwesLabel(g)
  /\ OwesEnd(f) <=> OwesEnd(g)
  /\ Loops(f) <=> Loops(g)
  /\ Breakable(f) <=> Breakable(g)

LEMMA QuietReturn ==
  ASSUME TypeOK, LabelInv, stack # <<>>, UNCHANGED <<program, rc>>, Quiet(ctx, ctx'),
         NEW v \in QuadValue, Return(v), Owed(top) = {}, ~Breakable(top)
  PROVE  TypeOK' /\ LabelInv'
  <1>1. depth \in Nat \ {0}
    BY TopFrame
  <1>2. stack' \in Seq(AnyFrame) /\ Len(stack') = depth - 1 /\ ret' = v
        /\ \A k \in 1 .. depth - 1 : stack'[k] = stack[k]
    BY ReturnStack
  <1>3. StackStep /\ Kept = {}
    BY <1>1, <1>2 DEF StackStep, Kept
  <1>4. LabelsStep /\ JumpsStep
    BY <1>1, <1>2, <1>3, ContextFields DEF LabelsStep, JumpsStep, Quiet, LabelInv, LabelsUnique
  <1>5. OwedOnce' /\ JumpsOwed' /\ LabelsUnique'
    BY <1>3, <1>4, OwedOnceStep, JumpsOwedStep DEF LabelInv, LabelsUnique, LabelsStep
  <1>6. NoDanglingBreakLabel'
    BY <1>3, BreakLabelsKept DEF LabelInv, Quiet
  <1>7. TypeOK'
    BY <1>2 DEF TypeOK, Quiet
  <1>8. (rc # RUNNING => stack = <<>>)' /\ (rc = 0 => ~ctx.error)'
    BY DEF LabelInv, RUNNING
  <1> QED BY <1>5, <1>6, <1>7, <1>8 DEF LabelInv

LEMMA QuietCall ==
  ASSUME TypeOK, LabelInv, stack # <<>>, UNCHANGED <<program, rc>>, Quiet(ctx, ctx'),
         NEW f \in AnyFrame, NEW g \in AnyFrame, Call(f, g), Like(f, top), g.pc = "enter"
  PROVE  TypeOK' /\ LabelInv'
  <1>1. depth \in Nat \ {0}
    BY TopFrame
  <1>2. stack' \in Seq(AnyFrame) /\ Len(stack') = depth + 1 /\ ret' = NoValue
        /\ stack'[depth] = f /\ stack'[depth + 1] = g
        /\ \A k \in 1 .. depth - 1 : stack'[k] = stack[k]
    BY CallStack
  <1>3. StackStep
    BY <1>1, <1>2, Entering DEF StackStep
  <1>4. Kept = Owed(top)
    BY <1>1, <1>2 DEF Kept, Owed, Like
  <1>5. top = stack[depth] /\ depth \in 1 .. depth
    BY <1>1 DEF top
  <1>6. LabelsStep
    <2>1. Owed(top) \cap LabelsIn(ctx.out) = {}
      BY <1>5 DEF LabelInv, OwedOnce
    <2>2. OwesLabel(f) /\ OwesEnd(f) => f.label # f.l_end
      BY <1>5 DEF LabelInv, OwedOnce, Like
    <2> QED BY <1>2, <1>4, <2>1, <2>2, ContextFields
            DEF LabelsStep, Quiet, LabelInv, LabelsUnique
  <1>7. JumpsStep
    <2>1. ~ctx.error /\ Loops(f) => f.label \in LabelsIn(ctx.out)
      BY <1>5 DEF LabelInv, JumpsOwed, Like
    <2> QED BY <1>2, <1>4, <2>1 DEF JumpsStep, Quiet
  <1>8. OwedOnce' /\ JumpsOwed' /\ LabelsUnique'
    BY <1>3, <1>6, <1>7, OwedOnceStep, JumpsOwedStep DEF LabelInv, LabelsUnique, LabelsStep
  <1>9. NoDanglingBreakLabel'
    BY <1>1, <1>2, <1>3, BreakLabelsKept DEF LabelInv, Quiet, Like
  <1>10. TypeOK'
    BY <1>2, NewFrames DEF TypeOK, Quiet
  <1>11. (rc # RUNNING => stack = <<>>)' /\ (rc = 0 => ~ctx.error)'
    BY DEF LabelInv, RUNNING
  <1> QED BY <1>8, <1>9, <1>10, <1>11 DEF LabelInv

\* Activations other than those of IF, WHILE and SWITCH owe no label
Plain(f) == f.fn = "statement" => f.node.kind \notin {"IF", "WHILE", "SWITCH"}

LEMMA PlainFrame ==
  ASSUME NEW f, Plain(f)
  PROVE  /\ ~OwesLabel(f) /\ ~OwesEnd(f) /\ Owed(f) = {}
         /\ ~Loops(f) /\ ~Breakable(f)
  BY DEF Plain, OwesLabel, OwesEnd, Owed, Loops, Breakable

LEMMA PlainLike ==
  ASSUME NEW f, NEW g, Plain(f), Plain(g), f.label = g.label, f.l_end = g.l_end
  PROVE  Like(f, g)
  BY PlainFrame DEF Like

LEMMA SymbolType ==
  ASSUME NEW c \in QuadContext, NEW name
  PROVE  /\ Quiet(c, quad_symbol_type(c, name).ctx)
         /\ quad_symbol_type(c, name).type \in AstType
  <1>1. CASE name \in DOMAIN c.symbols
    <2>1. PICK D \in SUBSET Id : c.symbols \in [D -> AstType]
      BY ContextFields DEF SymbolTable
    <2>2. c.symbols[name] \in AstType
      BY <1>1, <2>1
    <2> QED BY <1>1, <2>2, QuietReflexive DEF quad_symbol_type
  <1>2. CASE name \notin DOMAIN c.symbols
    <2>1. Quiet(c, [c EXCEPT !.error = TRUE])
      BY DEF Quiet, QuadContext
    <2> QED BY <1>2, <2>1 DEF quad_symbol_type, AstType
  <1> QED BY <1>1, <1>2

(***************************************************************************)
(* One lemma per action: it keeps the types and the label invariant.       *)
(***************************************************************************)

\* The node of the activation on top
LEMMA TopStatement ==
  ASSUME TypeOK, NEW kinds, NEW pc, AtNode("statement", kinds, pc), "NULL" \notin kinds
  PROVE  /\ stack # <<>> /\ depth \in Nat \ {0}
         /\ top \in StatementFrame /\ top.node \in Statement
         /\ top.fn = "statement" /\ top.pc = pc /\ top.node.kind \in kinds
         /\ ctx \in QuadContext /\ ret \in QuadValue
  <1>1. stack # <<>> /\ top.fn = "statement" /\ top.pc = pc /\ top.node.kind \in kinds
    BY DEF AtNode, At
  <1>2. top \in StatementFrame /\ depth \in Nat \ {0}
    BY <1>1, TopFrame
  <1> HIDE DEF top
  <1>3. top.node \in Statement
    BY <1>1, <1>2 DEF StatementFrame, FrameOf, NULL
  <1> QED BY <1>1, <1>2, <1>3 DEF TypeOK

LEMMA TopExpr ==
  ASSUME TypeOK, NEW kinds, NEW pc, AtNode("expr", kinds, pc)
  PROVE  /\ stack # <<>> /\ depth \in Nat \ {0}
         /\ top \in ExprFrame /\ top.node \in Expression \cup Condition
         /\ top.fn = "expr" /\ top.pc = pc /\ top.node.kind \in kinds
         /\ ctx \in QuadContext /\ ret \in QuadValue
         /\ Plain(top)
  <1>1. stack # <<>> /\ top.fn = "expr" /\ top.pc = pc /\ top.node.kind \in kinds
    BY DEF AtNode, At
  <1>2. top \in ExprFrame /\ depth \in Nat \ {0}
    BY <1>1, TopFrame
  <1> HIDE DEF top
  <1>3. top.node \in Expression \cup Condition
    BY <1>1, <1>2 DEF ExprFrame, FrameOf
  <1> QED BY <1>1, <1>2, <1>3 DEF TypeOK, Plain

LEMMA StatementSkipStep ==
  ASSUME TypeOK, LabelInv, StatementSkip
  PROVE  TypeOK' /\ LabelInv'
  <1>1. stack # <<>> /\ top.pc = "enter" /\ ctx \in QuadContext
    BY DEF StatementSkip, At, TypeOK
  <1>2. Return(NoValue) /\ ctx' = ctx /\ UNCHANGED <<program, rc>>
    BY DEF StatementSkip, Silent
  <1>3. Quiet(ctx, ctx')
    BY <1>1, <1>2, QuietReflexive
  <1> QED BY <1>1, <1>2, <1>3, Entering, NewFrames, QuietReturn

LEMMA AssignExpressionStep ==
  ASSUME TypeOK, LabelInv, AssignExpression
  PROVE  TypeOK' /\ LabelInv'
  <1> DEFINE id == top.node.identifier
             dst == quad_symbol_type(ctx, id)
             f == [top EXCEPT !.pc = "assign", !.val = Value(dst.type, Txt(id))]
             g == Expr(top.node.expression)
  <1>1. AtNode("statement", {"ASSIGN"}, "enter")
    BY DEF AssignExpression, Enter
  <1>2. stack # <<>> /\ top \in StatementFrame /\ top.node \in Statement /\ ctx \in QuadContext
        /\ top.node.kind = "ASSIGN" /\ top.fn = "statement"
    BY <1>1, TopStatement
  <1>3. ctx' = dst.ctx /\ Call(f, g) /\ UNCHANGED <<program, rc>>
    BY DEF AssignExpression, Constant
  <1>4. Quiet(ctx, ctx') /\ dst.type \in AstType
    BY <1>2, <1>3, SymbolType
  <1>5. id \in Id /\ g \in AnyFrame /\ g.pc = "enter"
    BY <1>2, StatementNode, NewFrames DEF AnyFrame, Expr, Frame
  <1> HIDE DEF top, dst
  <1>6. f \in StatementFrame /\ f.node = top.node /\ f.label = top.label /\ f.l_end = top.l_end
        /\ f.fn = "statement"
    <2>1. Value(dst.type, Txt(id)) \in QuadValue
      BY <1>4, <1>5 DEF QuadValue, Value, Txt, Place, Text
    <2> QED BY <1>2, <2>1 DEF StatementFrame, FrameOf, StatementPc
  <1>7. Like(f, top)
    BY <1>2, <1>6, PlainLike DEF Plain
  <1> HIDE DEF f, g
  <1> QED BY <1>2, <1>3, <1>4, <1>5, <1>6, <1>7, QuietCall DEF AnyFrame

LEMMA AssignStep ==
  ASSUME TypeOK, LabelInv, Assign
  PROVE  TypeOK' /\ LabelInv'
  <1> DEFINE dst == top.val
             src == IF dst.type = FLOAT /\ ret.type = INT THEN quad_to_float(ctx, ret)
                    ELSE Result(ctx, ret)
             op == IF dst.type = INT THEN "IASN" ELSE "RASN"
  <1>1. AtNode("statement", {"ASSIGN"}, "assign")
    BY DEF Assign, Resume
  <1>2. stack # <<>> /\ top \in StatementFrame /\ top.node.kind = "ASSIGN"
        /\ ctx \in QuadContext /\ ret \in QuadValue
    BY <1>1, TopStatement
  <1>3. /\ ctx' = IF ctx.error THEN ctx
                  ELSE quad_emitf(src.ctx, Quad(op, <<dst.place, src.val.place>>))
        /\ Return(NoValue) /\ UNCHANGED <<program, rc>>
    BY DEF Assign, Constant
  <1> HIDE DEF top
  <1>4. Computed(ctx, src)
    <2>1. Computed(ctx, Result(ctx, ret))
      BY <1>2, QuietReflexive DEF Computed, Result
    <2> QED BY <1>2, <2>1, ConversionComputes
  <1>5. op \in PlainOp /\ dst.place \in Place
    BY <1>2 DEF PlainOp, Op, StatementFrame, FrameOf, QuadValue
  <1> HIDE DEF src, op, dst
  <1>6. Quiet(ctx, ctx')
    <2>1. src.ctx \in QuadContext /\ <<dst.place, src.val.place>> \in Seq(Place)
      BY <1>4, <1>5 DEF Computed, Quiet, QuadValue
    <2>2. Quiet(src.ctx, quad_emitf(src.ctx, Quad(op, <<dst.place, src.val.place>>)))
      BY <1>5, <2>1, EmitQuad
    <2> QED BY <1>2, <1>3, <1>4, <2>2, QuietReflexive, QuietTransitive DEF Computed
  <1>7. Plain(top)
    BY <1>2 DEF Plain
  <1> QED BY <1>2, <1>3, <1>6, <1>7, PlainFrame, NewFrames, QuietReturn

LEMMA InputStep ==
  ASSUME TypeOK, LabelInv, Input
  PROVE  TypeOK' /\ LabelInv'
  <1> DEFINE id == top.node.identifier
             t == quad_symbol_type(ctx, id)
             op == IF t.type = INT THEN "IINP" ELSE "RINP"
  <1>1. AtNode("statement", {"INPUT"}, "enter")
    BY DEF Input, Enter
  <1>2. stack # <<>> /\ top.node \in Statement /\ top.node.kind = "INPUT" /\ ctx \in QuadContext
        /\ top.pc = "enter"
    BY <1>1, TopStatement
  <1>3. ctx' = quad_emitf(t.ctx, Quad(op, <<Txt(id)>>)) /\ Return(NoValue) /\ UNCHANGED <<program, rc>>
    BY DEF Input, Constant
  <1>4. Quiet(ctx, t.ctx) /\ id \in Id
    BY <1>2, SymbolType, StatementNode
  <1>5. op \in PlainOp /\ <<Txt(id)>> \in Seq(Place)
    <2>1. Txt(id) \in Place
      BY <1>4 DEF Txt, Place, Text
    <2>2. op \in PlainOp
      BY DEF PlainOp, Op
    <2> QED BY <2>1, <2>2
  <1> HIDE DEF t, op, id
  <1>6. Quiet(ctx, ctx')
    BY <1>3, <1>4, <1>5, EmitQuad, QuietTransitive DEF Quiet
  <1> QED BY <1>2, <1>3, <1>6, Entering, NewFrames, QuietReturn

LEMMA OutputStep ==
  ASSUME TypeOK, LabelInv, Output
  PROVE  TypeOK' /\ LabelInv'
  <1> DEFINE op == IF ret.type = INT THEN "IPRT" ELSE "RPRT"
  <1>1. AtNode("statement", {"OUTPUT"}, "output")
    BY DEF Output, Resume
  <1>2. stack # <<>> /\ top.node.kind = "OUTPUT" /\ ctx \in QuadContext /\ ret \in QuadValue
    BY <1>1, TopStatement
  <1>3. ctx' = quad_emitf(ctx, Quad(op, <<ret.place>>)) /\ Return(NoValue) /\ UNCHANGED <<program, rc>>
    BY DEF Output, Constant
  <1>4. op \in PlainOp /\ <<ret.place>> \in Seq(Place)
    BY <1>2 DEF PlainOp, Op, QuadValue
  <1> HIDE DEF op
  <1>5. Quiet(ctx, ctx') /\ Plain(top)
    BY <1>2, <1>3, <1>4, EmitQuad DEF Plain
  <1> QED BY <1>2, <1>3, <1>5, PlainFrame, NewFrames, QuietReturn

\* A call that leaves the context alone, from an activation that owes nothing
LEMMA SilentCall ==
  ASSUME TypeOK, LabelInv, stack # <<>>, Silent, Plain(top),
         NEW f \in AnyFrame, NEW g \in AnyFrame, Call(f, g), g.pc = "enter",
         f.fn = top.fn, f.node = top.node, f.label = top.label, f.l_end = top.l_end
  PROVE  TypeOK' /\ LabelInv'
  <1>1. Like(f, top)
    BY PlainLike DEF Plain
  <1>2. Quiet(ctx, ctx') /\ UNCHANGED <<program, rc>>
    BY QuietReflexive DEF Silent, TypeOK
  <1> QED BY <1>1, <1>2, QuietCall

LEMMA SilentReturn ==
  ASSUME TypeOK, LabelInv, stack # <<>>, Silent, Plain(top), NEW v \in QuadValue, Return(v)
  PROVE  TypeOK' /\ LabelInv'
  <1>1. Quiet(ctx, ctx') /\ UNCHANGED <<program, rc>>
    BY QuietReflexive DEF Silent, TypeOK
  <1> QED BY <1>1, PlainFrame, QuietReturn

LEMMA OutputExpressionStep ==
  ASSUME TypeOK, LabelInv, OutputExpression
  PROVE  TypeOK' /\ LabelInv'
  <1> DEFINE f == [top EXCEPT !.pc = "output"]
             g == Expr(top.node.expression)
  <1>1. AtNode("statement", {"OUTPUT"}, "enter")
    BY DEF OutputExpression, Enter
  <1>2. stack # <<>> /\ top \in StatementFrame /\ top.node \in Statement /\ top.node.kind = "OUTPUT"
    BY <1>1, TopStatement
  <1>3. Call(f, g) /\ Silent
    BY DEF OutputExpression
  <1>4. g \in AnyFrame /\ g.pc = "enter" /\ Plain(top)
    BY <1>2, StatementNode, NewFrames DEF AnyFrame, Expr, Frame, Plain
  <1> HIDE DEF top
  <1>5. f \in AnyFrame /\ f.fn = top.fn /\ f.node = top.node /\ f.label = top.label /\ f.l_end = top.l_end
    BY <1>2 DEF AnyFrame, StatementFrame, FrameOf, StatementPc
  <1> HIDE DEF f, g
  <1> QED BY <1>2, <1>3, <1>4, <1>5, SilentCall

LEMMA BlockStep ==
  ASSUME TypeOK, LabelInv, Block
  PROVE  TypeOK' /\ LabelInv'
  <1> DEFINE f == [top EXCEPT !.pc = "block"]
             g == List(top.node.statements)
  <1>1. AtNode("statement", {"BLOCK"}, "enter")
    BY DEF Block, Enter
  <1>2. stack # <<>> /\ top \in StatementFrame /\ top.node \in Statement /\ top.node.kind = "BLOCK"
    BY <1>1, TopStatement
  <1>3. Call(f, g) /\ Silent
    BY DEF Block
  <1>4. g \in AnyFrame /\ g.pc = "enter" /\ Plain(top)
    BY <1>2, StatementNode, NewFrames DEF AnyFrame, List, Frame, Plain
  <1> HIDE DEF top
  <1>5. f \in AnyFrame /\ f.fn = top.fn /\ f.node = top.node /\ f.label = top.label /\ f.l_end = top.l_end
    BY <1>2 DEF AnyFrame, StatementFrame, FrameOf, StatementPc
  <1> HIDE DEF f, g
  <1> QED BY <1>2, <1>3, <1>4, <1>5, SilentCall

LEMMA BlockEndStep ==
  ASSUME TypeOK, LabelInv, BlockEnd
  PROVE  TypeOK' /\ LabelInv'
  <1>1. AtNode("statement", {"BLOCK"}, "block")
    BY DEF BlockEnd, Resume
  <1>2. stack # <<>> /\ Plain(top)
    BY <1>1, TopStatement DEF Plain
  <1> QED BY <1>2, NewFrames, SilentReturn DEF BlockEnd

LEMMA TopList ==
  ASSUME TypeOK, At("list", "enter")
  PROVE  /\ stack # <<>> /\ top \in ListFrame /\ Plain(top) /\ top.rest \in Seq(Statement)
         /\ top.fn = "list"
  <1>1. stack # <<>> /\ top.fn = "list" /\ top \in ListFrame
    BY TopFrame DEF At
  <1> HIDE DEF top
  <1> QED BY <1>1 DEF Plain, ListFrame, FrameOf

LEMMA ListNextStep ==
  ASSUME TypeOK, LabelInv, ListNext
  PROVE  TypeOK' /\ LabelInv'
  <1> DEFINE f == [top EXCEPT !.rest = Tail(@)]
             g == Stmt(Head(top.rest))
  <1>1. stack # <<>> /\ top \in ListFrame /\ Plain(top) /\ top.rest \in Seq(Statement) /\ top.fn = "list"
    BY TopList DEF ListNext
  <1>2. Call(f, g) /\ Silent /\ top.rest # <<>>
    BY DEF ListNext
  <1>3. Head(top.rest) \in Statement /\ Tail(top.rest) \in Seq(Statement)
    BY <1>1, <1>2, HeadTailProperties
  <1>4. g \in AnyFrame /\ g.pc = "enter"
    BY <1>3, NewFrames DEF AnyFrame, Stmt, Frame
  <1> HIDE DEF top
  <1>5. f \in AnyFrame /\ f.fn = top.fn /\ f.node = top.node /\ f.label = top.label /\ f.l_end = top.l_end
    BY <1>1, <1>3 DEF AnyFrame, ListFrame, FrameOf
  <1> HIDE DEF f, g
  <1> QED BY <1>1, <1>2, <1>4, <1>5, SilentCall

LEMMA ListEndStep ==
  ASSUME TypeOK, LabelInv, ListEnd
  PROVE  TypeOK' /\ LabelInv'
  BY TopList, NewFrames, SilentReturn DEF ListEnd

LEMMA ExprIdStep ==
  ASSUME TypeOK, LabelInv, ExprId
  PROVE  TypeOK' /\ LabelInv'
  <1> DEFINE id == top.node.identifier
             t == quad_symbol_type(ctx, id)
             v == Value(t.type, Txt(Prefix63[id]))
  <1>1. AtNode("expr", {"ID"}, "enter")
    BY DEF ExprId
  <1>2. stack # <<>> /\ top.node \in Expression \cup Condition /\ top.node.kind = "ID"
        /\ ctx \in QuadContext /\ Plain(top)
    BY <1>1, TopExpr
  <1>3. ctx' = t.ctx /\ Return(v) /\ UNCHANGED <<program, rc>>
    BY DEF ExprId, Constant
  <1>4. id \in Id
    BY <1>2, ExpressionNode
  <1>5. Quiet(ctx, ctx') /\ t.type \in AstType
    BY <1>2, <1>3, SymbolType
  <1> HIDE DEF t, id
  <1>6. v \in QuadValue
    <2>1. Prefix63[id] \in Text
      BY <1>4, PlaceAssumption DEF Text
    <2> QED BY <1>5, <2>1 DEF Value, QuadValue, Txt, Place
  <1> HIDE DEF v
  <1> QED BY <1>2, <1>3, <1>5, <1>6, PlainFrame, QuietReturn

LEMMA ExprLiteralStep ==
  ASSUME TypeOK, LabelInv, ExprLiteral
  PROVE  TypeOK' /\ LabelInv'
  <1> DEFINE text == top.node.number_text
             v == Value(IF top.node.kind = "INT_LITERAL" THEN INT ELSE FLOAT, Txt(Prefix63[text]))
  <1>1. AtNode("expr", {"INT_LITERAL", "FLOAT_LITERAL"}, "enter")
    BY DEF ExprLiteral
  <1>2. stack # <<>> /\ top.node \in Expression \cup Condition /\ Plain(top)
        /\ top.node.kind \in {"INT_LITERAL", "FLOAT_LITERAL"}
    BY <1>1, TopExpr
  <1>3. Silent /\ Return(v)
    BY DEF ExprLiteral
  <1>4. Prefix63[text] \in Text
    BY <1>2, ExpressionNode, PlaceAssumption DEF Text, Literal
  <1> HIDE DEF text
  <1>5. v \in QuadValue
    BY <1>4 DEF Value, QuadValue, Txt, Place, AstType
  <1> HIDE DEF v
  <1> QED BY <1>2, <1>3, <1>5, SilentReturn

LEMMA ExprOperandStep ==
  ASSUME TypeOK, LabelInv, ExprOperand
  PROVE  TypeOK' /\ LabelInv'
  <1> DEFINE f == [top EXCEPT !.pc = "operand"]
             g == Expr(top.node.operand)
  <1>1. AtNode("expr", Unary, "enter")
    BY DEF ExprOperand
  <1>2. stack # <<>> /\ top \in ExprFrame /\ top.node \in Expression \cup Condition
        /\ top.node.kind \in Unary /\ Plain(top)
    BY <1>1, TopExpr
  <1>3. Call(f, g) /\ Silent
    BY DEF ExprOperand
  <1>4. g \in AnyFrame /\ g.pc = "enter"
    BY <1>2, ExpressionNode, NewFrames DEF AnyFrame, Expr, Frame
  <1> HIDE DEF top
  <1>5. f \in AnyFrame /\ f.fn = top.fn /\ f.node = top.node /\ f.label = top.label /\ f.l_end = top.l_end
    BY <1>2 DEF AnyFrame, ExprFrame, FrameOf
  <1> HIDE DEF f, g
  <1> QED BY <1>2, <1>3, <1>4, <1>5, SilentCall

LEMMA ExprLeftStep ==
  ASSUME TypeOK, LabelInv, ExprLeft
  PROVE  TypeOK' /\ LabelInv'
  <1> DEFINE f == [top EXCEPT !.pc = "left"]
             g == Expr(top.node.left)
  <1>1. AtNode("expr", {"BINARY"}, "enter")
    BY DEF ExprLeft
  <1>2. stack # <<>> /\ top \in ExprFrame /\ top.node \in Expression \cup Condition
        /\ top.node.kind = "BINARY" /\ Plain(top)
    BY <1>1, TopExpr
  <1>3. Call(f, g) /\ Silent
    BY DEF ExprLeft
  <1>4. g \in AnyFrame /\ g.pc = "enter"
    BY <1>2, ExpressionNode, NewFrames DEF AnyFrame, Expr, Frame
  <1> HIDE DEF top
  <1>5. f \in AnyFrame /\ f.fn = top.fn /\ f.node = top.node /\ f.label = top.label /\ f.l_end = top.l_end
    BY <1>2 DEF AnyFrame, ExprFrame, FrameOf
  <1> HIDE DEF f, g
  <1> QED BY <1>2, <1>3, <1>4, <1>5, SilentCall

LEMMA ExprRightStep ==
  ASSUME TypeOK, LabelInv, ExprRight
  PROVE  TypeOK' /\ LabelInv'
  <1> DEFINE f == [top EXCEPT !.pc = "right", !.val = ret]
             g == Expr(top.node.right)
  <1>1. AtNode("expr", {"BINARY"}, "left")
    BY DEF ExprRight
  <1>2. stack # <<>> /\ top \in ExprFrame /\ top.node \in Expression \cup Condition
        /\ top.node.kind = "BINARY" /\ Plain(top) /\ ret \in QuadValue
    BY <1>1, TopExpr
  <1>3. Call(f, g) /\ Silent
    BY DEF ExprRight
  <1>4. g \in AnyFrame /\ g.pc = "enter"
    BY <1>2, ExpressionNode, NewFrames DEF AnyFrame, Expr, Frame
  <1> HIDE DEF top
  <1>5. f \in AnyFrame /\ f.fn = top.fn /\ f.node = top.node /\ f.label = top.label /\ f.l_end = top.l_end
    BY <1>2 DEF AnyFrame, ExprFrame, FrameOf
  <1> HIDE DEF f, g
  <1> QED BY <1>2, <1>3, <1>4, <1>5, SilentCall

LEMMA ExprUnaryStep ==
  ASSUME TypeOK, LabelInv, ExprUnary
  PROVE  TypeOK' /\ LabelInv'
  <1> DEFINE b == quad_to_bool_int(ctx, ret)
             r == CASE top.node.kind = "CAST_INT"   -> quad_to_int(ctx, ret)
                    [] top.node.kind = "CAST_FLOAT" -> quad_to_float(ctx, ret)
                    [] top.node.kind = "NOT"        -> quad_invert_bool(b.ctx, b.val)
  <1>1. AtNode("expr", Unary, "operand")
    BY DEF ExprUnary
  <1>2. stack # <<>> /\ top.node.kind \in Unary /\ Plain(top) /\ ctx \in QuadContext /\ ret \in QuadValue
    BY <1>1, TopExpr
  <1>3. ctx' = r.ctx /\ Return(r.val) /\ UNCHANGED <<program, rc>>
    BY DEF ExprUnary, Constant
  <1>4. Computed(ctx, b)
    BY <1>2, ConversionComputes
  <1> HIDE DEF b
  <1>5. Computed(ctx, quad_invert_bool(b.ctx, b.val))
    BY <1>4, ConversionComputes, QuietTransitive DEF Computed, Quiet
  <1>6. Computed(ctx, r)
    BY <1>2, <1>5, ConversionComputes DEF Unary
  <1> HIDE DEF r
  <1> QED BY <1>2, <1>3, <1>6, PlainFrame, QuietReturn DEF Computed

LEMMA ExprBinaryStep ==
  ASSUME TypeOK, LabelInv, ExprBinary
  PROVE  TypeOK' /\ LabelInv'
  <1> DEFINE r == quad_emit_binary(ctx, top.node.op, top.val, ret)
  <1>1. AtNode("expr", {"BINARY"}, "right")
    BY DEF ExprBinary
  <1>2. stack # <<>> /\ top \in ExprFrame /\ top.node \in Expression \cup Condition
        /\ top.node.kind = "BINARY" /\ Plain(top) /\ ctx \in QuadContext /\ ret \in QuadValue
    BY <1>1, TopExpr
  <1>3. ctx' = r.ctx /\ Return(r.val) /\ UNCHANGED <<program, rc>>
    BY DEF ExprBinary, Constant
  <1>4. top.node.op \in ArithOp \cup RelOp \cup BoolOp
    BY <1>2, ExpressionNode
  <1>5. top.val \in QuadValue
    BY <1>2 DEF ExprFrame, FrameOf
  <1>6. Computed(ctx, r)
    BY <1>2, <1>4, <1>5, BinaryComputes
  <1> HIDE DEF r
  <1> QED BY <1>2, <1>3, <1>6, PlainFrame, QuietReturn DEF Computed

(***************************************************************************)
(* The steps that take, define or use labels                               *)
(***************************************************************************)

\* d is c once a label is taken, once label l is defined, once a jump to l is written
TakesLabel(c, d) ==
  /\ d \in QuadContext /\ d.label_counter = c.label_counter + 1
  /\ d.out = c.out /\ d.break_labels = c.break_labels /\ d.error = c.error
DefinesLabel(c, d, l) ==
  /\ d \in QuadContext
  /\ d.label_counter = c.label_counter /\ d.break_labels = c.break_labels
  /\ c.error => d.error
  /\ LabelsIn(c.out) \subseteq LabelsIn(d.out)
  /\ LabelsIn(d.out) \subseteq LabelsIn(c.out) \cup {l}
  /\ JumpsIn(d.out) \subseteq JumpsIn(c.out)
  /\ ~d.error => l \in LabelsIn(d.out)
  /\ DistinctLabels(c.out) /\ l \notin LabelsIn(c.out) => DistinctLabels(d.out)
JumpsTo(c, d, l) ==
  /\ d \in QuadContext
  /\ d.label_counter = c.label_counter /\ d.break_labels = c.break_labels
  /\ c.error => d.error
  /\ LabelsIn(d.out) = LabelsIn(c.out)
  /\ JumpsIn(d.out) \subseteq JumpsIn(c.out) \cup {l}
  /\ DistinctLabels(c.out) => DistinctLabels(d.out)

LEMMA QuietThenJump ==
  ASSUME NEW c, NEW d, NEW e, NEW l, Quiet(c, d), JumpsTo(d, e, l)
  PROVE  JumpsTo(c, e, l)
  BY DEF Quiet, JumpsTo

LEMMA NewLabel ==
  ASSUME NEW c \in QuadContext
  PROVE  TakesLabel(c, quad_new_label(c))
  <1> DEFINE d == quad_new_label(c)
  <1>1. d \in QuadContext
    BY SMTT(30) DEF quad_new_label, QuadContext
  <1>2. /\ d.label_counter = c.label_counter + 1 /\ d.out = c.out
        /\ d.break_labels = c.break_labels /\ d.error = c.error
    BY DEF quad_new_label, QuadContext
  <1> QED BY <1>1, <1>2 DEF TakesLabel

LEMMA EmitLABEL ==
  ASSUME NEW c \in QuadContext, NEW l \in Nat
  PROVE  DefinesLabel(c, quad_emitf(c, LABEL(l)), l)
  <1>1. LABEL(l) \in Line /\ IsLabel(LABEL(l)) /\ ~IsJump(LABEL(l)) /\ LABEL(l).label = l
    BY DEF LABEL, Line, Op, IsLabel, IsJump
  <1> DEFINE line == LABEL(l)
             d == quad_emitf(c, line)
  <1> HIDE DEF line, d
  <1>2. line \in Line /\ IsLabel(line) /\ ~IsJump(line) /\ line.label = l /\ d = quad_emitf(c, line)
    BY <1>1 DEF line, d
  <1>3. DefinesLabel(c, d, l)
    BY <1>2, EmitLine DEF DefinesLabel
  <1> QED BY <1>3 DEF line, d

LEMMA EmitJumpLine ==
  ASSUME NEW c \in QuadContext, NEW line \in Line, ~IsLabel(line), IsJump(line)
  PROVE  JumpsTo(c, quad_emitf(c, line), line.label)
  <1> DEFINE d == quad_emitf(c, line)
  <1> HIDE DEF d
  <1>1. d = quad_emitf(c, line)
    BY DEF d
  <1>2. /\ d \in QuadContext
        /\ d.label_counter = c.label_counter /\ d.break_labels = c.break_labels
        /\ c.error => d.error
        /\ LabelsIn(c.out) \subseteq LabelsIn(d.out)
        /\ LabelsIn(d.out) \subseteq LabelsIn(c.out) \cup (IF IsLabel(line) THEN {line.label} ELSE {})
        /\ JumpsIn(d.out) \subseteq JumpsIn(c.out) \cup (IF IsJump(line) THEN {line.label} ELSE {})
        /\ DistinctLabels(c.out) => DistinctLabels(d.out)
    BY <1>1, EmitLine
  <1>3. JumpsTo(c, d, line.label)
    BY <1>2 DEF JumpsTo
  <1> QED BY <1>3 DEF d

LEMMA EmitJump ==
  ASSUME NEW c \in QuadContext, NEW l \in Nat
  PROVE  /\ JumpsTo(c, quad_emitf(c, JUMP(l)), l)
         /\ \A p \in Place : JumpsTo(c, quad_emitf(c, JMPZ(l, p)), l)
  <1>1. JUMP(l) \in Line /\ ~IsLabel(JUMP(l)) /\ IsJump(JUMP(l)) /\ JUMP(l).label = l
    BY DEF JUMP, Line, Op, IsLabel, IsJump
  <1>2. ASSUME NEW p \in Place
        PROVE  /\ JMPZ(l, p) \in Line /\ ~IsLabel(JMPZ(l, p)) /\ IsJump(JMPZ(l, p))
               /\ JMPZ(l, p).label = l
    BY DEF JMPZ, Line, Op, IsLabel, IsJump
  <1>3. JumpsTo(c, quad_emitf(c, JUMP(l)), l)
    <2>1. JumpsTo(c, quad_emitf(c, JUMP(l)), JUMP(l).label)
      BY <1>1, EmitJumpLine
    <2> QED BY <1>1, <2>1
  <1>4. ASSUME NEW p \in Place PROVE JumpsTo(c, quad_emitf(c, JMPZ(l, p)), l)
    <2>1. JumpsTo(c, quad_emitf(c, JMPZ(l, p)), JMPZ(l, p).label)
      BY <1>2, EmitJumpLine
    <2> QED BY <1>2, <2>1
  <1> QED BY <1>3, <1>4

LEMMA Conclude ==
  ASSUME TypeOK, LabelInv, UNCHANGED <<program, rc>>, ret' \in QuadValue,
         StackStep, LabelsStep, JumpsStep, NoDanglingBreakLabel'
  PROVE  TypeOK' /\ LabelInv'
  <1>1. OwedOnce' /\ JumpsOwed' /\ LabelsUnique'
    BY OwedOnceStep, JumpsOwedStep DEF LabelInv, LabelsUnique, LabelsStep
  <1>2. (rc # RUNNING => stack = <<>>)' /\ (rc = 0 => ~ctx.error)'
    BY DEF LabelInv, RUNNING, StackStep
  <1>3. TypeOK'
    BY DEF TypeOK, StackStep, LabelsStep
  <1> QED BY <1>1, <1>2, <1>3 DEF LabelInv

\* What is known of the label invariant at the top of the stack
LEMMA TopOwes ==
  ASSUME TypeOK, LabelInv, stack # <<>>
  PROVE  /\ depth \in Nat \ {0} /\ ctx.label_counter \in Nat
         /\ DistinctLabels(ctx.out)
         /\ LabelsIn(ctx.out) \subseteq 1 .. ctx.label_counter
         /\ Owed(top) \subseteq (1 .. ctx.label_counter) \ LabelsIn(ctx.out)
         /\ OwesLabel(top) /\ OwesEnd(top) => top.label # top.l_end
         /\ ~ctx.error /\ Loops(top) => top.label \in LabelsIn(ctx.out)
  <1>1. depth \in Nat \ {0} /\ depth \in 1 .. depth /\ top = stack[depth]
    BY TopFrame DEF top
  <1>2. ctx.label_counter \in Nat
    BY ContextFields DEF TypeOK
  <1> QED BY <1>1, <1>2 DEF LabelInv, LabelsUnique, OwedOnce, JumpsOwed

LEMMA CallStep ==
  ASSUME TypeOK, stack # <<>>, NEW f \in AnyFrame, NEW g \in AnyFrame, Call(f, g), g.pc = "enter"
  PROVE  StackStep /\ Len(stack') >= depth /\ stack'[depth] = f /\ Kept = Owed(f)
         /\ ret' \in QuadValue
  <1>1. depth \in Nat \ {0}
    BY TopFrame
  <1>2. stack' \in Seq(AnyFrame) /\ Len(stack') = depth + 1 /\ ret' = NoValue
        /\ stack'[depth] = f /\ stack'[depth + 1] = g
        /\ \A k \in 1 .. depth - 1 : stack'[k] = stack[k]
    BY CallStack
  <1>3. StackStep
    BY <1>1, <1>2, Entering DEF StackStep
  <1> QED BY <1>1, <1>2, <1>3, NewFrames DEF Kept

LEMMA StayStep ==
  ASSUME TypeOK, stack # <<>>, NEW f \in AnyFrame, Stay(f)
  PROVE  StackStep /\ Len(stack') >= depth /\ stack'[depth] = f /\ Kept = Owed(f)
         /\ ret' \in QuadValue
  <1>1. depth \in Nat \ {0}
    BY TopFrame
  <1>2. stack' \in Seq(AnyFrame) /\ Len(stack') = depth /\ ret' = NoValue
        /\ stack'[depth] = f
        /\ \A k \in 1 .. depth - 1 : stack'[k] = stack[k]
    BY StayStack
  <1>3. StackStep
    BY <1>1, <1>2 DEF StackStep
  <1> QED BY <1>1, <1>2, <1>3, NewFrames DEF Kept

LEMMA ReturnStep ==
  ASSUME TypeOK, stack # <<>>, Return(NoValue)
  PROVE  StackStep /\ Len(stack') = depth - 1 /\ ~(Len(stack') >= depth) /\ Kept = {}
         /\ ret' \in QuadValue
  <1>1. depth \in Nat \ {0}
    BY TopFrame
  <1>2. stack' \in Seq(AnyFrame) /\ Len(stack') = depth - 1 /\ ret' = NoValue
        /\ \A k \in 1 .. depth - 1 : stack'[k] = stack[k]
    BY ReturnStack
  <1>3. StackStep
    BY <1>1, <1>2 DEF StackStep
  <1> QED BY <1>1, <1>2, <1>3, NewFrames DEF Kept

LEMMA IfConditionStep ==
  ASSUME TypeOK, LabelInv, IfCondition
  PROVE  TypeOK' /\ LabelInv'
  <1> DEFINE n == ctx.label_counter
             l_else == quad_new_label(ctx)
             l_end == quad_new_label(l_else)
             f == [top EXCEPT !.pc = "condition", !.label = l_else.label_counter,
                              !.l_end = l_end.label_counter]
             g == Expr(top.node.condition)
  <1>1. AtNode("statement", {"IF"}, "enter") /\ ~ctx.error
    BY DEF IfCondition, Enter
  <1>2. /\ stack # <<>> /\ top \in StatementFrame /\ top.node \in Statement /\ top.node.kind = "IF"
        /\ top.fn = "statement" /\ top.pc = "enter" /\ ctx \in QuadContext
    BY <1>1, TopStatement
  <1>3. ctx' = l_end /\ Call(f, g) /\ UNCHANGED <<program, rc>>
    BY DEF IfCondition, Constant
  <1>4. g \in AnyFrame /\ g.pc = "enter"
    BY <1>2, StatementNode, NewFrames DEF AnyFrame, Expr, Frame
  <1>5. TakesLabel(ctx, l_else)
    BY <1>2, NewLabel
  <1> HIDE DEF l_else
  <1>5a. TakesLabel(l_else, l_end)
    BY <1>5, NewLabel DEF TakesLabel
  <1> HIDE DEF l_end
  <1>6. /\ ctx' \in QuadContext /\ ctx'.label_counter = n + 2 /\ ctx'.out = ctx.out
        /\ ctx'.break_labels = ctx.break_labels /\ ctx'.error = ctx.error /\ n \in Nat
    BY <1>2, <1>3, <1>5, <1>5a, ContextFields DEF TakesLabel
  <1>7. ~Breakable(top) /\ Owed(top) = {}
    BY <1>2, Entering
  <1>8. l_else.label_counter = n + 1 /\ l_end.label_counter = n + 2
    BY <1>3, <1>5, <1>6 DEF TakesLabel
  <1>9. f \in AnyFrame /\ f.fn = "statement" /\ f.node.kind = "IF" /\ f.label = n + 1 /\ f.l_end = n + 2
    <2>1. l_else.label_counter \in Nat /\ l_end.label_counter \in Nat
      BY <1>6, <1>8
    <2>2. f \in StatementFrame /\ f.fn = "statement" /\ f.node = top.node
          /\ f.label = l_else.label_counter /\ f.l_end = l_end.label_counter
      BY <1>2, <2>1 DEF StatementFrame, FrameOf, StatementPc
    <2> QED BY <1>2, <1>8, <2>2 DEF AnyFrame
  <1> HIDE DEF f, g
  <1>10. StackStep /\ Len(stack') >= depth /\ stack'[depth] = f /\ Kept = Owed(f) /\ ret' \in QuadValue
    BY <1>2, <1>3, <1>4, <1>9, CallStep
  <1>11. Owed(f) \subseteq New \ LabelsIn(ctx.out) /\ f.label # f.l_end
    <2>1. Owed(f) \subseteq {n + 1, n + 2}
      BY <1>9 DEF Owed
    <2>2. LabelsIn(ctx.out) \subseteq 1 .. n
      BY <1>2, TopOwes
    <2> QED BY <1>6, <1>9, <2>1, <2>2 DEF New
  <1>12. ~Loops(f)
    BY <1>9 DEF Loops
  <1>13. LabelsStep
    BY <1>2, <1>6, <1>10, <1>11, TopOwes DEF LabelsStep, JumpsTo, DefinesLabel
  <1>14. JumpsStep
    BY <1>1, <1>6, <1>7, <1>10, <1>12 DEF JumpsStep, JumpsTo, DefinesLabel
  <1>15. NoDanglingBreakLabel'
    BY <1>6, <1>7, <1>10, BreakLabelsKept DEF LabelInv, JumpsTo, DefinesLabel
  <1> QED BY <1>3, <1>10, <1>13, <1>14, <1>15, Conclude

LEMMA IfThenStep ==
  ASSUME TypeOK, LabelInv, IfThen
  PROVE  TypeOK' /\ LabelInv'
  <1> DEFINE c == quad_to_bool_int(ctx, ret)
             f == [top EXCEPT !.pc = "then"]
             g == Stmt(top.node.then_stmt)
  <1>1. AtNode("statement", {"IF"}, "condition")
    BY DEF IfThen, Resume
  <1>2. /\ stack # <<>> /\ top \in StatementFrame /\ top.node \in Statement /\ top.node.kind = "IF"
        /\ top.fn = "statement" /\ top.pc = "condition" /\ ctx \in QuadContext /\ ret \in QuadValue
    BY <1>1, TopStatement
  <1>3. ctx' = quad_emitf(c.ctx, JMPZ(top.label, c.val.place)) /\ Call(f, g) /\ UNCHANGED <<program, rc>>
    BY DEF IfThen, Constant
  <1>4. g \in AnyFrame /\ g.pc = "enter"
    BY <1>2, StatementNode, NewFrames DEF AnyFrame, Stmt, Frame
  <1>5. Computed(ctx, c)
    BY <1>2, ConversionComputes
  <1> HIDE DEF c, g
  <1>6. top.label \in Nat
    BY <1>2 DEF StatementFrame, FrameOf
  <1>7. JumpsTo(ctx, ctx', top.label)
    <2>1. c.ctx \in QuadContext /\ c.val.place \in Place
      BY <1>5 DEF Computed, Quiet, QuadValue
    <2> QED BY <1>3, <1>5, <1>6, <2>1, EmitJump, QuietThenJump DEF Computed
  <1>8. f \in AnyFrame /\ f.fn = "statement" /\ f.pc = "then" /\ f.node = top.node
        /\ f.label = top.label /\ f.l_end = top.l_end
    <2> QED BY <1>2 DEF AnyFrame, StatementFrame, FrameOf, StatementPc
  <1> HIDE DEF f
  <1>9. /\ Owed(f) = Owed(top) /\ top.label \in Owed(top) /\ ~Loops(f) /\ ~Breakable(top)
        /\ OwesLabel(top) /\ (OwesEnd(f) => OwesEnd(top))
    BY <1>2, <1>8 DEF Owed, OwesLabel, OwesEnd, Loops, Breakable
  <1>10. StackStep /\ Len(stack') >= depth /\ stack'[depth] = f /\ Kept = Owed(f) /\ ret' \in QuadValue
    BY <1>2, <1>3, <1>4, <1>8, CallStep
  <1>11. LabelsStep
    <2>1. OwesLabel(f) /\ OwesEnd(f) => f.label # f.l_end
      BY <1>2, <1>8, <1>9, TopOwes
    <2> QED BY <1>2, <1>7, <1>9, <1>10, <2>1, TopOwes DEF LabelsStep, JumpsTo, DefinesLabel
  <1>12. JumpsStep
    BY <1>7, <1>9, <1>10 DEF JumpsStep, JumpsTo, DefinesLabel
  <1>13. NoDanglingBreakLabel'
    BY <1>7, <1>9, <1>10, BreakLabelsKept DEF LabelInv, JumpsTo, DefinesLabel
  <1> QED BY <1>3, <1>10, <1>11, <1>12, <1>13, Conclude

LEMMA IfWithoutElseStep ==
  ASSUME TypeOK, LabelInv, IfWithoutElse
  PROVE  TypeOK' /\ LabelInv'
  <1>1. AtNode("statement", {"IF"}, "then") /\ top.node.else_stmt = NULL
    BY DEF IfWithoutElse, Resume
  <1>2. /\ stack # <<>> /\ top \in StatementFrame /\ top.node.kind = "IF"
        /\ top.fn = "statement" /\ top.pc = "then" /\ ctx \in QuadContext
    BY <1>1, TopStatement
  <1>3. ctx' = quad_emitf(ctx, LABEL(top.label)) /\ Return(NoValue) /\ UNCHANGED <<program, rc>>
    BY DEF IfWithoutElse, Constant
  <1>4. Owed(top) = {top.label} /\ ~Breakable(top)
    BY <1>1, <1>2 DEF Owed, OwesLabel, OwesEnd, Breakable
  <1>5. top.label \in Nat
    BY <1>2 DEF StatementFrame, FrameOf
  <1>6. DefinesLabel(ctx, ctx', top.label)
    BY <1>2, <1>3, <1>5, EmitLABEL
  <1>7. StackStep /\ ~(Len(stack') >= depth) /\ Kept = {} /\ ret' \in QuadValue
    BY <1>2, <1>3, ReturnStep
  <1>8. LabelsStep
    BY <1>2, <1>4, <1>6, <1>7, TopOwes DEF LabelsStep, JumpsTo, DefinesLabel
  <1>9. JumpsStep
    BY <1>4, <1>6, <1>7 DEF JumpsStep, JumpsTo, DefinesLabel
  <1>10. NoDanglingBreakLabel'
    BY <1>4, <1>6, <1>7, BreakLabelsKept DEF LabelInv, JumpsTo, DefinesLabel
  <1> QED BY <1>3, <1>7, <1>8, <1>9, <1>10, Conclude

LEMMA IfElseStep ==
  ASSUME TypeOK, LabelInv, IfElse
  PROVE  TypeOK' /\ LabelInv'
  <1> DEFINE c == quad_emitf(ctx, JUMP(top.l_end))
             f == [top EXCEPT !.pc = "else"]
             g == Stmt(top.node.else_stmt)
  <1>1. AtNode("statement", {"IF"}, "then") /\ top.node.else_stmt # NULL
    BY DEF IfElse, Resume
  <1>2. /\ stack # <<>> /\ top \in StatementFrame /\ top.node \in Statement /\ top.node.kind = "IF"
        /\ top.fn = "statement" /\ top.pc = "then" /\ ctx \in QuadContext /\ ret \in QuadValue
    BY <1>1, TopStatement
  <1>3. ctx' = quad_emitf(c, LABEL(top.label)) /\ Call(f, g) /\ UNCHANGED <<program, rc>>
    BY DEF IfElse, Constant
  <1>4. g \in AnyFrame /\ g.pc = "enter"
    BY <1>1, <1>2, StatementNode, NewFrames DEF AnyFrame, Stmt, Frame
  <1>5. top.label \in Nat /\ top.l_end \in Nat /\ ret.place \in Place
    BY <1>2 DEF StatementFrame, FrameOf, QuadValue
  <1>6. JumpsTo(ctx, c, top.l_end)
    BY <1>2, <1>5, EmitJump
  <1> HIDE DEF c, g
  <1>7. DefinesLabel(c, ctx', top.label)
    BY <1>3, <1>5, <1>6, EmitLABEL DEF JumpsTo
  <1>8. f \in AnyFrame /\ f.fn = "statement" /\ f.pc = "else" /\ f.node = top.node
        /\ f.label = top.label /\ f.l_end = top.l_end
    <2> QED BY <1>2 DEF AnyFrame, StatementFrame, FrameOf, StatementPc
  <1> HIDE DEF f
  <1>9. /\ Owed(f) = {top.l_end} /\ Owed(top) = {top.label, top.l_end}
        /\ OwesLabel(top) /\ OwesEnd(top) /\ ~OwesLabel(f) /\ ~Loops(f) /\ ~Breakable(top)
    BY <1>1, <1>2, <1>8 DEF Owed, OwesLabel, OwesEnd, Loops, Breakable
  <1>10. StackStep /\ Len(stack') >= depth /\ stack'[depth] = f /\ Kept = Owed(f) /\ ret' \in QuadValue
    BY <1>2, <1>3, <1>4, <1>8, CallStep
  <1>11. LabelsStep
    BY <1>2, <1>6, <1>7, <1>9, <1>10, TopOwes DEF LabelsStep, JumpsTo, DefinesLabel
  <1>12. JumpsStep
    BY <1>6, <1>7, <1>9, <1>10 DEF JumpsStep, JumpsTo, DefinesLabel
  <1>13. NoDanglingBreakLabel'
    BY <1>6, <1>7, <1>9, <1>10, BreakLabelsKept DEF LabelInv, JumpsTo, DefinesLabel
  <1> QED BY <1>3, <1>10, <1>11, <1>12, <1>13, Conclude

LEMMA IfEndStep ==
  ASSUME TypeOK, LabelInv, IfEnd
  PROVE  TypeOK' /\ LabelInv'
  <1>1. AtNode("statement", {"IF"}, "else")
    BY DEF IfEnd, Resume
  <1>2. /\ stack # <<>> /\ top \in StatementFrame /\ top.node.kind = "IF"
        /\ top.fn = "statement" /\ top.pc = "else" /\ ctx \in QuadContext
    BY <1>1, TopStatement
  <1>3. ctx' = quad_emitf(ctx, LABEL(top.l_end)) /\ Return(NoValue) /\ UNCHANGED <<program, rc>>
    BY DEF IfEnd, Constant
  <1>4. Owed(top) = {top.l_end} /\ ~Breakable(top)
    BY <1>2 DEF Owed, OwesLabel, OwesEnd, Breakable
  <1>5. top.l_end \in Nat
    BY <1>2 DEF StatementFrame, FrameOf
  <1>6. DefinesLabel(ctx, ctx', top.l_end)
    BY <1>2, <1>3, <1>5, EmitLABEL
  <1>7. StackStep /\ ~(Len(stack') >= depth) /\ Kept = {} /\ ret' \in QuadValue
    BY <1>2, <1>3, ReturnStep
  <1>8. LabelsStep
    BY <1>2, <1>4, <1>6, <1>7, TopOwes DEF LabelsStep, JumpsTo, DefinesLabel
  <1>9. JumpsStep
    BY <1>4, <1>6, <1>7 DEF JumpsStep, JumpsTo, DefinesLabel
  <1>10. NoDanglingBreakLabel'
    BY <1>4, <1>6, <1>7, BreakLabelsKept DEF LabelInv, JumpsTo, DefinesLabel
  <1> QED BY <1>3, <1>7, <1>8, <1>9, <1>10, Conclude

LEMMA WhileConditionStep ==
  ASSUME TypeOK, LabelInv, WhileCondition
  PROVE  TypeOK' /\ LabelInv'
  <1> DEFINE n == ctx.label_counter
             l_start == quad_new_label(ctx)
             l_end == quad_new_label(l_start)
             f == [top EXCEPT !.pc = "condition", !.label = l_start.label_counter,
                              !.l_end = l_end.label_counter]
             g == Expr(top.node.condition)
  <1>1. AtNode("statement", {"WHILE"}, "enter") /\ ~ctx.error
    BY DEF WhileCondition, Enter
  <1>2. /\ stack # <<>> /\ top \in StatementFrame /\ top.node \in Statement /\ top.node.kind = "WHILE"
        /\ top.fn = "statement" /\ top.pc = "enter" /\ ctx \in QuadContext
    BY <1>1, TopStatement
  <1>3. ctx' = quad_emitf(l_end, LABEL(l_start.label_counter)) /\ Call(f, g) /\ UNCHANGED <<program, rc>>
    BY DEF WhileCondition, Constant
  <1>4. g \in AnyFrame /\ g.pc = "enter" /\ ~Breakable(top) /\ Owed(top) = {}
    BY <1>2, StatementNode, NewFrames, Entering DEF AnyFrame, Expr, Frame
  <1>5. TakesLabel(ctx, l_start)
    BY <1>2, NewLabel
  <1> HIDE DEF l_start
  <1>6. TakesLabel(l_start, l_end)
    BY <1>5, NewLabel DEF TakesLabel
  <1> HIDE DEF l_end
  <1>7. /\ n \in Nat /\ l_start.label_counter = n + 1 /\ l_end.label_counter = n + 2
        /\ l_end \in QuadContext /\ l_end.out = ctx.out /\ l_end.break_labels = ctx.break_labels
        /\ l_end.error = ctx.error
    BY <1>2, <1>5, <1>6, ContextFields DEF TakesLabel
  <1>8. DefinesLabel(l_end, ctx', n + 1)
    BY <1>3, <1>7, EmitLABEL
  <1>9. f \in StatementFrame /\ f.fn = "statement" /\ f.pc = "condition" /\ f.node = top.node
        /\ f.label = n + 1 /\ f.l_end = n + 2
    <2>1. l_start.label_counter \in Nat /\ l_end.label_counter \in Nat
      BY <1>7
    <2>2. f \in StatementFrame /\ f.fn = "statement" /\ f.node = top.node /\ f.pc = "condition"
          /\ f.label = l_start.label_counter /\ f.l_end = l_end.label_counter
      BY <1>2, <2>1 DEF StatementFrame, FrameOf, StatementPc
    <2> QED BY <1>7, <2>2
  <1> HIDE DEF f, g
  <1>10. StackStep /\ Len(stack') >= depth /\ stack'[depth] = f /\ Kept = Owed(f) /\ ret' \in QuadValue
    BY <1>2, <1>3, <1>4, <1>9, CallStep DEF AnyFrame
  <1>11. Owed(f) = {n + 2} /\ ~OwesLabel(f)
    BY <1>2, <1>9 DEF Owed, OwesLabel, OwesEnd
  <1>12. ctx'.label_counter = n + 2 /\ n + 1 \in New /\ n + 2 \in New
    BY <1>7, <1>8 DEF DefinesLabel, New
  <1>13. LabelsIn(ctx.out) \subseteq 1 .. n /\ DistinctLabels(ctx.out)
    BY <1>2, TopOwes
  <1>14. LabelsStep
    <2>1. n + 1 \notin LabelsIn(ctx.out) /\ n + 2 \notin LabelsIn(ctx'.out)
      BY <1>7, <1>8, <1>13 DEF DefinesLabel
    <2>2. DistinctLabels(ctx'.out)
      BY <1>7, <1>8, <1>13, <2>1 DEF DefinesLabel
    <2>3. n <= ctx'.label_counter
      BY <1>7, <1>12
    <2> QED BY <1>7, <1>8, <1>10, <1>11, <1>12, <2>1, <2>2, <2>3 DEF LabelsStep, DefinesLabel
  <1>15. JumpsStep
    BY <1>1, <1>4, <1>7, <1>8, <1>9, <1>10 DEF JumpsStep, DefinesLabel
  <1>16. NoDanglingBreakLabel'
    BY <1>4, <1>7, <1>8, <1>10, BreakLabelsKept DEF LabelInv, DefinesLabel
  <1> QED BY <1>3, <1>10, <1>14, <1>15, <1>16, Conclude

\* What quad_push_break and quad_pop_break leave alone
Pushes(c, d, k) ==
  /\ d \in QuadContext /\ d.label_counter = c.label_counter /\ d.out = c.out
  /\ c.error => d.error
  /\ \/ d.break_labels = c.break_labels
     \/ d.break_labels = Append(c.break_labels, k)
Pops(c, d) ==
  /\ d \in QuadContext /\ d.label_counter = c.label_counter /\ d.out = c.out
  /\ d.error = c.error

LEMMA PushBreak ==
  ASSUME NEW c \in QuadContext, NEW k \in Nat
  PROVE  Pushes(c, quad_push_break(c, k), k)
  <1>1. Append(c.break_labels, k) \in Seq(Nat)
    BY ContextFields
  <1> QED BY <1>1 DEF Pushes, quad_push_break, QuadContext

LEMMA PopBreak ==
  ASSUME NEW c \in QuadContext
  PROVE  Pops(c, quad_pop_break(c))
  <1>1. CASE c.break_labels = <<>>
    BY <1>1 DEF Pops, quad_pop_break
  <1>2. CASE c.break_labels # <<>>
    <2>1. SubSeq(c.break_labels, 1, Len(c.break_labels) - 1) \in Seq(Nat)
      BY <1>2, ContextFields, Pop
    <2> QED BY <1>2, <2>1 DEF Pops, quad_pop_break, QuadContext
  <1> QED BY <1>1, <1>2

\* The break labels after a push by the activation on top
LEMMA BreakLabelsAfterPush ==
  ASSUME TypeOK, NoDanglingBreakLabel, StackStep, ~Breakable(top),
         Len(stack') >= depth, Breakable(stack'[depth]),
         NEW c, c.break_labels = ctx.break_labels, Pushes(c, ctx', depth)
  PROVE  NoDanglingBreakLabel'
  BY BreakLabelsKept, BreakLabelPushed DEF Pushes

LEMMA WhileBodyStep ==
  ASSUME TypeOK, LabelInv, WhileBody
  PROVE  TypeOK' /\ LabelInv'
  <1> DEFINE c == quad_to_bool_int(ctx, ret)
             d == quad_emitf(c.ctx, JMPZ(top.l_end, c.val.place))
             f == [top EXCEPT !.pc = "body"]
             g == Stmt(top.node.body)
  <1>1. AtNode("statement", {"WHILE"}, "condition")
    BY DEF WhileBody, Resume
  <1>2. /\ stack # <<>> /\ top \in StatementFrame /\ top.node \in Statement /\ top.node.kind = "WHILE"
        /\ top.fn = "statement" /\ top.pc = "condition" /\ ctx \in QuadContext /\ ret \in QuadValue
        /\ depth \in Nat
    BY <1>1, TopStatement
  <1>3. ctx' = quad_push_break(d, depth) /\ Call(f, g) /\ UNCHANGED <<program, rc>>
    BY DEF WhileBody, Constant
  <1>4. g \in AnyFrame /\ g.pc = "enter"
    BY <1>2, StatementNode, NewFrames DEF AnyFrame, Stmt, Frame
  <1>5. Computed(ctx, c) /\ top.l_end \in Nat
    BY <1>2, ConversionComputes DEF StatementFrame, FrameOf
  <1> HIDE DEF c, g
  <1>6. JumpsTo(ctx, d, top.l_end)
    <2>1. c.ctx \in QuadContext /\ c.val.place \in Place
      BY <1>5 DEF Computed, Quiet, QuadValue
    <2> QED BY <1>5, <2>1, EmitJump, QuietThenJump DEF Computed
  <1> HIDE DEF d
  <1>7. Pushes(d, ctx', depth)
    BY <1>2, <1>3, <1>6, PushBreak DEF JumpsTo
  <1>8. f \in AnyFrame /\ f.fn = "statement" /\ f.pc = "body" /\ f.node = top.node
        /\ f.label = top.label /\ f.l_end = top.l_end
    BY <1>2 DEF AnyFrame, StatementFrame, FrameOf, StatementPc
  <1> HIDE DEF f
  <1>9. /\ Owed(f) = {top.l_end} /\ Owed(top) = {top.l_end} /\ ~OwesLabel(f)
        /\ Loops(top) /\ ~Breakable(top) /\ Breakable(f)
    BY <1>2, <1>8 DEF Owed, OwesLabel, OwesEnd, Loops, Breakable
  <1>10. StackStep /\ Len(stack') >= depth /\ stack'[depth] = f /\ Kept = Owed(f) /\ ret' \in QuadValue
    BY <1>2, <1>3, <1>4, <1>8, CallStep
  <1>11. LabelsStep
    BY <1>2, <1>6, <1>7, <1>9, <1>10, TopOwes DEF LabelsStep, JumpsTo, Pushes
  <1>12. JumpsStep
    BY <1>2, <1>6, <1>7, <1>8, <1>9, <1>10, TopOwes DEF JumpsStep, JumpsTo, Pushes
  <1>13. NoDanglingBreakLabel'
    BY <1>6, <1>7, <1>9, <1>10, BreakLabelsAfterPush DEF LabelInv, JumpsTo
  <1> QED BY <1>3, <1>10, <1>11, <1>12, <1>13, Conclude

LEMMA WhileEndStep ==
  ASSUME TypeOK, LabelInv, WhileEnd
  PROVE  TypeOK' /\ LabelInv'
  <1> DEFINE c == quad_pop_break(ctx)
             d == quad_emitf(c, JUMP(top.label))
  <1>1. AtNode("statement", {"WHILE"}, "body")
    BY DEF WhileEnd, Resume
  <1>2. /\ stack # <<>> /\ top \in StatementFrame /\ top.node.kind = "WHILE"
        /\ top.fn = "statement" /\ top.pc = "body" /\ ctx \in QuadContext
    BY <1>1, TopStatement
  <1>3. ctx' = quad_emitf(d, LABEL(top.l_end)) /\ Return(NoValue) /\ UNCHANGED <<program, rc>>
    BY DEF WhileEnd, Constant
  <1>4. Owed(top) = {top.l_end} /\ Loops(top) /\ top.label \in Nat /\ top.l_end \in Nat
    BY <1>2 DEF Owed, OwesLabel, OwesEnd, Loops, StatementFrame, FrameOf
  <1>5. Pops(ctx, c)
    BY <1>2, PopBreak
  <1>6. JumpsTo(c, d, top.label)
    BY <1>4, <1>5, EmitJump DEF Pops
  <1>7. DefinesLabel(d, ctx', top.l_end)
    <2> HIDE DEF d
    <2> QED BY <1>3, <1>4, <1>6, EmitLABEL DEF JumpsTo
  <1>8. ctx'.break_labels = quad_pop_break(ctx).break_labels
    BY <1>6, <1>7 DEF JumpsTo, DefinesLabel
  <1> HIDE DEF c, d
  <1>9. StackStep /\ Len(stack') = depth - 1 /\ ~(Len(stack') >= depth) /\ Kept = {} /\ ret' \in QuadValue
    BY <1>2, <1>3, ReturnStep
  <1>10. LabelsStep
    BY <1>2, <1>4, <1>5, <1>6, <1>7, <1>9, TopOwes DEF LabelsStep, JumpsTo, DefinesLabel, Pops
  <1>11. JumpsStep
    BY <1>2, <1>4, <1>5, <1>6, <1>7, <1>9, TopOwes DEF JumpsStep, JumpsTo, DefinesLabel, Pops
  <1>12. NoDanglingBreakLabel'
    BY <1>2, <1>8, <1>9, BreakLabelPopped DEF LabelInv
  <1> QED BY <1>3, <1>9, <1>10, <1>11, <1>12, Conclude

LEMMA SwitchExpressionStep ==
  ASSUME TypeOK, LabelInv, SwitchExpression
  PROVE  TypeOK' /\ LabelInv'
  <1> DEFINE n == ctx.label_counter
             f == [top EXCEPT !.pc = "expression", !.l_end = ctx'.label_counter]
             g == Expr(top.node.expression)
  <1>1. AtNode("statement", {"SWITCH"}, "enter") /\ ~ctx.error
    BY DEF SwitchExpression, Enter
  <1>2. /\ stack # <<>> /\ top \in StatementFrame /\ top.node \in Statement /\ top.node.kind = "SWITCH"
        /\ top.fn = "statement" /\ top.pc = "enter" /\ ctx \in QuadContext
    BY <1>1, TopStatement
  <1>3. ctx' = quad_new_label(ctx) /\ Call(f, g) /\ UNCHANGED <<program, rc>>
    BY DEF SwitchExpression, Constant
  <1>4. g \in AnyFrame /\ g.pc = "enter" /\ ~Breakable(top) /\ Owed(top) = {}
    BY <1>2, StatementNode, NewFrames, Entering DEF AnyFrame, Expr, Frame
  <1>5. TakesLabel(ctx, ctx')
    BY <1>2, <1>3, NewLabel
  <1>6. n \in Nat /\ ctx'.label_counter = n + 1
    BY <1>2, <1>5, ContextFields DEF TakesLabel
  <1>7. f \in StatementFrame /\ f.fn = "statement" /\ f.pc = "expression" /\ f.node = top.node
        /\ f.l_end = n + 1
    <2>1. ctx'.label_counter \in Nat
      BY <1>6
    <2> QED BY <1>2, <1>6, <2>1 DEF StatementFrame, FrameOf, StatementPc
  <1> HIDE DEF f, g
  <1>8. StackStep /\ Len(stack') >= depth /\ stack'[depth] = f /\ Kept = Owed(f) /\ ret' \in QuadValue
    BY <1>2, <1>3, <1>4, <1>7, CallStep DEF AnyFrame
  <1>9. Owed(f) = {n + 1} /\ ~OwesLabel(f) /\ ~Loops(f)
    BY <1>2, <1>7 DEF Owed, OwesLabel, OwesEnd, Loops
  <1>10. n + 1 \in New /\ n + 1 \notin LabelsIn(ctx.out) /\ DistinctLabels(ctx.out) /\ n <= n + 1
    BY <1>2, <1>6, TopOwes DEF New
  <1>11. LabelsStep
    BY <1>5, <1>6, <1>8, <1>9, <1>10 DEF LabelsStep, TakesLabel
  <1>12. JumpsStep
    BY <1>1, <1>4, <1>5, <1>8, <1>9 DEF JumpsStep, TakesLabel
  <1>13. NoDanglingBreakLabel'
    BY <1>4, <1>5, <1>8, BreakLabelsKept DEF LabelInv, TakesLabel
  <1> QED BY <1>3, <1>8, <1>11, <1>12, <1>13, Conclude

LEMMA SwitchValueStep ==
  ASSUME TypeOK, LabelInv, SwitchValue
  PROVE  TypeOK' /\ LabelInv'
  <1> DEFINE svi == quad_to_int(ctx, ret)
             f == [top EXCEPT !.pc = "cases", !.rest = top.node.cases, !.val = svi.val]
  <1>1. AtNode("statement", {"SWITCH"}, "expression")
    BY DEF SwitchValue, Resume
  <1>2. /\ stack # <<>> /\ top \in StatementFrame /\ top.node \in Statement /\ top.node.kind = "SWITCH"
        /\ top.fn = "statement" /\ top.pc = "expression" /\ ctx \in QuadContext /\ ret \in QuadValue
        /\ depth \in Nat
    BY <1>1, TopStatement
  <1>3. ctx' = quad_push_break(svi.ctx, depth) /\ Stay(f) /\ UNCHANGED <<program, rc>>
    BY DEF SwitchValue, Constant
  <1>4. Computed(ctx, svi) /\ top.node.cases \in Seq(Case)
    BY <1>2, ConversionComputes, StatementNode
  <1> HIDE DEF svi
  <1>5. Quiet(ctx, svi.ctx) /\ svi.ctx \in QuadContext /\ svi.val \in QuadValue
    BY <1>4 DEF Computed, Quiet
  <1>6. Pushes(svi.ctx, ctx', depth)
    BY <1>2, <1>3, <1>5, PushBreak
  <1>7. f \in AnyFrame /\ f.fn = "statement" /\ f.pc = "cases" /\ f.node = top.node
        /\ f.label = top.label /\ f.l_end = top.l_end
    BY <1>2, <1>4, <1>5 DEF AnyFrame, StatementFrame, FrameOf, StatementPc
  <1> HIDE DEF f
  <1>8. /\ Owed(f) = {top.l_end} /\ Owed(top) = {top.l_end} /\ ~OwesLabel(f)
        /\ ~Loops(f) /\ ~Breakable(top) /\ Breakable(f)
    BY <1>2, <1>7 DEF Owed, OwesLabel, OwesEnd, Loops, Breakable
  <1>9. StackStep /\ Len(stack') >= depth /\ stack'[depth] = f /\ Kept = Owed(f) /\ ret' \in QuadValue
    BY <1>2, <1>3, <1>7, StayStep
  <1>10. LabelsStep
    BY <1>2, <1>5, <1>6, <1>8, <1>9, TopOwes DEF LabelsStep, Quiet, Pushes
  <1>11. JumpsStep
    BY <1>2, <1>5, <1>6, <1>8, <1>9, TopOwes DEF JumpsStep, Quiet, Pushes
  <1>12. NoDanglingBreakLabel'
    BY <1>5, <1>6, <1>8, <1>9, BreakLabelsAfterPush DEF LabelInv, Quiet
  <1> QED BY <1>3, <1>9, <1>10, <1>11, <1>12, Conclude

LEMMA SwitchCaseStep ==
  ASSUME TypeOK, LabelInv, SwitchCase
  PROVE  TypeOK' /\ LabelInv'
  <1> DEFINE n == ctx.label_counter
             case == Head(top.rest)
             l_next == quad_new_label(ctx)
             cmp == EmitTemp(l_next, INT, "IEQL", top.val.place, Txt(case.int_literal))
             f == [top EXCEPT !.pc = "case", !.label = l_next.label_counter, !.rest = Tail(@)]
             g == List(case.statements)
  <1>1. AtNode("statement", {"SWITCH"}, "cases") /\ top.rest # <<>> /\ ~ctx.error
    BY DEF SwitchCase, Resume
  <1>2. /\ stack # <<>> /\ top \in StatementFrame /\ top.node \in Statement /\ top.node.kind = "SWITCH"
        /\ top.fn = "statement" /\ top.pc = "cases" /\ ctx \in QuadContext
    BY <1>1, TopStatement
  <1>3. ctx' = quad_emitf(cmp.ctx, JMPZ(l_next.label_counter, cmp.val.place)) /\ Call(f, g)
        /\ UNCHANGED <<program, rc>>
    BY DEF SwitchCase, Constant
  <1>4. top.rest \in Seq(Case) /\ top.val.place \in Place /\ top.l_end \in Nat
        /\ Tail(top.rest) \in Seq(Case)
    <2>1. top.rest \in Seq(Case) /\ top.val.place \in Place /\ top.l_end \in Nat
      BY <1>2 DEF StatementFrame, FrameOf, QuadValue
    <2> QED BY <1>1, <2>1, HeadTailProperties
  <1>5. case.int_literal \in NumInt /\ case.statements \in Seq(Statement)
    <2>1. case \in Case
      BY <1>1, <1>4, HeadTailProperties
    <2> QED BY <2>1 DEF Case, CaseOver
  <1>6. Txt(case.int_literal) \in Place
    BY <1>5 DEF Txt, Place, Text, Literal
  <1>7. g \in AnyFrame /\ g.pc = "enter"
    BY <1>5, NewFrames DEF AnyFrame, List, Frame
  <1>8. TakesLabel(ctx, l_next)
    BY <1>2, NewLabel
  <1> HIDE DEF l_next, case
  <1>9. n \in Nat /\ l_next \in QuadContext /\ l_next.label_counter = n + 1
    BY <1>2, <1>8, ContextFields DEF TakesLabel
  <1>10. Computed(l_next, cmp)
    <2>1. "IEQL" \in PlainOp /\ INT \in AstType
      BY DEF PlainOp, Op, AstType
    <2> QED BY <1>4, <1>6, <1>9, <2>1, EmitTempComputes
  <1> HIDE DEF cmp
  <1>11. JumpsTo(l_next, ctx', n + 1)
    <2>1. cmp.ctx \in QuadContext /\ cmp.val.place \in Place /\ n + 1 \in Nat
      BY <1>9, <1>10 DEF Computed, Quiet, QuadValue
    <2>2. JumpsTo(cmp.ctx, ctx', n + 1)
      BY <1>3, <1>9, <2>1, EmitJump
    <2> QED BY <1>10, <2>2, QuietThenJump DEF Computed
  <1>12. f \in StatementFrame /\ f.fn = "statement" /\ f.pc = "case" /\ f.node = top.node
         /\ f.label = n + 1 /\ f.l_end = top.l_end
    <2>1. l_next.label_counter \in Nat
      BY <1>9
    <2> QED BY <1>2, <1>4, <1>9, <2>1 DEF StatementFrame, FrameOf, StatementPc
  <1> HIDE DEF f, g
  <1>13. StackStep /\ Len(stack') >= depth /\ stack'[depth] = f /\ Kept = Owed(f) /\ ret' \in QuadValue
    BY <1>2, <1>3, <1>7, <1>12, CallStep DEF AnyFrame
  <1>14. /\ Owed(f) = {n + 1, top.l_end} /\ Owed(top) = {top.l_end}
         /\ ~Loops(f) /\ Breakable(f)
    BY <1>2, <1>12 DEF Owed, OwesLabel, OwesEnd, Loops, Breakable
  <1>15. /\ top.l_end \in 1 .. n /\ top.l_end \notin LabelsIn(ctx.out) /\ n + 1 \notin LabelsIn(ctx.out)
         /\ DistinctLabels(ctx.out) /\ n + 1 # top.l_end
    BY <1>2, <1>9, <1>14, TopOwes
  <1>16. ctx'.label_counter = n + 1 /\ n + 1 \in New /\ LabelsIn(ctx'.out) = LabelsIn(ctx.out)
         /\ n <= n + 1
    BY <1>8, <1>9, <1>11 DEF TakesLabel, JumpsTo, New
  <1>17. LabelsStep
    BY <1>8, <1>11, <1>12, <1>13, <1>14, <1>15, <1>16 DEF LabelsStep, TakesLabel, JumpsTo
  <1>18. JumpsStep
    BY <1>1, <1>8, <1>11, <1>13, <1>14 DEF JumpsStep, TakesLabel, JumpsTo
  <1>19. NoDanglingBreakLabel'
    BY <1>8, <1>11, <1>13, <1>14, BreakLabelsKept DEF LabelInv, TakesLabel, JumpsTo
  <1> QED BY <1>3, <1>13, <1>17, <1>18, <1>19, Conclude

LEMMA SwitchNextStep ==
  ASSUME TypeOK, LabelInv, SwitchNext
  PROVE  TypeOK' /\ LabelInv'
  <1> DEFINE f == [top EXCEPT !.pc = "cases"]
  <1>1. AtNode("statement", {"SWITCH"}, "case")
    BY DEF SwitchNext, Resume
  <1>2. /\ stack # <<>> /\ top \in StatementFrame /\ top.node.kind = "SWITCH"
        /\ top.fn = "statement" /\ top.pc = "case" /\ ctx \in QuadContext
    BY <1>1, TopStatement
  <1>3. ctx' = quad_emitf(ctx, LABEL(top.label)) /\ Stay(f) /\ UNCHANGED <<program, rc>>
    BY DEF SwitchNext, Constant
  <1>4. top.label \in Nat
    BY <1>2 DEF StatementFrame, FrameOf
  <1>5. DefinesLabel(ctx, ctx', top.label)
    BY <1>2, <1>3, <1>4, EmitLABEL
  <1>6. f \in AnyFrame /\ f.fn = "statement" /\ f.pc = "cases" /\ f.node = top.node
        /\ f.label = top.label /\ f.l_end = top.l_end
    BY <1>2 DEF AnyFrame, StatementFrame, FrameOf, StatementPc
  <1> HIDE DEF f
  <1>7. /\ Owed(f) = {top.l_end} /\ Owed(top) = {top.label, top.l_end}
        /\ ~OwesLabel(f) /\ OwesLabel(top) /\ OwesEnd(top) /\ ~Loops(f) /\ Breakable(f)
    BY <1>2, <1>6 DEF Owed, OwesLabel, OwesEnd, Loops, Breakable
  <1>8. StackStep /\ Len(stack') >= depth /\ stack'[depth] = f /\ Kept = Owed(f) /\ ret' \in QuadValue
    BY <1>2, <1>3, <1>6, StayStep
  <1>9. LabelsStep
    BY <1>2, <1>5, <1>7, <1>8, TopOwes DEF LabelsStep, DefinesLabel
  <1>10. JumpsStep
    BY <1>5, <1>7, <1>8 DEF JumpsStep, DefinesLabel
  <1>11. NoDanglingBreakLabel'
    BY <1>5, <1>7, <1>8, BreakLabelsKept DEF LabelInv, DefinesLabel
  <1> QED BY <1>3, <1>8, <1>9, <1>10, <1>11, Conclude

LEMMA SwitchDefaultStep ==
  ASSUME TypeOK, LabelInv, SwitchDefault
  PROVE  TypeOK' /\ LabelInv'
  <1> DEFINE f == [top EXCEPT !.pc = "default"]
             g == List(top.node.default_statements)
  <1>1. AtNode("statement", {"SWITCH"}, "cases")
    BY DEF SwitchDefault, Resume
  <1>2. /\ stack # <<>> /\ top \in StatementFrame /\ top.node \in Statement /\ top.node.kind = "SWITCH"
        /\ top.fn = "statement" /\ top.pc = "cases" /\ ctx \in QuadContext
    BY <1>1, TopStatement
  <1>3. Call(f, g) /\ ctx' = ctx /\ UNCHANGED <<program, rc>>
    BY DEF SwitchDefault, Silent
  <1>4. g \in AnyFrame /\ g.pc = "enter"
    BY <1>2, StatementNode, NewFrames DEF AnyFrame, List, Frame
  <1>5. f \in AnyFrame /\ f.fn = "statement" /\ f.pc = "default" /\ f.node = top.node
        /\ f.label = top.label /\ f.l_end = top.l_end
    BY <1>2 DEF AnyFrame, StatementFrame, FrameOf, StatementPc
  <1> HIDE DEF f, g
  <1>6. Like(f, top)
    BY <1>2, <1>5 DEF Like, OwesLabel, OwesEnd, Loops, Breakable
  <1>7. Quiet(ctx, ctx')
    BY <1>2, <1>3, QuietReflexive
  <1> QED BY <1>2, <1>3, <1>4, <1>5, <1>6, <1>7, QuietCall

LEMMA SwitchEndStep ==
  ASSUME TypeOK, LabelInv, SwitchEnd
  PROVE  TypeOK' /\ LabelInv'
  <1> DEFINE c == quad_emitf(ctx, LABEL(top.l_end))
  <1>1. AtNode("statement", {"SWITCH"}, "default")
    BY DEF SwitchEnd, Resume
  <1>2. /\ stack # <<>> /\ top \in StatementFrame /\ top.node.kind = "SWITCH"
        /\ top.fn = "statement" /\ top.pc = "default" /\ ctx \in QuadContext
    BY <1>1, TopStatement
  <1>3. ctx' = quad_pop_break(c) /\ Return(NoValue) /\ UNCHANGED <<program, rc>>
    BY DEF SwitchEnd, Constant
  <1>4. Owed(top) = {top.l_end} /\ top.l_end \in Nat
    BY <1>2 DEF Owed, OwesLabel, OwesEnd, StatementFrame, FrameOf
  <1>5. DefinesLabel(ctx, c, top.l_end)
    BY <1>2, <1>4, EmitLABEL
  <1> HIDE DEF c
  <1>6. c \in QuadContext /\ c.break_labels = ctx.break_labels
    BY <1>5 DEF DefinesLabel
  <1>7. Pops(c, ctx')
    BY <1>3, <1>6, PopBreak
  <1>8. StackStep /\ Len(stack') = depth - 1 /\ ~(Len(stack') >= depth) /\ Kept = {} /\ ret' \in QuadValue
    BY <1>2, <1>3, ReturnStep
  <1>9. LabelsStep
    BY <1>2, <1>4, <1>5, <1>7, <1>8, TopOwes DEF LabelsStep, DefinesLabel, Pops
  <1>10. JumpsStep
    BY <1>4, <1>5, <1>7, <1>8 DEF JumpsStep, DefinesLabel, Pops
  <1>11. NoDanglingBreakLabel'
    BY <1>3, <1>6, <1>8, BreakLabelPopped DEF LabelInv
  <1> QED BY <1>3, <1>8, <1>9, <1>10, <1>11, Conclude

\* The label that a break jumps to is owed by an activation further down
LEMMA BreakStep ==
  ASSUME TypeOK, LabelInv, Break
  PROVE  TypeOK' /\ LabelInv'
  <1> DEFINE b == ctx.break_labels
             k == b[Len(b)]
  <1>1. AtNode("statement", {"BREAK"}, "enter")
    BY DEF Break, Enter
  <1>2. /\ stack # <<>> /\ top \in StatementFrame /\ top.node.kind = "BREAK"
        /\ top.fn = "statement" /\ top.pc = "enter" /\ ctx \in QuadContext /\ depth \in Nat \ {0}
    BY <1>1, TopStatement
  <1>3. Return(NoValue) /\ UNCHANGED <<program, rc>>
    BY DEF Break, Constant
  <1>4. Owed(top) = {} /\ ~Breakable(top)
    BY <1>2, Entering
  <1>5. CASE b = <<>>
    <2>1. ctx' = [ctx EXCEPT !.error = TRUE]
      BY <1>5 DEF Break
    <2>2. Quiet(ctx, ctx')
      BY <1>2, <2>1 DEF Quiet, QuadContext
    <2> QED BY <1>2, <1>3, <1>4, <2>2, NewFrames, QuietReturn
  <1>6. CASE b # <<>>
    <2>1. Len(b) \in DOMAIN b
      BY <1>2, <1>6, ContextFields
    <2>2. k \in 1 .. depth /\ Breakable(stack[k])
      BY <2>1 DEF LabelInv, NoDanglingBreakLabel
    <2> HIDE DEF k
    <2>3. k \in 1 .. depth - 1
      <3>1. k # depth
        BY <1>4, <2>2 DEF top
      <3> QED BY <1>2, <2>2, <3>1
    <2>4. stack[k] \in AnyFrame /\ stack[k].fn = "statement"
      BY <2>2 DEF TypeOK, depth, Breakable
    <2>5. stack[k].l_end \in Nat
      BY <2>4 DEF AnyFrame, StatementFrame, ListFrame, ExprFrame, FrameOf
    <2>6. stack[k].l_end \in Owed(stack[k])
      BY <2>2 DEF Owed, OwesEnd, Breakable
    <2>7. JumpsTo(ctx, ctx', stack[k].l_end)
      <3>1. ctx' = quad_emitf(ctx, JUMP(stack[k].l_end))
        BY <1>6 DEF Break, k
      <3> QED BY <1>2, <2>5, <3>1, EmitJump
    <2>8. StackStep /\ Len(stack') = depth - 1 /\ ~(Len(stack') >= depth) /\ Kept = {} /\ ret' \in QuadValue
      BY <1>2, <1>3, ReturnStep
    <2>9. LabelsStep
      BY <1>2, <1>4, <2>7, <2>8, TopOwes DEF LabelsStep, JumpsTo
    <2>10. JumpsStep
      BY <1>4, <2>3, <2>6, <2>7, <2>8 DEF JumpsStep, JumpsTo
    <2>11. NoDanglingBreakLabel'
      BY <1>4, <2>7, <2>8, BreakLabelsKept DEF LabelInv, JumpsTo
    <2> QED BY <1>3, <2>8, <2>9, <2>10, <2>11, Conclude
  <1> QED BY <1>5, <1>6

LEMMA FinishStep ==
  ASSUME TypeOK, LabelInv, Finish
  PROVE  TypeOK' /\ LabelInv'
  <1> DEFINE halt == quad_emitf(ctx, Quad("HALT", <<>>))
             signed == quad_emitf(halt, Quad("SIGNATURE", <<>>))
  <1>1. ctx \in QuadContext /\ "HALT" \in PlainOp /\ "SIGNATURE" \in PlainOp /\ <<>> \in Seq(Place)
    BY DEF TypeOK, PlainOp, Op
  <1>2. Quiet(ctx, halt)
    BY <1>1, EmitQuad
  <1> HIDE DEF halt
  <1>3. Quiet(halt, signed)
    BY <1>1, <1>2, EmitQuad DEF Quiet
  <1>4. Quiet(ctx, signed) /\ Quiet(ctx, ctx)
    BY <1>1, <1>2, <1>3, QuietTransitive, QuietReflexive
  <1>5. ctx' = (IF ctx.error THEN ctx ELSE signed) /\ stack = <<>>
        /\ rc' = (IF ctx'.error THEN 1 ELSE 0) /\ UNCHANGED <<program, stack, ret>>
    BY DEF Finish, halt
  <1> HIDE DEF signed
  <1>6. Quiet(ctx, ctx')
    BY <1>4, <1>5
  <1>7. depth = 0 /\ stack' = stack
    BY <1>5 DEF depth
  <1>8. LabelsUnique' /\ OwedOnce'
    BY <1>6, <1>7 DEF LabelInv, LabelsUnique, OwedOnce, Quiet, depth
  <1>9. JumpsOwed'
    BY <1>6, <1>7 DEF LabelInv, JumpsOwed, Quiet, depth
  <1>10. NoDanglingBreakLabel'
    BY <1>6, <1>7 DEF LabelInv, NoDanglingBreakLabel, Quiet, depth
  <1>11. (rc # RUNNING => stack = <<>>)' /\ (rc = 0 => ~ctx.error)'
    BY <1>5
  <1>12. TypeOK'
    BY <1>5, <1>6 DEF TypeOK, Quiet
  <1> QED BY <1>8, <1>9, <1>10, <1>11, <1>12 DEF LabelInv

(***************************************************************************)
(* The theorems                                                            *)
(***************************************************************************)

LEMMA Initially == Init => TypeOK /\ LabelInv
  <1> SUFFICES ASSUME Init PROVE TypeOK /\ LabelInv
    OBVIOUS
  <1>1. program \in ProgramType /\ program.body \in Statement /\ program.symbols \in SymbolTable
    BY ProgramAssumption DEF Init, ProgramType
  <1>2. stack = <<Stmt(program.body)>> /\ ret = NoValue /\ rc = RUNNING
    BY DEF Init
  <1>3. PICK capacity \in Capacity :
          ctx = [out |-> <<>>, capacity |-> capacity, symbols |-> program.symbols,
                 temp_counter |-> 0, label_counter |-> 0, break_labels |-> <<>>,
                 error |-> FALSE]
    BY DEF Init
  <1> DEFINE f == Stmt(program.body)
  <1>4. f \in AnyFrame /\ f.pc = "enter"
    BY <1>1, NewFrames DEF AnyFrame, Stmt, Frame
  <1> HIDE DEF f
  <1>5. stack \in Seq(AnyFrame) /\ depth = 1 /\ stack[1] = f
    BY <1>2, <1>4 DEF depth, f
  <1>6. ~OwesLabel(f) /\ ~OwesEnd(f) /\ Owed(f) = {} /\ ~Loops(f)
    BY <1>4, Entering
  <1>7. ctx \in QuadContext
    <2>1. capacity \in Nat
      BY CapacityAssumption
    <2>2. <<>> \in Seq(Line) /\ <<>> \in Seq(Nat)
      OBVIOUS
    <2> QED BY <1>1, <1>3, <2>1, <2>2 DEF QuadContext
  <1>8. ctx.out = <<>> /\ ctx.break_labels = <<>> /\ ~ctx.error /\ ctx.label_counter = 0
    BY <1>3
  <1>9. LabelsIn(ctx.out) = {} /\ JumpsIn(ctx.out) = {} /\ DistinctLabels(ctx.out)
    BY <1>8 DEF LabelsIn, JumpsIn, DistinctLabels
  <1>10. TypeOK
    BY <1>1, <1>2, <1>5, <1>7, NewFrames DEF TypeOK, RUNNING
  <1>11. OwedOnce /\ LabelsUnique
    BY <1>5, <1>6, <1>9 DEF OwedOnce, LabelsUnique
  <1>12. JumpsOwed
    BY <1>5, <1>6, <1>9 DEF JumpsOwed
  <1>13. NoDanglingBreakLabel
    BY <1>8 DEF NoDanglingBreakLabel
  <1>14. (rc # RUNNING => stack = <<>>) /\ (rc = 0 => ~ctx.error)
    BY <1>2 DEF RUNNING
  <1> QED BY <1>10, <1>11, <1>12, <1>13, <1>14 DEF LabelInv

LEMMA StatementStepKeeps ==
  ASSUME TypeOK, LabelInv, StatementStep
  PROVE  TypeOK' /\ LabelInv'
  BY StatementSkipStep, AssignExpressionStep, AssignStep, InputStep, OutputExpressionStep, OutputStep,
     IfConditionStep, IfThenStep, IfWithoutElseStep, IfElseStep, IfEndStep,
     WhileConditionStep, WhileBodyStep, WhileEndStep,
     SwitchExpressionStep, SwitchValueStep, SwitchCaseStep, SwitchNextStep,
     SwitchDefaultStep, SwitchEndStep, BreakStep, BlockStep, BlockEndStep
  DEF StatementStep

LEMMA ExprStepKeeps ==
  ASSUME TypeOK, LabelInv, ExprStep
  PROVE  TypeOK' /\ LabelInv'
  BY ExprIdStep, ExprLiteralStep, ExprOperandStep, ExprUnaryStep, ExprLeftStep, ExprRightStep,
     ExprBinaryStep
  DEF ExprStep

LEMMA Inductive ==
  ASSUME TypeOK, LabelInv, [Next]_vars
  PROVE  TypeOK' /\ LabelInv'
  <1>1. CASE StatementStep
    BY <1>1, StatementStepKeeps
  <1>2. CASE ListStep
    BY <1>2, ListNextStep, ListEndStep DEF ListStep
  <1>3. CASE ExprStep
    BY <1>3, ExprStepKeeps
  <1>4. CASE Finish
    BY <1>4, FinishStep
  <1>5. CASE UNCHANGED vars
    <2>1. program' = program /\ ctx' = ctx /\ stack' = stack /\ ret' = ret /\ rc' = rc
      BY <1>5 DEF vars
    <2>2. TypeOK'
      BY <2>1 DEF TypeOK
    <2>3. /\ LabelsUnique' <=> LabelsUnique
          /\ OwedOnce' <=> OwedOnce
          /\ JumpsOwed' <=> JumpsOwed
          /\ NoDanglingBreakLabel' <=> NoDanglingBreakLabel
      <3>1. LabelsUnique' <=> LabelsUnique
        BY <2>1 DEF LabelsUnique
      <3>2. OwedOnce' <=> OwedOnce
        BY <2>1 DEF OwedOnce, depth
      <3>3. JumpsOwed' <=> JumpsOwed
        BY <2>1 DEF JumpsOwed, depth
      <3>4. NoDanglingBreakLabel' <=> NoDanglingBreakLabel
        BY <2>1 DEF NoDanglingBreakLabel, depth
      <3> QED BY <3>1, <3>2, <3>3, <3>4
    <2>4. (rc # RUNNING => stack = <<>>)' /\ (rc = 0 => ~ctx.error)'
      BY <2>1 DEF LabelInv
    <2> QED BY <2>2, <2>3, <2>4 DEF LabelInv
  <1> QED BY <1>1, <1>2, <1>3, <1>4, <1>5 DEF Next, Step, Terminated

\* The inductive invariant of the first stage: its types, that labels are owed
\* by one activation each until they are defined, and that every jump is
\* resolved or owed.
THEOREM LabelInvariant == Spec => [](TypeOK /\ LabelInv)
  <1>1. Init => TypeOK /\ LabelInv
    BY Initially
  <1>2. (TypeOK /\ LabelInv) /\ [Next]_vars => (TypeOK /\ LabelInv)'
    BY Inductive
  <1> QED BY <1>1, <1>2, PTL DEF Spec

\* The variables of the walk keep their types, whatever the program and whenever
\* writing fails; in particular quad_emit_stmt and quad_emit_expr are only
\* called on the nodes they can handle.
THEOREM TypeCorrect == Spec => []TypeOK
  BY LabelInvariant, PTL

\* A first stage that returns 0 has defined the label of every jump it wrote:
\* for every program, of any size and nesting, quad_finalize finds them all.
THEOREM AllJumpsResolved == Spec => []JumpsResolved
  <1>1. TypeOK /\ LabelInv => JumpsResolved
    <2> SUFFICES ASSUME LabelInv, rc = 0 PROVE JumpsIn(ctx.out) \subseteq LabelsIn(ctx.out)
      BY DEF JumpsResolved
    <2>1. stack = <<>> /\ ~ctx.error
      BY DEF LabelInv, RUNNING
    <2>2. 1 .. depth = {}
      BY <2>1 DEF depth
    <2> QED BY <2>1, <2>2 DEF LabelInv, JumpsOwed
  <1> QED BY <1>1, LabelInvariant, PTL

\* No label is written twice, so that the first entry quad_find_label finds is
\* the only one.
THEOREM EveryLabelUnique == Spec => []LabelsUnique
  <1>1. TypeOK /\ LabelInv => LabelsUnique
    BY DEF LabelInv
  <1> QED BY <1>1, LabelInvariant, PTL

\* The pointers on the stack of break labels are into activations that have not
\* returned, at any nesting and also when the stack overflows.
THEOREM BreakLabelsAlive == Spec => []NoDanglingBreakLabel
  <1>1. TypeOK /\ LabelInv => NoDanglingBreakLabel
    BY DEF LabelInv
  <1> QED BY <1>1, LabelInvariant, PTL

(***************************************************************************)
(* What a step may do to break_labels                                      *)
(***************************************************************************)

\* The shape of the stack after a step, whatever the frames are
LEMMA CallShape ==
  ASSUME TypeOK, stack # <<>>, NEW f, NEW g, Call(f, g)
  PROVE  /\ depth \in Nat \ {0} /\ Len(stack') = depth + 1
         /\ stack'[depth] = f /\ stack'[depth + 1] = g
         /\ \A k \in 1 .. depth - 1 : stack'[k] = stack[k]
  <1> DEFINE S == AnyFrame \cup {f, g}
             s == [stack EXCEPT ![depth] = f]
  <1>1. stack \in Seq(S) /\ depth \in Nat \ {0} /\ f \in S /\ g \in S
    BY DEF TypeOK, depth
  <1> HIDE DEF S
  <1>2. s \in Seq(S) /\ Len(s) = depth /\ s[depth] = f
        /\ \A k \in 1 .. depth - 1 : s[k] = stack[k]
    BY <1>1 DEF depth
  <1>3. stack' = Append(s, g)
    BY DEF Call
  <1> HIDE DEF s
  <1> QED BY <1>1, <1>2, <1>3

LEMMA StayShape ==
  ASSUME TypeOK, stack # <<>>, NEW f, Stay(f)
  PROVE  /\ depth \in Nat \ {0} /\ Len(stack') = depth /\ stack'[depth] = f
         /\ \A k \in 1 .. depth - 1 : stack'[k] = stack[k]
  BY DEF TypeOK, Stay, depth

LEMMA ReturnShape ==
  ASSUME TypeOK, stack # <<>>, NEW v, Return(v)
  PROVE  /\ depth \in Nat \ {0} /\ Len(stack') = depth - 1
         /\ \A k \in 1 .. depth - 1 : stack'[k] = stack[k]
  BY ReturnStack, TopFrame

\* While nothing fails, the break labels stay
Keeps(c, d) == ~d.error => ~c.error /\ d.break_labels = c.break_labels

\* No activation becomes breakable
LEMMA NoneBecomesBreakable ==
  ASSUME TypeOK, stack # <<>>, BreakStackMirrorsNesting, Keeps(ctx, ctx'),
         Len(stack') \in {depth - 1, depth, depth + 1},
         \A k \in 1 .. depth - 1 : stack'[k] = stack[k],
         Len(stack') >= depth /\ Breakable(stack'[depth]) => Breakable(top),
         Len(stack') = depth + 1 => ~Breakable(stack'[depth + 1])
  PROVE  BreakStackMirrorsNesting'
  <1>1. depth \in Nat \ {0} /\ top = stack[depth]
    BY TopFrame DEF top
  <1> SUFFICES ASSUME ~ctx'.error, NEW i \in 1 .. Len(stack'), Breakable(stack'[i])
               PROVE  \E k \in DOMAIN ctx'.break_labels : ctx'.break_labels[k] = i
    BY DEF BreakStackMirrorsNesting, depth
  <1>2. i \in 1 .. depth /\ Breakable(stack[i])
    <2>1. CASE i \in 1 .. depth - 1
      BY <1>1, <2>1
    <2>2. CASE i = depth
      BY <1>1, <2>2
    <2>3. CASE i = depth + 1
      BY <1>1, <2>3
    <2> QED BY <1>1, <2>1, <2>2, <2>3
  <1> QED BY <1>2 DEF BreakStackMirrorsNesting, Keeps

LEMMA MirrorCall ==
  ASSUME TypeOK, stack # <<>>, BreakStackMirrorsNesting, Keeps(ctx, ctx'),
         NEW f, NEW g, Call(f, g), g.pc = "enter", Breakable(f) => Breakable(top)
  PROVE  BreakStackMirrorsNesting'
  BY CallShape, Entering, NoneBecomesBreakable

LEMMA MirrorStay ==
  ASSUME TypeOK, stack # <<>>, BreakStackMirrorsNesting, Keeps(ctx, ctx'),
         NEW f, Stay(f), Breakable(f) => Breakable(top)
  PROVE  BreakStackMirrorsNesting'
  BY StayShape, NoneBecomesBreakable

LEMMA MirrorReturn ==
  ASSUME TypeOK, stack # <<>>, BreakStackMirrorsNesting, Keeps(ctx, ctx'), NEW v, Return(v)
  PROVE  BreakStackMirrorsNesting'
  BY ReturnShape, NoneBecomesBreakable

\* An activation becomes breakable and pushes its label
LEMMA MirrorPush ==
  ASSUME TypeOK, stack # <<>>, BreakStackMirrorsNesting,
         Len(stack') \in {depth, depth + 1},
         \A k \in 1 .. depth - 1 : stack'[k] = stack[k],
         Len(stack') = depth + 1 => ~Breakable(stack'[depth + 1]),
         ~ctx'.error => ~ctx.error /\ ctx'.break_labels = Append(ctx.break_labels, depth)
  PROVE  BreakStackMirrorsNesting'
  <1>1. depth \in Nat \ {0} /\ ctx.break_labels \in Seq(Nat)
    BY TopFrame, ContextFields DEF TypeOK
  <1> SUFFICES ASSUME ~ctx'.error, NEW i \in 1 .. Len(stack'), Breakable(stack'[i])
               PROVE  \E k \in DOMAIN ctx'.break_labels : ctx'.break_labels[k] = i
    BY DEF BreakStackMirrorsNesting, depth
  <1> DEFINE b == ctx.break_labels
             d == ctx'.break_labels
  <1>2. ~ctx.error /\ d = Append(b, depth)
    OBVIOUS
  <1> HIDE DEF b, d
  <1>3. Len(b) + 1 \in DOMAIN d /\ d[Len(b) + 1] = depth
        /\ \A k \in DOMAIN b : k \in DOMAIN d /\ d[k] = b[k]
    BY <1>1, <1>2 DEF b
  <1>4. CASE i \in 1 .. depth - 1
    <2>1. i \in 1 .. depth /\ Breakable(stack[i])
      BY <1>1, <1>4
    <2> QED BY <1>2, <1>3, <2>1 DEF BreakStackMirrorsNesting, b, d
  <1>5. CASE i = depth
    BY <1>3, <1>5 DEF d
  <1> QED BY <1>1, <1>4, <1>5

\* The activation on top returns and pops: if it is breakable, the last label is its own
LEMMA MirrorPop ==
  ASSUME TypeOK, stack # <<>>, BreakStackMirrorsNesting, NoDanglingBreakLabel, Breakable(top),
         Len(stack') = depth - 1, \A k \in 1 .. depth - 1 : stack'[k] = stack[k],
         NEW c \in QuadContext, c.break_labels = ctx.break_labels,
         ~ctx'.error => ~ctx.error,
         ctx'.break_labels = quad_pop_break(c).break_labels
  PROVE  BreakStackMirrorsNesting'
  <1>1. depth \in Nat \ {0} /\ depth \in 1 .. depth /\ top = stack[depth]
        /\ ctx.break_labels \in Seq(Nat)
    BY TopFrame, ContextFields DEF TypeOK, top
  <1> SUFFICES ASSUME ~ctx'.error, NEW i \in 1 .. depth - 1, Breakable(stack[i])
               PROVE  \E k \in DOMAIN ctx'.break_labels : ctx'.break_labels[k] = i
    BY DEF BreakStackMirrorsNesting, depth
  <1> DEFINE b == ctx.break_labels
             d == ctx'.break_labels
  <1>2. PICK m \in DOMAIN b : b[m] = depth
    BY <1>1 DEF BreakStackMirrorsNesting
  <1>3. PICK k \in DOMAIN b : b[k] = i
    BY <1>1 DEF BreakStackMirrorsNesting
  <1>4. b # <<>>
    BY <1>2
  <1>5. d = SubSeq(b, 1, Len(b) - 1)
    BY <1>4 DEF quad_pop_break, QuadContext
  <1>6. Len(b) \in DOMAIN b /\ Len(b) \in Nat /\ DOMAIN b = 1 .. Len(b)
    BY <1>1, <1>4
  <1>7. k # Len(b)
    <2>1. CASE m = Len(b)
      BY <1>1, <1>2, <1>3, <2>1
    <2>2. CASE m # Len(b)
      <3>1. m < Len(b)
        BY <1>6, <2>2
      <3>2. b[m] < b[Len(b)] /\ b[Len(b)] \in 1 .. depth
        BY <1>6, <3>1 DEF NoDanglingBreakLabel
      <3> QED BY <1>1, <1>2, <3>2
    <2> QED BY <2>1, <2>2
  <1> HIDE DEF b, d
  <1>8. k \in 1 .. Len(b) - 1
    BY <1>6, <1>7
  <1>9. b \in Seq(Nat)
    BY <1>1 DEF b
  <1>10. d \in Seq(Nat) /\ Len(d) = Len(b) - 1 /\ d[k] = b[k]
    BY <1>4, <1>5, <1>8, <1>9, Pop
  <1>11. k \in DOMAIN d /\ d[k] = i
    BY <1>3, <1>6, <1>8, <1>10
  <1> QED BY <1>11 DEF d
(***************************************************************************)
(* The steps of expressions and lists, and those of statements that a      *)
(* break does not leave                                                    *)
(***************************************************************************)

LEMMA QuietKeeps == ASSUME NEW c, NEW d, Quiet(c, d) PROVE Keeps(c, d)
  BY DEF Quiet, Keeps

LEMMA SilentKeeps == ASSUME Silent PROVE Keeps(ctx, ctx')
  BY DEF Silent, Keeps

LEMMA NotBreakable ==
  ASSUME NEW f, f.fn = "statement" => f.node.kind \notin {"WHILE", "SWITCH"}
  PROVE  ~Breakable(f)
  BY DEF Breakable

LEMMA MirrorExprStep ==
  ASSUME TypeOK, BreakStackMirrorsNesting, ExprStep
  PROVE  BreakStackMirrorsNesting'
  <1> USE DEF Constant
  <1>1. CASE ExprId
    <2>1. AtNode("expr", {"ID"}, "enter")
      BY <1>1 DEF ExprId
    <2>2. stack # <<>> /\ ctx \in QuadContext
      BY <2>1, TopExpr
    <2>3. Keeps(ctx, ctx')
      BY <1>1, <2>2, SymbolType, QuietKeeps DEF ExprId
    <2> QED BY <1>1, <2>2, <2>3, MirrorReturn DEF ExprId
  <1>2. CASE ExprLiteral
    <2>1. AtNode("expr", {"INT_LITERAL", "FLOAT_LITERAL"}, "enter")
      BY <1>2 DEF ExprLiteral
    <2>2. stack # <<>>
      BY <2>1, TopExpr
    <2> QED BY <1>2, <2>2, SilentKeeps, MirrorReturn DEF ExprLiteral
  <1>3. CASE ExprOperand
    <2> DEFINE f == [top EXCEPT !.pc = "operand"]
    <2>1. AtNode("expr", Unary, "enter")
      BY <1>3 DEF ExprOperand
    <2>2. stack # <<>> /\ top \in ExprFrame /\ top.fn = "expr"
      BY <2>1, TopExpr
    <2>3. Call(f, Expr(top.node.operand)) /\ Keeps(ctx, ctx')
      BY <1>3, SilentKeeps DEF ExprOperand
    <2>4. f.fn = "expr"
      BY <2>2 DEF ExprFrame, FrameOf
    <2>5. Expr(top.node.operand).pc = "enter"
      BY DEF Expr, Frame
    <2> HIDE DEF f
    <2> QED BY <2>2, <2>3, <2>4, <2>5, NotBreakable, MirrorCall
  <1>4. CASE ExprUnary
    <2> DEFINE b == quad_to_bool_int(ctx, ret)
               r == CASE top.node.kind = "CAST_INT"   -> quad_to_int(ctx, ret)
                      [] top.node.kind = "CAST_FLOAT" -> quad_to_float(ctx, ret)
                      [] top.node.kind = "NOT"        -> quad_invert_bool(b.ctx, b.val)
    <2>1. AtNode("expr", Unary, "operand")
      BY <1>4 DEF ExprUnary
    <2>2. stack # <<>> /\ ctx \in QuadContext /\ ret \in QuadValue /\ top.node.kind \in Unary
      BY <2>1, TopExpr
    <2>3. ctx' = r.ctx /\ Return(r.val)
      BY <1>4 DEF ExprUnary
    <2>4. Computed(ctx, b)
      BY <2>2, ConversionComputes
    <2> HIDE DEF b
    <2>5. Computed(ctx, quad_invert_bool(b.ctx, b.val))
      BY <2>4, ConversionComputes, QuietTransitive DEF Computed, Quiet
    <2>6. Computed(ctx, r)
      BY <2>2, <2>5, ConversionComputes DEF Unary
    <2> HIDE DEF r
    <2> QED BY <2>2, <2>3, <2>6, QuietKeeps, MirrorReturn DEF Computed
  <1>5. CASE ExprLeft
    <2> DEFINE f == [top EXCEPT !.pc = "left"]
    <2>1. AtNode("expr", {"BINARY"}, "enter")
      BY <1>5 DEF ExprLeft
    <2>2. stack # <<>> /\ top \in ExprFrame /\ top.fn = "expr"
      BY <2>1, TopExpr
    <2>3. Call(f, Expr(top.node.left)) /\ Keeps(ctx, ctx')
      BY <1>5, SilentKeeps DEF ExprLeft
    <2>4. f.fn = "expr"
      BY <2>2 DEF ExprFrame, FrameOf
    <2>5. Expr(top.node.left).pc = "enter"
      BY DEF Expr, Frame
    <2> HIDE DEF f
    <2> QED BY <2>2, <2>3, <2>4, <2>5, NotBreakable, MirrorCall
  <1>6. CASE ExprRight
    <2> DEFINE f == [top EXCEPT !.pc = "right", !.val = ret]
    <2>1. AtNode("expr", {"BINARY"}, "left")
      BY <1>6 DEF ExprRight
    <2>2. stack # <<>> /\ top \in ExprFrame /\ top.fn = "expr"
      BY <2>1, TopExpr
    <2>3. Call(f, Expr(top.node.right)) /\ Keeps(ctx, ctx')
      BY <1>6, SilentKeeps DEF ExprRight
    <2>4. f.fn = "expr"
      BY <2>2 DEF ExprFrame, FrameOf
    <2>5. Expr(top.node.right).pc = "enter"
      BY DEF Expr, Frame
    <2> HIDE DEF f
    <2> QED BY <2>2, <2>3, <2>4, <2>5, NotBreakable, MirrorCall
  <1>7. CASE ExprBinary
    <2> DEFINE r == quad_emit_binary(ctx, top.node.op, top.val, ret)
    <2>1. AtNode("expr", {"BINARY"}, "right")
      BY <1>7 DEF ExprBinary
    <2>2. stack # <<>> /\ top \in ExprFrame /\ top.node \in Expression \cup Condition
          /\ top.node.kind = "BINARY" /\ ctx \in QuadContext /\ ret \in QuadValue
      BY <2>1, TopExpr
    <2>3. ctx' = r.ctx /\ Return(r.val)
      BY <1>7 DEF ExprBinary
    <2>4. top.node.op \in ArithOp \cup RelOp \cup BoolOp /\ top.val \in QuadValue
      BY <2>2, ExpressionNode DEF ExprFrame, FrameOf
    <2>5. Computed(ctx, r)
      BY <2>2, <2>4, BinaryComputes
    <2> HIDE DEF r
    <2> QED BY <2>2, <2>3, <2>5, QuietKeeps, MirrorReturn DEF Computed
  <1> QED BY <1>1, <1>2, <1>3, <1>4, <1>5, <1>6, <1>7 DEF ExprStep

LEMMA MirrorListStep ==
  ASSUME TypeOK, BreakStackMirrorsNesting, ListStep
  PROVE  BreakStackMirrorsNesting'
  <1>1. CASE ListNext
    <2> DEFINE f == [top EXCEPT !.rest = Tail(@)]
    <2>1. stack # <<>> /\ top \in ListFrame /\ top.fn = "list"
      BY <1>1, TopList DEF ListNext
    <2>2. Call(f, Stmt(Head(top.rest))) /\ Keeps(ctx, ctx')
      BY <1>1, SilentKeeps DEF ListNext
    <2>3. f.fn = "list"
      BY <2>1 DEF ListFrame, FrameOf
    <2>4. Stmt(Head(top.rest)).pc = "enter"
      BY DEF Stmt, Frame
    <2> HIDE DEF f
    <2> QED BY <2>1, <2>2, <2>3, <2>4, NotBreakable, MirrorCall
  <1>2. CASE ListEnd
    BY <1>2, TopList, SilentKeeps, MirrorReturn DEF ListEnd
  <1> QED BY <1>1, <1>2 DEF ListStep

LEMMA LabelKeeps ==
  ASSUME NEW c, NEW d, NEW l, TakesLabel(c, d) \/ DefinesLabel(c, d, l) \/ JumpsTo(c, d, l)
  PROVE  Keeps(c, d)
  BY DEF TakesLabel, DefinesLabel, JumpsTo, Keeps

LEMMA KeepsTransitive ==
  ASSUME NEW c, NEW d, NEW e, Keeps(c, d), Keeps(d, e) PROVE Keeps(c, e)
  BY DEF Keeps

LEMMA EmitKeeps ==
  ASSUME NEW c \in QuadContext, NEW line PROVE Keeps(c, quad_emitf(c, line))
  BY DEF Keeps, quad_emitf, QuadContext

LEMMA MirrorSimpleStep ==
  ASSUME TypeOK, BreakStackMirrorsNesting,
         StatementSkip \/ AssignExpression \/ Assign \/ Input \/ OutputExpression \/ Output
           \/ Break \/ Block \/ BlockEnd
  PROVE  BreakStackMirrorsNesting'
  <1> USE DEF Constant
  <1>0. ctx \in QuadContext /\ ret \in QuadValue
    BY DEF TypeOK
  <1>1. CASE StatementSkip
    BY <1>1, SilentKeeps, MirrorReturn DEF StatementSkip, At
  <1>2. CASE AssignExpression
    <2> DEFINE id == top.node.identifier
               dst == quad_symbol_type(ctx, id)
               f == [top EXCEPT !.pc = "assign", !.val = Value(dst.type, Txt(id))]
               g == Expr(top.node.expression)
    <2>1. AtNode("statement", {"ASSIGN"}, "enter")
      BY <1>2 DEF AssignExpression, Enter
    <2>2. stack # <<>> /\ top \in StatementFrame /\ top.node.kind = "ASSIGN"
      BY <2>1, TopStatement
    <2>3. ctx' = dst.ctx /\ Call(f, g)
      BY <1>2 DEF AssignExpression
    <2>4. Keeps(ctx, ctx')
      BY <1>0, <2>3, SymbolType, QuietKeeps
    <2>5. g.pc = "enter" /\ f.node = top.node
      BY <2>2 DEF Expr, Frame, StatementFrame, FrameOf
    <2> HIDE DEF f, g
    <2> QED BY <2>2, <2>3, <2>4, <2>5, NotBreakable, MirrorCall
  <1>3. CASE Assign
    <2> DEFINE src == IF top.val.type = FLOAT /\ ret.type = INT THEN quad_to_float(ctx, ret)
                      ELSE Result(ctx, ret)
    <2>1. stack # <<>> /\ Return(NoValue)
      BY <1>3 DEF Assign, Resume, AtNode, At
    <2>2. Computed(ctx, src)
      BY <1>0, QuietReflexive, ConversionComputes DEF Computed, Result
    <2>3. src.ctx \in QuadContext /\ Keeps(ctx, src.ctx)
      BY <2>2, QuietKeeps DEF Computed, Quiet
    <2>4. \/ ctx' = ctx
          \/ \E line : ctx' = quad_emitf(src.ctx, line)
      BY <1>3 DEF Assign
    <2> HIDE DEF src
    <2>5. ~ctx'.error => Keeps(ctx, ctx')
      BY <2>3, <2>4, EmitKeeps, KeepsTransitive DEF Keeps
    <2>6. Keeps(ctx, ctx')
      BY <2>5 DEF Keeps
    <2> QED BY <2>1, <2>6, MirrorReturn
  <1>4. CASE Input
    <2> DEFINE t == quad_symbol_type(ctx, top.node.identifier)
    <2>1. stack # <<>> /\ Return(NoValue) /\ \E line : ctx' = quad_emitf(t.ctx, line)
      BY <1>4 DEF Input, Enter, AtNode, At
    <2>2. Quiet(ctx, t.ctx)
      BY <1>0, SymbolType
    <2> HIDE DEF t
    <2>3. Keeps(ctx, ctx')
      BY <2>1, <2>2, QuietKeeps, EmitKeeps, KeepsTransitive DEF Quiet
    <2> QED BY <2>1, <2>3, MirrorReturn
  <1>5. CASE OutputExpression
    <2> DEFINE f == [top EXCEPT !.pc = "output"]
               g == Expr(top.node.expression)
    <2>1. AtNode("statement", {"OUTPUT"}, "enter")
      BY <1>5 DEF OutputExpression, Enter
    <2>2. stack # <<>> /\ top \in StatementFrame /\ top.node.kind = "OUTPUT"
      BY <2>1, TopStatement
    <2>3. Call(f, g) /\ Keeps(ctx, ctx')
      BY <1>5, SilentKeeps DEF OutputExpression
    <2>4. g.pc = "enter" /\ f.node = top.node
      BY <2>2 DEF Expr, Frame, StatementFrame, FrameOf
    <2> HIDE DEF f, g
    <2> QED BY <2>2, <2>3, <2>4, NotBreakable, MirrorCall
  <1>6. CASE Output
    <2>1. stack # <<>> /\ Return(NoValue) /\ \E line : ctx' = quad_emitf(ctx, line)
      BY <1>6 DEF Output, Resume, AtNode, At
    <2> QED BY <1>0, <2>1, EmitKeeps, MirrorReturn
  <1>7. CASE Break
    <2>1. /\ stack # <<>> /\ Return(NoValue)
          /\ \/ ctx' = [ctx EXCEPT !.error = TRUE]
             \/ \E line : ctx' = quad_emitf(ctx, line)
      BY <1>7 DEF Break, Enter, AtNode, At
    <2>2. Keeps(ctx, [ctx EXCEPT !.error = TRUE])
      BY <1>0 DEF Keeps, QuadContext
    <2> QED BY <1>0, <2>1, <2>2, EmitKeeps, MirrorReturn
  <1>8. CASE Block
    <2> DEFINE f == [top EXCEPT !.pc = "block"]
               g == List(top.node.statements)
    <2>1. AtNode("statement", {"BLOCK"}, "enter")
      BY <1>8 DEF Block, Enter
    <2>2. stack # <<>> /\ top \in StatementFrame /\ top.node.kind = "BLOCK"
      BY <2>1, TopStatement
    <2>3. Call(f, g) /\ Keeps(ctx, ctx')
      BY <1>8, SilentKeeps DEF Block
    <2>4. g.pc = "enter" /\ f.node = top.node
      BY <2>2 DEF List, Frame, StatementFrame, FrameOf
    <2> HIDE DEF f, g
    <2> QED BY <2>2, <2>3, <2>4, NotBreakable, MirrorCall
  <1>9. CASE BlockEnd
    BY <1>9, SilentKeeps, MirrorReturn DEF BlockEnd, Resume, AtNode, At
  <1> QED BY <1>1, <1>2, <1>3, <1>4, <1>5, <1>6, <1>7, <1>8, <1>9

LEMMA MirrorIfStep ==
  ASSUME TypeOK, BreakStackMirrorsNesting,
         IfCondition \/ IfThen \/ IfWithoutElse \/ IfElse \/ IfEnd
  PROVE  BreakStackMirrorsNesting'
  <1> USE DEF Constant
  <1>0. ctx \in QuadContext /\ ret \in QuadValue
    BY DEF TypeOK
  <1>1. ASSUME NEW pc, NEW f, NEW s, AtNode("statement", {"IF"}, pc), f.node = top.node,
               Call(f, Stmt(s)) \/ Call(f, Expr(s)), Keeps(ctx, ctx')
        PROVE  BreakStackMirrorsNesting'
    <2>1. stack # <<>> /\ ~Breakable(f)
      BY <1>1, NotBreakable DEF AtNode, At
    <2>2. Stmt(s).pc = "enter" /\ Expr(s).pc = "enter"
      BY DEF Stmt, Expr, Frame
    <2> QED BY <1>1, <2>1, <2>2, MirrorCall
  <1>2. ASSUME NEW pc, AtNode("statement", {"IF"}, pc)
        PROVE  stack # <<>> /\ top \in StatementFrame
    BY <1>2, TopStatement
  <1>3. CASE IfCondition
    <2> DEFINE l_else == quad_new_label(ctx)
               l_end == quad_new_label(l_else)
               f == [top EXCEPT !.pc = "condition", !.label = l_else.label_counter,
                                !.l_end = l_end.label_counter]
    <2>1. AtNode("statement", {"IF"}, "enter") /\ ctx' = l_end /\ Call(f, Expr(top.node.condition))
      BY <1>3 DEF IfCondition, Enter
    <2>2. f.node = top.node
      BY <1>2, <2>1 DEF StatementFrame, FrameOf
    <2> HIDE DEF f
    <2>3. TakesLabel(ctx, l_else)
      BY <1>0, NewLabel
    <2> HIDE DEF l_else
    <2>4. TakesLabel(l_else, l_end)
      BY <2>3, NewLabel DEF TakesLabel
    <2>5. Keeps(ctx, ctx')
      BY <2>1, <2>3, <2>4, LabelKeeps, KeepsTransitive
    <2> QED BY <1>1, <2>1, <2>2, <2>5
  <1>4. CASE IfThen
    <2> DEFINE c == quad_to_bool_int(ctx, ret)
               f == [top EXCEPT !.pc = "then"]
    <2>1. /\ AtNode("statement", {"IF"}, "condition") /\ Call(f, Stmt(top.node.then_stmt))
          /\ \E line : ctx' = quad_emitf(c.ctx, line)
      BY <1>4 DEF IfThen, Resume
    <2>2. f.node = top.node
      BY <1>2, <2>1 DEF StatementFrame, FrameOf
    <2>3. Computed(ctx, c)
      BY <1>0, ConversionComputes
    <2> HIDE DEF f, c
    <2>4. Keeps(ctx, ctx')
      BY <2>1, <2>3, QuietKeeps, EmitKeeps, KeepsTransitive DEF Computed, Quiet
    <2> QED BY <1>1, <2>1, <2>2, <2>4
  <1>5. CASE IfWithoutElse
    <2>1. stack # <<>> /\ Return(NoValue) /\ \E line : ctx' = quad_emitf(ctx, line)
      BY <1>5 DEF IfWithoutElse, Resume, AtNode, At
    <2> QED BY <1>0, <2>1, EmitKeeps, MirrorReturn
  <1>6. CASE IfElse
    <2> DEFINE c == quad_emitf(ctx, JUMP(top.l_end))
               f == [top EXCEPT !.pc = "else"]
    <2>1. /\ AtNode("statement", {"IF"}, "then") /\ Call(f, Stmt(top.node.else_stmt))
          /\ \E line : ctx' = quad_emitf(c, line)
      BY <1>6 DEF IfElse, Resume
    <2>2. f.node = top.node /\ top.l_end \in Nat
      BY <1>2, <2>1 DEF StatementFrame, FrameOf
    <2>3. JumpsTo(ctx, c, top.l_end)
      BY <1>0, <2>2, EmitJump
    <2> HIDE DEF f, c
    <2>4. Keeps(ctx, ctx')
      BY <2>1, <2>3, LabelKeeps, EmitKeeps, KeepsTransitive DEF JumpsTo
    <2> QED BY <1>1, <2>1, <2>2, <2>4
  <1>7. CASE IfEnd
    <2>1. stack # <<>> /\ Return(NoValue) /\ \E line : ctx' = quad_emitf(ctx, line)
      BY <1>7 DEF IfEnd, Resume, AtNode, At
    <2> QED BY <1>0, <2>1, EmitKeeps, MirrorReturn
  <1> QED BY <1>3, <1>4, <1>5, <1>6, <1>7

(***************************************************************************)
(* The steps of WHILE and SWITCH                                           *)
(***************************************************************************)

\* A label that is pushed without an overflow is the last one
LEMMA PushAppends ==
  ASSUME NEW c \in QuadContext, NEW k, ~quad_push_break(c, k).error
  PROVE  ~c.error /\ quad_push_break(c, k).break_labels = Append(c.break_labels, k)
  BY DEF quad_push_break, QuadContext

LEMMA MirrorWhileStep ==
  ASSUME TypeOK, BreakStackMirrorsNesting, NoDanglingBreakLabel,
         WhileCondition \/ WhileBody \/ WhileEnd
  PROVE  BreakStackMirrorsNesting'
  <1> USE DEF Constant
  <1>0. ctx \in QuadContext /\ ret \in QuadValue
    BY DEF TypeOK
  <1>1. CASE WhileCondition
    <2> DEFINE l_start == quad_new_label(ctx)
               l_end == quad_new_label(l_start)
               f == [top EXCEPT !.pc = "condition", !.label = l_start.label_counter,
                                !.l_end = l_end.label_counter]
               g == Expr(top.node.condition)
    <2>1. /\ AtNode("statement", {"WHILE"}, "enter") /\ Call(f, g)
          /\ \E line : ctx' = quad_emitf(l_end, line)
      BY <1>1 DEF WhileCondition, Enter
    <2>2. stack # <<>> /\ top \in StatementFrame /\ top.node.kind = "WHILE"
      BY <2>1, TopStatement
    <2>3. f.node = top.node /\ f.pc = "condition" /\ g.pc = "enter"
      BY <2>2 DEF StatementFrame, FrameOf, Expr, Frame
    <2> HIDE DEF f, g
    <2>4. TakesLabel(ctx, l_start)
      BY <1>0, NewLabel
    <2> HIDE DEF l_start
    <2>5. TakesLabel(l_start, l_end)
      BY <2>4, NewLabel DEF TakesLabel
    <2> HIDE DEF l_end
    <2>6. Keeps(ctx, l_end) /\ l_end \in QuadContext
      BY <2>4, <2>5, LabelKeeps, KeepsTransitive DEF TakesLabel
    <2>7. Keeps(ctx, ctx')
      BY <2>1, <2>6, EmitKeeps, KeepsTransitive
    <2>8. ~Breakable(f)
      BY <2>2, <2>3 DEF Breakable
    <2> QED BY <2>1, <2>2, <2>3, <2>7, <2>8, MirrorCall
  <1>2. CASE WhileBody
    <2> DEFINE c == quad_to_bool_int(ctx, ret)
               line == JMPZ(top.l_end, c.val.place)
               d == quad_emitf(c.ctx, line)
               f == [top EXCEPT !.pc = "body"]
               g == Stmt(top.node.body)
    <2>1. AtNode("statement", {"WHILE"}, "condition")
      BY <1>2 DEF WhileBody, Resume
    <2>2. /\ stack # <<>> /\ top \in StatementFrame /\ top.l_end \in Nat
          /\ top.node.kind = "WHILE" /\ top.pc = "condition"
      BY <2>1, TopStatement DEF StatementFrame, FrameOf
    <2>3. Call(f, g) /\ ctx' = quad_push_break(d, depth) /\ g.pc = "enter"
      BY <1>2 DEF WhileBody, Stmt, Frame
    <2>4. Computed(ctx, c)
      BY <1>0, ConversionComputes
    <2> HIDE DEF c, f, g
    <2>5. c.ctx \in QuadContext /\ c.val.place \in Place
      BY <2>4 DEF Computed, Quiet, QuadValue
    <2>6. d \in QuadContext
      BY <2>2, <2>5, EmitJump DEF JumpsTo
    <2>7. Keeps(ctx, d)
      BY <2>4, <2>5, QuietKeeps, EmitKeeps, KeepsTransitive DEF Computed
    <2> HIDE DEF d
    <2>8. ~ctx'.error => ~ctx.error /\ ctx'.break_labels = Append(ctx.break_labels, depth)
      BY <2>3, <2>6, <2>7, PushAppends DEF Keeps
    <2>9. /\ Len(stack') = depth + 1 /\ ~Breakable(stack'[depth + 1])
          /\ \A k \in 1 .. depth - 1 : stack'[k] = stack[k]
      BY <2>2, <2>3, CallShape, Entering
    <2> QED BY <2>2, <2>8, <2>9, MirrorPush
  <1>3. CASE WhileEnd
    <2> DEFINE c == quad_pop_break(ctx)
               d == quad_emitf(c, JUMP(top.label))
    <2>1. AtNode("statement", {"WHILE"}, "body")
      BY <1>3 DEF WhileEnd, Resume
    <2>2. /\ stack # <<>> /\ top \in StatementFrame /\ top.label \in Nat
          /\ top.node.kind = "WHILE" /\ top.pc = "body" /\ top.fn = "statement"
      BY <2>1, TopStatement DEF StatementFrame, FrameOf
    <2>3. Return(NoValue) /\ \E line : ctx' = quad_emitf(d, line)
      BY <1>3 DEF WhileEnd
    <2>4. Pops(ctx, c)
      BY <1>0, PopBreak
    <2>5. d \in QuadContext /\ Keeps(c, d)
      <3> HIDE DEF c
      <3>1. c \in QuadContext
        BY <2>4 DEF Pops
      <3>2. JumpsTo(c, d, top.label)
        BY <2>2, <3>1, EmitJump
      <3> QED BY <3>2, LabelKeeps DEF JumpsTo
    <2> HIDE DEF d
    <2>6. Keeps(c, ctx')
      BY <2>3, <2>5, EmitKeeps, KeepsTransitive
    <2>7. ~ctx'.error => ~ctx.error /\ ctx'.break_labels = c.break_labels
      BY <2>4, <2>6 DEF Keeps, Pops
    <2>8. Breakable(top)
      BY <2>2 DEF Breakable
    <2>9. Len(stack') = depth - 1 /\ \A k \in 1 .. depth - 1 : stack'[k] = stack[k]
      BY <2>2, <2>3, ReturnShape
    <2>10. CASE ctx'.error
      BY <2>10 DEF BreakStackMirrorsNesting
    <2>11. CASE ~ctx'.error
      BY <1>0, <2>2, <2>7, <2>8, <2>9, <2>11, MirrorPop
    <2> QED BY <2>10, <2>11
  <1> QED BY <1>1, <1>2, <1>3

LEMMA MirrorSwitchStep ==
  ASSUME TypeOK, BreakStackMirrorsNesting, NoDanglingBreakLabel,
         SwitchExpression \/ SwitchValue \/ SwitchCase \/ SwitchNext \/ SwitchDefault \/ SwitchEnd
  PROVE  BreakStackMirrorsNesting'
  <1> USE DEF Constant
  <1>0. ctx \in QuadContext /\ ret \in QuadValue
    BY DEF TypeOK
  <1>1. ASSUME NEW pc, AtNode("statement", {"SWITCH"}, pc)
        PROVE  /\ stack # <<>> /\ top \in StatementFrame /\ top.node.kind = "SWITCH"
               /\ top.pc = pc /\ top.fn = "statement"
    BY <1>1, TopStatement
  <1>2. CASE SwitchExpression
    <2> DEFINE f == [top EXCEPT !.pc = "expression", !.l_end = ctx'.label_counter]
               g == Expr(top.node.expression)
    <2>1. /\ AtNode("statement", {"SWITCH"}, "enter") /\ Call(f, g) /\ ctx' = quad_new_label(ctx)
      BY <1>2 DEF SwitchExpression, Enter
    <2>2. f.node = top.node /\ f.pc = "expression" /\ g.pc = "enter" /\ ~Breakable(f)
      <3>1. f.node = top.node /\ f.pc = "expression" /\ g.pc = "enter"
        BY <1>1, <2>1 DEF StatementFrame, FrameOf, Expr, Frame
      <3> HIDE DEF f
      <3> QED BY <1>1, <2>1, <3>1 DEF Breakable
    <2> HIDE DEF f, g
    <2>3. Keeps(ctx, ctx')
      BY <1>0, <2>1, NewLabel, LabelKeeps
    <2> QED BY <1>1, <2>1, <2>2, <2>3, MirrorCall
  <1>3. CASE SwitchValue
    <2> DEFINE svi == quad_to_int(ctx, ret)
    <2>1. /\ AtNode("statement", {"SWITCH"}, "expression") /\ \E f : Stay(f)
          /\ ctx' = quad_push_break(svi.ctx, depth)
      BY <1>3 DEF SwitchValue, Resume
    <2>2. Computed(ctx, svi)
      BY <1>0, ConversionComputes
    <2> HIDE DEF svi
    <2>3. svi.ctx \in QuadContext /\ Keeps(ctx, svi.ctx)
      BY <2>2, QuietKeeps DEF Computed, Quiet
    <2>4. ~ctx'.error => ~ctx.error /\ ctx'.break_labels = Append(ctx.break_labels, depth)
      BY <2>1, <2>3, PushAppends DEF Keeps
    <2>5. depth \in Nat /\ Len(stack') = depth /\ \A k \in 1 .. depth - 1 : stack'[k] = stack[k]
      BY <1>1, <2>1, StayShape
    <2> QED BY <1>1, <2>1, <2>4, <2>5, MirrorPush
  <1>4. CASE SwitchCase
    <2> DEFINE case == Head(top.rest)
               l_next == quad_new_label(ctx)
               cmp == EmitTemp(l_next, INT, "IEQL", top.val.place, Txt(case.int_literal))
    <2>1. /\ AtNode("statement", {"SWITCH"}, "cases") /\ top.rest # <<>>
          /\ \E f : Call(f, List(case.statements))
          /\ \E line : ctx' = quad_emitf(cmp.ctx, line)
      BY <1>4 DEF SwitchCase, Resume
    <2>2. Breakable(top) /\ List(case.statements).pc = "enter"
      BY <1>1, <2>1 DEF Breakable, List, Frame
    <2>3. TakesLabel(ctx, l_next)
      BY <1>0, NewLabel
    <2>4. Txt(case.int_literal) \in Place /\ top.val.place \in Place
      <3>1. top.rest \in Seq(Case) /\ top.val.place \in Place
        BY <1>1, <2>1 DEF StatementFrame, FrameOf, QuadValue
      <3>2. case \in Case
        BY <2>1, <3>1, HeadTailProperties
      <3>3. case.int_literal \in NumInt
        BY <3>2 DEF Case, CaseOver
      <3> QED BY <3>1, <3>3 DEF Txt, Place, Text, Literal
    <2> HIDE DEF l_next, case
    <2>5. Computed(l_next, cmp)
      <3>1. "IEQL" \in PlainOp /\ INT \in AstType
        BY DEF PlainOp, Op, AstType
      <3> QED BY <2>3, <2>4, <3>1, EmitTempComputes DEF TakesLabel
    <2> HIDE DEF cmp
    <2>6. Keeps(ctx, l_next)
      BY <2>3, LabelKeeps
    <2>7. cmp.ctx \in QuadContext /\ Keeps(ctx, cmp.ctx)
      BY <2>5, <2>6, QuietKeeps, KeepsTransitive DEF Computed, Quiet
    <2>8. Keeps(ctx, ctx')
      BY <2>1, <2>7, EmitKeeps, KeepsTransitive
    <2> QED BY <1>1, <2>1, <2>2, <2>8, MirrorCall
  <1>5. CASE SwitchNext
    <2>1. /\ AtNode("statement", {"SWITCH"}, "case") /\ \E f : Stay(f)
          /\ \E line : ctx' = quad_emitf(ctx, line)
      BY <1>5 DEF SwitchNext, Resume
    <2>2. Breakable(top)
      BY <1>1, <2>1 DEF Breakable
    <2> QED BY <1>0, <1>1, <2>1, <2>2, EmitKeeps, MirrorStay
  <1>6. CASE SwitchDefault
    <2>1. /\ AtNode("statement", {"SWITCH"}, "cases") /\ \E f, l : Call(f, List(l)) /\ Silent
      BY <1>6 DEF SwitchDefault, Resume
    <2>2. Breakable(top) /\ \A l : List(l).pc = "enter"
      BY <1>1, <2>1 DEF Breakable, List, Frame
    <2> QED BY <1>1, <2>1, <2>2, SilentKeeps, MirrorCall
  <1>7. CASE SwitchEnd
    <2> DEFINE c == quad_emitf(ctx, LABEL(top.l_end))
    <2>1. AtNode("statement", {"SWITCH"}, "default") /\ Return(NoValue) /\ ctx' = quad_pop_break(c)
      BY <1>7 DEF SwitchEnd, Resume
    <2>2. top.l_end \in Nat /\ Breakable(top)
      BY <1>1, <2>1 DEF StatementFrame, FrameOf, Breakable
    <2>3. DefinesLabel(ctx, c, top.l_end)
      BY <1>0, <2>2, EmitLABEL
    <2> HIDE DEF c
    <2>4. c \in QuadContext /\ c.break_labels = ctx.break_labels /\ (~ctx'.error => ~ctx.error)
      BY <2>1, <2>3, PopBreak DEF DefinesLabel, Pops
    <2>5. Len(stack') = depth - 1 /\ \A k \in 1 .. depth - 1 : stack'[k] = stack[k]
      BY <1>1, <2>1, ReturnShape
    <2> QED BY <1>1, <2>1, <2>2, <2>4, <2>5, MirrorPop
  <1> QED BY <1>2, <1>3, <1>4, <1>5, <1>6, <1>7

(***************************************************************************)
(* The theorems                                                            *)
(***************************************************************************)

LEMMA MirrorInitially == Init => BreakStackMirrorsNesting
  <1> SUFFICES ASSUME Init PROVE BreakStackMirrorsNesting
    OBVIOUS
  <1> DEFINE f == Stmt(program.body)
  <1>1. depth = 1 /\ stack[1] = f
    BY DEF Init, depth
  <1>2. ~Breakable(f)
    <2>1. f.pc = "enter"
      BY DEF Stmt, Frame
    <2> HIDE DEF f
    <2> QED BY <2>1, Entering
  <1> HIDE DEF f
  <1> QED BY <1>1, <1>2 DEF BreakStackMirrorsNesting

LEMMA MirrorInductive ==
  ASSUME TypeOK, LabelInv, BreakStackMirrorsNesting, [Next]_vars
  PROVE  BreakStackMirrorsNesting'
  <1>0. NoDanglingBreakLabel
    BY DEF LabelInv
  <1>1. CASE StatementStep
    BY <1>0, <1>1, MirrorSimpleStep, MirrorIfStep, MirrorWhileStep, MirrorSwitchStep
    DEF StatementStep
  <1>2. CASE ListStep
    BY <1>2, MirrorListStep
  <1>3. CASE ExprStep
    BY <1>3, MirrorExprStep
  <1>4. CASE Finish
    BY <1>4 DEF Finish, BreakStackMirrorsNesting, depth
  <1>5. CASE UNCHANGED vars
    BY <1>5 DEF vars, BreakStackMirrorsNesting, depth
  <1> QED BY <1>1, <1>2, <1>3, <1>4, <1>5 DEF Next, Step, Terminated

\* While nothing has failed, break_labels holds a label for each loop and each
\* switch that is being emitted: with the pointers being alive and in order
\* (NoDanglingBreakLabel), for these and no others, each at its level.
THEOREM BreakLabelsMirrorNesting == Spec => []BreakStackMirrorsNesting
  <1>1. Init => TypeOK /\ LabelInv /\ BreakStackMirrorsNesting
    BY Initially, MirrorInitially
  <1>2. TypeOK /\ LabelInv /\ BreakStackMirrorsNesting /\ [Next]_vars
          => (TypeOK /\ LabelInv /\ BreakStackMirrorsNesting)'
    BY Inductive, MirrorInductive
  <1> QED BY <1>1, <1>2, PTL DEF Spec

\* What a step does that writes a line at a break
BreakLeaves ==
  (At("statement", "enter") /\ top.node.kind = "BREAK" /\ ctx'.out # ctx.out) =>
    \E i \in 1 .. depth :
      /\ Breakable(stack[i])
      /\ \A j \in i + 1 .. depth : ~Breakable(stack[j])
      /\ ctx'.out = Append(ctx.out, JUMP(stack[i].l_end))

\* At a break only quad_emit_statement's own early return and BREAK are possible
LEMMA StepAtBreak ==
  ASSUME At("statement", "enter"), top.node.kind = "BREAK", [Next]_vars
  PROVE  Break \/ ctx' = ctx
  <1>1. stack # <<>> /\ top.fn = "statement" /\ top.pc = "enter" /\ top.node.kind = "BREAK"
    BY DEF At
  <1> HIDE DEF top
  <1>2. CASE StatementStep
    <2>1. StatementSkip => ctx' = ctx
      BY DEF StatementSkip, Silent
    <2>2. ~(\/ AssignExpression \/ Assign \/ Input \/ OutputExpression \/ Output
            \/ IfCondition \/ IfThen \/ IfWithoutElse \/ IfElse \/ IfEnd)
      BY <1>1 DEF AssignExpression, Assign, Input, OutputExpression, Output,
                  IfCondition, IfThen, IfWithoutElse, IfElse, IfEnd, Enter, Resume, AtNode, At
    <2>3. ~(\/ WhileCondition \/ WhileBody \/ WhileEnd
            \/ SwitchExpression \/ SwitchValue \/ SwitchCase \/ SwitchNext
            \/ SwitchDefault \/ SwitchEnd \/ Block \/ BlockEnd)
      BY <1>1 DEF WhileCondition, WhileBody, WhileEnd, SwitchExpression, SwitchValue, SwitchCase,
                  SwitchNext, SwitchDefault, SwitchEnd, Block, BlockEnd, Enter, Resume, AtNode, At
    <2> QED BY <1>2, <2>1, <2>2, <2>3 DEF StatementStep
  <1>3. ~ListStep /\ ~Finish
    BY <1>1 DEF ListStep, ListNext, ListEnd, Finish, At
  <1>4. ~ExprStep
    BY <1>1 DEF ExprStep, ExprId, ExprLiteral, ExprOperand, ExprUnary, ExprLeft, ExprRight,
                ExprBinary, AtNode, At
  <1>5. Terminated \/ UNCHANGED vars => ctx' = ctx
    BY DEF Terminated, vars
  <1> QED BY <1>2, <1>3, <1>4, <1>5 DEF Next, Step

LEMMA BreakLeavesStep ==
  ASSUME TypeOK, LabelInv, BreakStackMirrorsNesting, [Next]_vars
  PROVE  BreakLeaves
  <1> DEFINE b == ctx.break_labels
             i == b[Len(b)]
  <1> SUFFICES ASSUME At("statement", "enter"), top.node.kind = "BREAK", ctx'.out # ctx.out
               PROVE  \E k \in 1 .. depth :
                        /\ Breakable(stack[k])
                        /\ \A j \in k + 1 .. depth : ~Breakable(stack[j])
                        /\ ctx'.out = Append(ctx.out, JUMP(stack[k].l_end))
    BY DEF BreakLeaves
  <1>1. Break /\ ~ctx.error
    BY StepAtBreak DEF Break, Enter
  <1>2. ctx \in QuadContext /\ b \in Seq(Nat) /\ stack # <<>>
    BY ContextFields DEF TypeOK, At
  <1>3. b # <<>> /\ ctx' = quad_emitf(ctx, JUMP(stack[i].l_end))
    BY <1>1, <1>2 DEF Break, QuadContext
  <1>4. ctx'.out = Append(ctx.out, JUMP(stack[i].l_end))
    BY <1>1, <1>2, <1>3 DEF quad_emitf, QuadContext
  <1>5. Len(b) \in DOMAIN b /\ DOMAIN b = 1 .. Len(b) /\ Len(b) \in Nat /\ depth \in Nat
    BY <1>2, <1>3, TopFrame
  <1>6. i \in 1 .. depth /\ Breakable(stack[i])
    BY <1>5 DEF LabelInv, NoDanglingBreakLabel
  <1>7. ASSUME NEW j \in i + 1 .. depth, Breakable(stack[j])
        PROVE  FALSE
    <2>1. j \in 1 .. depth /\ i < j
      BY <1>5, <1>6
    <2>2. PICK k \in DOMAIN b : b[k] = j
      BY <1>1, <1>7, <2>1 DEF BreakStackMirrorsNesting
    <2>3. CASE k = Len(b)
      BY <1>5, <1>6, <2>1, <2>2, <2>3
    <2>4. CASE k # Len(b)
      <3>1. k < Len(b)
        BY <1>5, <2>4
      <3>2. b[k] < i
        BY <1>5, <3>1 DEF LabelInv, NoDanglingBreakLabel
      <3> QED BY <1>5, <1>6, <2>1, <2>2, <3>2
    <2> QED BY <2>3, <2>4
  <1> QED BY <1>4, <1>6, <1>7

\* A break that is emitted leaves the innermost enclosing loop or switch, at any
\* nesting, and one that has none around it never gets through.
THEOREM BreakGoesToInnermost == Spec => BreakLeavesInnermost
  <1>1. Init => TypeOK /\ LabelInv /\ BreakStackMirrorsNesting
    BY Initially, MirrorInitially
  <1>2. TypeOK /\ LabelInv /\ BreakStackMirrorsNesting /\ [Next]_vars
          => (TypeOK /\ LabelInv /\ BreakStackMirrorsNesting)'
    BY Inductive, MirrorInductive
  <1>3. TypeOK /\ LabelInv /\ BreakStackMirrorsNesting /\ [Next]_vars => [BreakLeaves]_vars
    BY BreakLeavesStep
  <1>4. BreakLeavesInnermost <=> [][BreakLeaves]_vars
    BY DEF BreakLeavesInnermost, BreakLeaves
  <1> QED BY <1>1, <1>2, <1>3, <1>4, PTL DEF Spec

=============================================================================
