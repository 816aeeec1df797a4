------------------------ MODULE QuadEmitOperandProofs ------------------------
(***************************************************************************)
(* Proofs about the operands of QuadEmit: for every program, a temporary   *)
(* is computed by one line and read only below it; for every program that  *)
(* the semantic check lets through, operands have the type their opcode    *)
(* asks for.                                                               *)
(***************************************************************************)
EXTENDS QuadEmitProofs, Typing

(***************************************************************************)
(* Temporaries.  Every definition that has the parameter "typed" says two  *)
(* things: without it what is true of every program, with it also what     *)
(* needs a program of the right types.                                     *)
(***************************************************************************)

ComputesTemp(line) == Computes(line) /\ IsTemp(Target(line))

\* The temporaries that are computed, each with its type
TempTypes(out) ==
  {<<Target(out[i]).temp, ResultType(out[i].op)>> : i \in {j \in DOMAIN out : ComputesTemp(out[j])}}

\* TempsComputedOnce, of any file
OnceIn(out) ==
  \A i \in DOMAIN out :
    /\ ComputesTemp(out[i]) =>
         \A j \in DOMAIN out :
           (Computes(out[j]) /\ Target(out[j]) = Target(out[i])) => i = j
    /\ \A p \in Sources(out[i]) : IsTemp(p) =>
         \E j \in 1 .. i - 1 : Computes(out[j]) /\ Target(out[j]) = p

TextHasType(symbols, text, type) ==
  \/ text \in Id /\ text \in DOMAIN symbols /\ symbols[text] = type
  \/ text \in NumInt \cup {"0"} /\ type = INT
  \/ text \in NumFloat \cup {"0.0"} /\ type = FLOAT

\* The place can be read, and then holds a value of the type
Known(c, place, type, typed) ==
  IF IsTemp(place) THEN <<place.temp, type>> \in TempTypes(c.out)
  ELSE typed => TextHasType(c.symbols, place.text, type)

\* How many operands an opcode has
Arity(op) ==
  IF op \in {"LABEL", "JUMP", "HALT", "SIGNATURE"} THEN 0
  ELSE IF op \in {"JMPZ", "IPRT", "RPRT", "IINP", "RINP"} THEN 1
  ELSE IF op \in {"IASN", "RASN", "ITOR", "RTOI"} THEN 2 ELSE 3

LineTyped(c, line) ==
  /\ Len(line.args) = Arity(line.op)
  /\ \A p \in Sources(line) : Known(c, p, OperandType(line.op), TRUE)
  /\ Computes(line) /\ ~IsTemp(Target(line)) =>
       /\ Target(line).text \in Id
       /\ TextHasType(c.symbols, Target(line).text, ResultType(line.op))
  /\ line.op = "JMPZ" => IsTemp(line.args[1])

Sound(c, typed) ==
  /\ \A x \in TempTypes(c.out) : x[1] \in 1 .. c.temp_counter
  /\ \A i \in DOMAIN c.out : Computes(c.out[i]) => Target(c.out[i]) \in Place
  /\ OnceIn(c.out)
  /\ typed => \A i \in DOMAIN c.out : LineTyped(c, c.out[i])

\* The program is not complete
Ending == {"HALT", "SIGNATURE"}
Unended(c) == \A i \in DOMAIN c.out : c.out[i].op \notin Ending

(***************************************************************************)
(* What the helpers do to the context                                      *)
(***************************************************************************)

LEMMA SameTemp ==
  ASSUME NEW p \in Place, NEW q \in Place, IsTemp(p), IsTemp(q), p.temp = q.temp
  PROVE  p = q
  BY DEF Place, IsTemp

\* The number of a temporary that is taken and not yet computed
Fresh(c, n) == n \in 1 .. c.temp_counter /\ \A x \in TempTypes(c.out) : x[1] # n

\* d is c after more lines, which compute only temporaries taken since
Grows(c, d, typed) ==
  /\ d \in QuadContext /\ d.symbols = c.symbols /\ Sound(d, typed)
  /\ c.temp_counter <= d.temp_counter /\ (c.error => d.error)
  /\ TempTypes(c.out) \subseteq TempTypes(d.out)
  /\ \A x \in TempTypes(d.out) : x \in TempTypes(c.out) \/ x[1] > c.temp_counter
  /\ Unended(c) => Unended(d)

LEMMA GrowsReflexive ==
  ASSUME NEW typed, NEW c \in QuadContext, Sound(c, typed) PROVE Grows(c, c, typed)
  BY ContextFields DEF Grows

LEMMA GrowsTransitive ==
  ASSUME NEW typed, NEW c \in QuadContext, NEW d \in QuadContext, NEW e \in QuadContext,
         Grows(c, d, typed), Grows(d, e, typed)
  PROVE  Grows(c, e, typed)
  <1>1. c.temp_counter \in Nat /\ d.temp_counter \in Nat /\ e.temp_counter \in Nat
    BY ContextFields
  <1>2. \A x \in TempTypes(e.out) : x[1] \in Nat
    BY <1>1 DEF Grows, Sound
  <1> QED BY <1>1, <1>2 DEF Grows

LEMMA KnownKept ==
  ASSUME NEW typed, NEW c, NEW d, Grows(c, d, typed), NEW p, NEW t, NEW flag, Known(c, p, t, flag)
  PROVE  Known(d, p, t, flag)
  BY DEF Grows, Known

LEMMA FreshKept ==
  ASSUME NEW typed, NEW c \in QuadContext, NEW d, NEW n, Grows(c, d, typed), Fresh(c, n)
  PROVE  Fresh(d, n)
  <1>1. c.temp_counter \in Nat /\ d.temp_counter \in Nat
    BY ContextFields DEF Grows
  <1> QED BY <1>1 DEF Grows, Fresh

LEMMA AppendTempTypes ==
  ASSUME NEW out \in Seq(Line), NEW line \in Line
  PROVE  TempTypes(Append(out, line)) =
           TempTypes(out) \cup
             (IF ComputesTemp(line) THEN {<<Target(line).temp, ResultType(line.op)>>} ELSE {})
  <1> DEFINE new == Append(out, line)
  <1>1. /\ DOMAIN new = 1 .. Len(out) + 1 /\ DOMAIN out = 1 .. Len(out) /\ Len(out) \in Nat
        /\ \A i \in 1 .. Len(out) : new[i] = out[i]
        /\ new[Len(out) + 1] = line
    OBVIOUS
  <1> HIDE DEF new
  <1>2. TempTypes(new) = TempTypes(out) \cup
          (IF ComputesTemp(line) THEN {<<Target(line).temp, ResultType(line.op)>>} ELSE {})
    BY <1>1 DEF TempTypes
  <1> QED BY <1>2 DEF new

\* A line that can be written: it reads what is known
Reads(c, line, typed) ==
  /\ \A p \in Sources(line) : \E t \in AstType :
       Known(c, p, t, typed) /\ (typed => t = OperandType(line.op))
  /\ Len(line.args) = Arity(line.op)
  /\ typed /\ Computes(line) /\ ~IsTemp(Target(line)) =>
       /\ Target(line).text \in Id
       /\ TextHasType(c.symbols, Target(line).text, ResultType(line.op))
  /\ typed /\ line.op = "JMPZ" => IsTemp(line.args[1])

LEMMA AppendOnce ==
  ASSUME NEW typed, NEW c \in QuadContext, Sound(c, typed), NEW line \in Line,
         Reads(c, line, typed), Computes(line) => Target(line) \in Place,
         ComputesTemp(line) => Fresh(c, Target(line).temp)
  PROVE  OnceIn(Append(c.out, line))
  <1> DEFINE out == c.out
             new == Append(out, line)
             n == Len(out)
  <1>1. out \in Seq(Line) /\ n \in Nat
    BY ContextFields
  <1>2. /\ DOMAIN new = 1 .. n + 1 /\ DOMAIN out = 1 .. n
        /\ \A i \in 1 .. n : new[i] = out[i]
        /\ new[n + 1] = line
    BY <1>1
  <1>3. \A i \in 1 .. n : Computes(out[i]) => Target(out[i]) \in Place
    BY <1>2 DEF Sound
  <1>4. OnceIn(out) /\ \A i \in 1 .. n : ComputesTemp(out[i]) =>
          <<Target(out[i]).temp, ResultType(out[i].op)>> \in TempTypes(out)
    BY <1>2 DEF Sound, TempTypes
  <1>5. ComputesTemp(line) => \A x \in TempTypes(out) : x[1] # Target(line).temp
    BY DEF Fresh
  <1>6. ASSUME NEW p \in Sources(line), IsTemp(p)
        PROVE  \E j \in 1 .. n : Computes(out[j]) /\ Target(out[j]) = p
    <2>1. PICK t : <<p.temp, t>> \in TempTypes(out)
      BY <1>6 DEF Reads, Known
    <2>2. PICK j \in 1 .. n : ComputesTemp(out[j]) /\ Target(out[j]).temp = p.temp
      BY <1>2, <2>1 DEF TempTypes
    <2>3. p \in Place
      <3>1. line.args \in Seq(Place)
        BY DEF Line
      <3> QED BY <1>6, <3>1 DEF Sources
    <2>4. Target(out[j]) = p
      BY <1>3, <1>6, <2>2, <2>3, SameTemp DEF ComputesTemp
    <2> QED BY <2>2, <2>4 DEF ComputesTemp
  <1> HIDE DEF new, n, out
  <1>7. ASSUME NEW i \in 1 .. n + 1, ComputesTemp(new[i]),
               NEW j \in 1 .. n + 1, Computes(new[j]), Target(new[j]) = Target(new[i])
        PROVE  i = j
    <2>1. ComputesTemp(new[j]) /\ Target(new[j]).temp = Target(new[i]).temp
      BY <1>7 DEF ComputesTemp
    <2>2. CASE i \in 1 .. n /\ j \in 1 .. n
      BY <1>2, <1>4, <1>7, <2>2 DEF OnceIn
    <2>3. CASE i = n + 1 /\ j \in 1 .. n
      BY <1>2, <1>4, <1>5, <1>7, <2>1, <2>3
    <2>4. CASE i \in 1 .. n /\ j = n + 1
      BY <1>2, <1>4, <1>5, <1>7, <2>1, <2>4
    <2> QED BY <1>1, <2>2, <2>3, <2>4
  <1>8. ASSUME NEW i \in 1 .. n + 1, NEW p \in Sources(new[i]), IsTemp(p)
        PROVE  \E j \in 1 .. i - 1 : Computes(new[j]) /\ Target(new[j]) = p
    <2>1. CASE i \in 1 .. n
      <3>1. PICK j \in 1 .. i - 1 : Computes(out[j]) /\ Target(out[j]) = p
        BY <1>2, <1>4, <1>8, <2>1 DEF OnceIn
      <3>2. j \in 1 .. n
        BY <1>1, <2>1
      <3> QED BY <1>2, <3>1, <3>2
    <2>2. CASE i = n + 1
      <3>1. PICK j \in 1 .. n : Computes(out[j]) /\ Target(out[j]) = p
        BY <1>2, <1>6, <1>8, <2>2
      <3>2. j \in 1 .. i - 1
        BY <1>1, <2>2
      <3> QED BY <1>2, <3>1, <3>2
    <2> QED BY <1>1, <2>1, <2>2
  <1>9. OnceIn(new)
    BY <1>2, <1>7, <1>8 DEF OnceIn
  <1> QED BY <1>9 DEF new, out

\* d is c after the line, if it was written
Writes(c, d, line, typed) ==
  /\ d \in QuadContext /\ d.symbols = c.symbols /\ Sound(d, typed)
  /\ d.temp_counter = c.temp_counter /\ (c.error => d.error)
  /\ TempTypes(c.out) \subseteq TempTypes(d.out)
  /\ \A x \in TempTypes(d.out) :
       \/ x \in TempTypes(c.out)
       \/ ComputesTemp(line) /\ x = <<Target(line).temp, ResultType(line.op)>>
  /\ ~d.error /\ ComputesTemp(line) =>
       <<Target(line).temp, ResultType(line.op)>> \in TempTypes(d.out)
  /\ Unended(c) /\ line.op \notin Ending => Unended(d)

LEMMA EmitSound ==
  ASSUME NEW typed \in BOOLEAN, NEW c \in QuadContext, Sound(c, typed), NEW line \in Line,
         ~c.error => Reads(c, line, typed), Computes(line) => Target(line) \in Place,
         ComputesTemp(line) => Fresh(c, Target(line).temp),
         NEW d, d = quad_emitf(c, line)
  PROVE  Writes(c, d, line, typed)
  <1>1. CASE d.error
    <2>1. d \in QuadContext /\ d.symbols = c.symbols /\ d.out = c.out /\ d.temp_counter = c.temp_counter
      BY <1>1 DEF quad_emitf, QuadContext
    <2>2. Sound(d, typed)
      BY <2>1 DEF Sound, LineTyped, Known
    <2> QED BY <1>1, <2>1, <2>2 DEF Writes, Unended
  <1>2. CASE ~d.error
    <2>1. ~c.error /\ d = [c EXCEPT !.out = Append(@, line)]
      BY <1>2 DEF quad_emitf, QuadContext
    <2>2. /\ d \in QuadContext /\ d.out = Append(c.out, line) /\ d.symbols = c.symbols
          /\ d.temp_counter = c.temp_counter /\ c.out \in Seq(Line)
      BY <2>1, AppendLine DEF QuadContext
    <2>3. TempTypes(d.out) = TempTypes(c.out) \cup
            (IF ComputesTemp(line) THEN {<<Target(line).temp, ResultType(line.op)>>} ELSE {})
      BY <2>2, AppendTempTypes
    <2>4. OnceIn(d.out)
      BY <2>1, <2>2, AppendOnce
    <2>5. \A x \in TempTypes(d.out) : x[1] \in 1 .. d.temp_counter
      BY <2>2, <2>3 DEF Sound, Fresh
    <2>6. /\ DOMAIN d.out = 1 .. Len(c.out) + 1 /\ DOMAIN c.out = 1 .. Len(c.out) /\ Len(c.out) \in Nat
          /\ \A i \in 1 .. Len(c.out) : d.out[i] = c.out[i]
          /\ d.out[Len(c.out) + 1] = line
      BY <2>2
    <2>7. \A i \in DOMAIN d.out : Computes(d.out[i]) => Target(d.out[i]) \in Place
      BY <2>6 DEF Sound
    <2>8. \A p, t : Known(c, p, t, TRUE) => Known(d, p, t, TRUE)
      BY <2>2, <2>3 DEF Known
    <2>9. ASSUME typed, NEW i \in DOMAIN d.out PROVE LineTyped(d, d.out[i])
      <3>1. CASE i \in 1 .. Len(c.out)
        <4>1. LineTyped(c, d.out[i])
          BY <2>6, <2>9, <3>1 DEF Sound
        <4> QED BY <2>2, <2>8, <4>1 DEF LineTyped
      <3>2. CASE i = Len(c.out) + 1
        <4>1. LineTyped(c, line)
          BY <2>1, <2>9 DEF Reads, LineTyped, Known
        <4> QED BY <2>2, <2>6, <2>8, <3>2, <4>1 DEF LineTyped
      <3> QED BY <2>6, <3>1, <3>2
    <2>10. Sound(d, typed)
      BY <2>4, <2>5, <2>7, <2>9 DEF Sound
    <2>11. Unended(c) /\ line.op \notin Ending => Unended(d)
      BY <2>6 DEF Unended
    <2> QED BY <2>1, <2>2, <2>3, <2>10, <2>11 DEF Writes
  <1>3. d.error \in BOOLEAN
    BY EmitLine, ContextFields
  <1> QED BY <1>1, <1>2, <1>3

\* A line that computes no temporary
LEMMA EmitGrows ==
  ASSUME NEW typed \in BOOLEAN, NEW c \in QuadContext, Sound(c, typed), NEW line \in Line,
         ~c.error => Reads(c, line, typed), Computes(line) => Target(line) \in Place,
         ~ComputesTemp(line), line.op \notin Ending
  PROVE  Grows(c, quad_emitf(c, line), typed)
  <1> DEFINE d == quad_emitf(c, line)
  <1> HIDE DEF d
  <1>1. d = quad_emitf(c, line)
    BY DEF d
  <1>2. Writes(c, d, line, typed)
    BY <1>1, EmitSound
  <1>3. Grows(c, d, typed)
    BY <1>2, ContextFields DEF Writes, Grows
  <1> QED BY <1>3 DEF d

\* A line that computes a temporary taken since b
LEMMA WritesTemp ==
  ASSUME NEW typed \in BOOLEAN, NEW b \in QuadContext, NEW c, Grows(b, c, typed),
         NEW n \in Nat, n > b.temp_counter, Fresh(c, n),
         NEW line \in Line, Computes(line), Target(line) = Temp(n),
         ~c.error => Reads(c, line, typed)
  PROVE  /\ Grows(b, quad_emitf(c, line), typed)
         /\ ~quad_emitf(c, line).error =>
              <<n, ResultType(line.op)>> \in TempTypes(quad_emitf(c, line).out)
  <1> DEFINE d == quad_emitf(c, line)
  <1> HIDE DEF d
  <1>1. d = quad_emitf(c, line)
    BY DEF d
  <1>2. Target(line) \in Place /\ ComputesTemp(line) /\ Target(line).temp = n
    BY DEF Temp, Place, ComputesTemp, IsTemp
  <1>3. c \in QuadContext /\ Sound(c, typed)
    BY DEF Grows
  <1>4. /\ d \in QuadContext /\ d.symbols = c.symbols /\ Sound(d, typed)
        /\ d.temp_counter = c.temp_counter /\ (c.error => d.error)
        /\ TempTypes(c.out) \subseteq TempTypes(d.out)
        /\ \A x \in TempTypes(d.out) : x \in TempTypes(c.out) \/ x = <<n, ResultType(line.op)>>
        /\ ~d.error => <<n, ResultType(line.op)>> \in TempTypes(d.out)
        /\ Unended(c) => Unended(d)
    <2>1. Writes(c, d, line, typed)
      BY <1>1, <1>2, <1>3, EmitSound
    <2>2. line.op \notin Ending
      BY DEF Computes, Ending
    <2> QED BY <1>2, <2>1, <2>2 DEF Writes
  <1>5. Grows(b, d, typed)
    BY <1>4 DEF Grows
  <1> QED BY <1>4, <1>5 DEF d

\* The opcodes of the lines that compute a temporary
ComputingOp == PlainOp \ {"HALT", "SIGNATURE", "IPRT", "RPRT", "IINP", "RINP"}
\* One operand or two
UnaryOp == {"ITOR", "RTOI", "IASN", "RASN"}
BinaryOp == ComputingOp \ UnaryOp

LEMMA UnaryLine ==
  ASSUME NEW op \in UnaryOp, NEW t \in Place, NEW a \in Place
  PROVE  LET line == Quad(op, <<t, a>>) IN
         /\ line \in Line /\ Computes(line) /\ line.op = op /\ Len(line.args) = Arity(op)
         /\ Target(line) = t /\ Sources(line) \subseteq {a}
  <1> DEFINE line == Quad(op, <<t, a>>)
  <1>1. op \in PlainOp /\ Computes(line) /\ op \notin {"IINP", "RINP"}
    BY DEF UnaryOp, PlainOp, Op, Computes, Quad
  <1>2. <<t, a>> \in Seq(Place)
    OBVIOUS
  <1>3. line \in Line
    BY <1>1, <1>2, QuadLine
  <1>4. line.op = op /\ line.args = <<t, a>>
    BY DEF Quad
  <1> HIDE DEF line
  <1>5. Target(line) = t
    BY <1>4 DEF Target
  <1>6. Sources(line) \subseteq {a}
    BY <1>1, <1>4 DEF Sources
  <1>7. Len(line.args) = Arity(op)
    BY <1>4 DEF Arity, UnaryOp
  <1> QED BY <1>1, <1>3, <1>4, <1>5, <1>6, <1>7 DEF line

LEMMA BinaryLine ==
  ASSUME NEW op \in BinaryOp, NEW t \in Place, NEW a \in Place, NEW b \in Place
  PROVE  LET line == Quad(op, <<t, a, b>>) IN
         /\ line \in Line /\ Computes(line) /\ line.op = op /\ Len(line.args) = Arity(op)
         /\ Target(line) = t /\ Sources(line) \subseteq {a, b}
  <1> DEFINE line == Quad(op, <<t, a, b>>)
  <1>1. op \in PlainOp /\ Computes(line) /\ op \notin {"IINP", "RINP"}
    BY DEF BinaryOp, ComputingOp, PlainOp, Computes, Quad
  <1>2. <<t, a, b>> \in Seq(Place)
    OBVIOUS
  <1>3. line \in Line
    BY <1>1, <1>2, QuadLine
  <1>4. line.op = op /\ line.args = <<t, a, b>>
    BY DEF Quad
  <1> HIDE DEF line
  <1>5. Target(line) = t
    BY <1>4 DEF Target
  <1>6. Sources(line) \subseteq {a, b}
    BY <1>1, <1>4 DEF Sources
  <1>7. Len(line.args) = Arity(op)
    BY <1>4 DEF Arity, BinaryOp, UnaryOp, ComputingOp, PlainOp
  <1> QED BY <1>1, <1>3, <1>4, <1>5, <1>6, <1>7 DEF line

\* A value that can be read, as long as nothing has failed
Holds(c, v, typed) == v \in QuadValue /\ (~c.error => Known(c, v.place, v.type, typed))

\* The result of a helper: more lines, and such a value
Gives(c, r, typed) == Grows(c, r.ctx, typed) /\ Holds(r.ctx, r.val, typed)

LEMMA HoldsKept ==
  ASSUME NEW typed, NEW c, NEW d, Grows(c, d, typed), NEW v, Holds(c, v, typed)
  PROVE  Holds(d, v, typed)
  BY KnownKept DEF Grows, Holds

LEMMA GivesTransitive ==
  ASSUME NEW typed, NEW c \in QuadContext, NEW d, Grows(c, d, typed),
         NEW r, Gives(d, r, typed)
  PROVE  Gives(c, r, typed)
  <1>1. d \in QuadContext /\ r.ctx \in QuadContext
    BY DEF Grows, Gives
  <1> QED BY <1>1, GrowsTransitive DEF Gives

LEMMA TakeTemp ==
  ASSUME NEW c \in QuadContext, NEW n \in Nat, NEW u, u = [c EXCEPT !.temp_counter = n]
  PROVE  /\ u \in QuadContext /\ u.temp_counter = n /\ u.out = c.out
         /\ u.symbols = c.symbols /\ u.error = c.error
  BY DEF QuadContext

LEMMA NewTempGrows ==
  ASSUME NEW typed, NEW c \in QuadContext, Sound(c, typed), NEW type \in AstType
  PROVE  LET t == quad_tmp(c, type) IN
         /\ Grows(c, t.ctx, typed) /\ t.ctx \in QuadContext /\ Sound(t.ctx, typed)
         /\ Fresh(t.ctx, c.temp_counter + 1)
         /\ t.ctx.error = c.error /\ t.ctx.out = c.out
         /\ t.val = Value(type, Temp(c.temp_counter + 1)) /\ t.val \in QuadValue
         /\ t.val.place = Temp(c.temp_counter + 1) /\ t.val.place \in Place
         /\ t.val.type = type /\ IsTemp(t.val.place)
  <1> DEFINE t == quad_tmp(c, type)
             n == c.temp_counter
  <1>1. n \in Nat
    BY ContextFields
  <1> DEFINE u == [c EXCEPT !.temp_counter = n + 1]
  <1>2. t.ctx = u /\ t.val = Value(type, Temp(u.temp_counter))
    BY DEF quad_tmp, quad_new_temp, Result
  <1>3. /\ u \in QuadContext /\ u.temp_counter = n + 1 /\ u.out = c.out
        /\ u.symbols = c.symbols /\ u.error = c.error
    BY <1>1, TakeTemp
  <1> HIDE DEF t, u
  <1>4. /\ t.ctx \in QuadContext /\ t.ctx.temp_counter = n + 1 /\ t.ctx.out = c.out
        /\ t.ctx.symbols = c.symbols /\ t.ctx.error = c.error
    BY <1>2, <1>3
  <1>5. \A x \in TempTypes(c.out) : x[1] \in 1 .. n
    BY DEF Sound
  <1>6. Sound(t.ctx, typed)
    <2>1. \A x \in TempTypes(c.out) : x[1] \in 1 .. n + 1
      BY <1>1, <1>5
    <2> QED BY <1>4, <2>1 DEF Sound, LineTyped, Known
  <1>7. Grows(c, t.ctx, typed) /\ Fresh(t.ctx, n + 1)
    BY <1>1, <1>4, <1>5, <1>6 DEF Grows, Fresh, Unended
  <1>8. /\ t.val \in QuadValue /\ t.val.place = Temp(n + 1) /\ t.val.place \in Place
        /\ t.val.type = type /\ IsTemp(t.val.place)
    BY <1>1, <1>2, <1>3 DEF QuadValue, Value, Temp, Place, IsTemp
  <1> QED BY <1>2, <1>4, <1>6, <1>7, <1>8, <1>3 DEF t

LEMMA EmitUnaryGives ==
  ASSUME NEW typed \in BOOLEAN, NEW c \in QuadContext, Sound(c, typed), NEW op \in UnaryOp,
         NEW a \in Place, ~c.error => Known(c, a, OperandType(op), typed),
         NEW type \in AstType, type = ResultType(op)
  PROVE  LET r == EmitUnary(c, type, op, a) IN
         Gives(c, r, typed) /\ r.val.type = type /\ IsTemp(r.val.place)
  <1> DEFINE t == quad_tmp(c, type)
             n == c.temp_counter + 1
             p == t.val.place
             line == Quad(op, <<p, a>>)
             d == quad_emitf(t.ctx, line)
  <1>1. /\ Grows(c, t.ctx, typed) /\ Fresh(t.ctx, n) /\ t.ctx.error = c.error
        /\ t.val \in QuadValue /\ t.val.place = Temp(n) /\ t.val.place \in Place
        /\ t.val.type = type /\ IsTemp(t.val.place)
    BY NewTempGrows
  <1>2. EmitUnary(c, type, op, a) = Result(d, t.val)
    BY DEF EmitUnary
  <1>3. n \in Nat /\ n > c.temp_counter
    BY ContextFields
  <1>4. p = Temp(n) /\ p \in Place
    BY <1>1
  <1> HIDE DEF t, n, p
  <1>5. /\ line \in Line /\ Computes(line) /\ Target(line) = p /\ Sources(line) \subseteq {a}
         /\ line.op = op /\ Len(line.args) = Arity(op)
    BY <1>4, UnaryLine
  <1> HIDE DEF line
  <1>6. ~t.ctx.error => Reads(t.ctx, line, typed)
    <2>1. ~t.ctx.error => Known(t.ctx, a, OperandType(op), typed)
      BY <1>1, KnownKept
    <2>2. OperandType(op) \in AstType /\ IsTemp(Target(line)) /\ op # "JMPZ"
      BY <1>4, <1>5 DEF OperandType, AstType, IsTemp, Temp, UnaryOp
    <2> QED BY <1>5, <2>1, <2>2 DEF Reads
  <1>7. Grows(c, d, typed) /\ (~d.error => <<n, type>> \in TempTypes(d.out))
    BY <1>1, <1>3, <1>4, <1>5, <1>6, WritesTemp
  <1> HIDE DEF d
  <1>8. ~d.error => Known(d, t.val.place, type, typed)
    BY <1>1, <1>7 DEF Known, Temp
  <1> QED BY <1>1, <1>2, <1>7, <1>8 DEF Gives, Holds, Result

\* A temporary n that is taken, and then computed from x and y
LEMMA TempLineGives ==
  ASSUME NEW typed \in BOOLEAN, NEW b \in QuadContext, NEW c, Grows(b, c, typed),
         NEW n \in Nat, n > b.temp_counter, Fresh(c, n), NEW op \in BinaryOp,
         NEW x \in Place, ~c.error => Known(c, x, OperandType(op), typed),
         NEW y \in Place, ~c.error => Known(c, y, OperandType(op), typed),
         NEW v \in QuadValue, v.place = Temp(n), v.type = ResultType(op)
  PROVE  Gives(b, Result(quad_emitf(c, Quad(op, <<v.place, x, y>>)), v), typed)
  <1> DEFINE p == v.place
             line == Quad(op, <<p, x, y>>)
             d == quad_emitf(c, line)
  <1>1. p = Temp(n) /\ p \in Place
    BY DEF QuadValue
  <1> HIDE DEF p
  <1>2. /\ line \in Line /\ Computes(line) /\ Target(line) = p /\ Sources(line) \subseteq {x, y}
        /\ line.op = op /\ Len(line.args) = Arity(op)
    BY <1>1, BinaryLine
  <1> HIDE DEF line
  <1>3. ~c.error => Reads(c, line, typed)
    <2>1. OperandType(op) \in AstType /\ IsTemp(Target(line)) /\ op # "JMPZ"
      BY <1>1, <1>2 DEF OperandType, AstType, IsTemp, Temp, BinaryOp, ComputingOp, PlainOp
    <2> QED BY <1>2, <2>1 DEF Reads
  <1>4. Grows(b, d, typed) /\ (~d.error => <<n, v.type>> \in TempTypes(d.out))
    BY <1>1, <1>2, <1>3, WritesTemp
  <1> HIDE DEF d
  <1>5. ~d.error => Known(d, p, v.type, typed)
    BY <1>1, <1>4 DEF Known, Temp, IsTemp
  <1>6. Gives(b, Result(d, v), typed)
    BY <1>4, <1>5 DEF Gives, Holds, Result, p
  <1> QED BY <1>6 DEF d, line, p

LEMMA EmitTempGives ==
  ASSUME NEW typed \in BOOLEAN, NEW c \in QuadContext, Sound(c, typed), NEW op \in BinaryOp,
         NEW a \in Place, ~c.error => Known(c, a, OperandType(op), typed),
         NEW b \in Place, ~c.error => Known(c, b, OperandType(op), typed),
         NEW type \in AstType, type = ResultType(op)
  PROVE  LET r == EmitTemp(c, type, op, a, b) IN
         Gives(c, r, typed) /\ r.val.type = type /\ IsTemp(r.val.place)
  <1> DEFINE t == quad_tmp(c, type)
             n == c.temp_counter + 1
             r == Result(quad_emitf(t.ctx, Quad(op, <<t.val.place, a, b>>)), t.val)
  <1>1. /\ Grows(c, t.ctx, typed) /\ Fresh(t.ctx, n) /\ t.ctx.error = c.error
        /\ t.val \in QuadValue /\ t.val.place = Temp(n)
        /\ t.val.type = type /\ IsTemp(t.val.place)
    BY NewTempGrows
  <1>2. EmitTemp(c, type, op, a, b) = r
    BY DEF EmitTemp
  <1>3. n \in Nat /\ n > c.temp_counter
    BY ContextFields
  <1> HIDE DEF t, n
  <1>4. ~t.ctx.error => /\ Known(t.ctx, a, OperandType(op), typed)
                        /\ Known(t.ctx, b, OperandType(op), typed)
    BY <1>1, KnownKept
  <1>5. Gives(c, r, typed)
    BY <1>1, <1>3, <1>4, TempLineGives
  <1> QED BY <1>1, <1>2, <1>5 DEF Result

\* The conversions
LEMMA ZeroPlaces ==
  /\ Txt("0") \in Place /\ Txt("0.0") \in Place
  /\ \A c, typed : Known(c, Txt("0"), INT, typed) /\ Known(c, Txt("0.0"), FLOAT, typed)
  BY DEF Place, Txt, Text, Literal, Known, IsTemp, TextHasType

LEMMA ToFloatGives ==
  ASSUME NEW typed \in BOOLEAN, NEW c \in QuadContext, Sound(c, typed), NEW v, Holds(c, v, typed)
  PROVE  LET r == quad_to_float(c, v) IN
         Gives(c, r, typed) /\ (~r.ctx.error => r.val.type = FLOAT)
  <1>1. v.place \in Place /\ v.type \in {INT, FLOAT}
    BY DEF Holds, QuadValue, AstType
  <1>2. CASE c.error \/ v.type = FLOAT
    <2>1. quad_to_float(c, v) = Result(c, v)
      BY <1>2 DEF quad_to_float
    <2> QED BY <1>2, <2>1, GrowsReflexive DEF Gives, Result
  <1>3. CASE ~(c.error \/ v.type = FLOAT)
    <2>1. quad_to_float(c, v) = EmitUnary(c, FLOAT, "ITOR", v.place)
      BY <1>3 DEF quad_to_float
    <2>2. /\ "ITOR" \in UnaryOp /\ FLOAT \in AstType
          /\ OperandType("ITOR") = INT /\ ResultType("ITOR") = FLOAT
      BY DEF UnaryOp, AstType, OperandType, ResultType
    <2>3. Known(c, v.place, INT, typed)
      BY <1>1, <1>3 DEF Holds
    <2> QED BY <1>1, <2>1, <2>2, <2>3, EmitUnaryGives
  <1> QED BY <1>2, <1>3

LEMMA ToIntGives ==
  ASSUME NEW typed \in BOOLEAN, NEW c \in QuadContext, Sound(c, typed), NEW v, Holds(c, v, typed)
  PROVE  LET r == quad_to_int(c, v) IN
         Gives(c, r, typed) /\ (~r.ctx.error => r.val.type = INT)
  <1>1. v.place \in Place /\ v.type \in {INT, FLOAT}
    BY DEF Holds, QuadValue, AstType
  <1>2. CASE c.error \/ v.type = INT
    <2>1. quad_to_int(c, v) = Result(c, v)
      BY <1>2 DEF quad_to_int
    <2> QED BY <1>2, <2>1, GrowsReflexive DEF Gives, Result
  <1>3. CASE ~(c.error \/ v.type = INT)
    <2>1. quad_to_int(c, v) = EmitUnary(c, INT, "RTOI", v.place)
      BY <1>3 DEF quad_to_int
    <2>2. /\ "RTOI" \in UnaryOp /\ INT \in AstType
          /\ OperandType("RTOI") = FLOAT /\ ResultType("RTOI") = INT
      BY DEF UnaryOp, AstType, OperandType, ResultType
    <2>3. Known(c, v.place, FLOAT, typed)
      BY <1>1, <1>3 DEF Holds
    <2> QED BY <1>1, <2>1, <2>2, <2>3, EmitUnaryGives
  <1> QED BY <1>2, <1>3

LEMMA ToBoolIntGives ==
  ASSUME NEW typed \in BOOLEAN, NEW c \in QuadContext, Sound(c, typed), NEW v, Holds(c, v, typed)
  PROVE  LET r == quad_to_bool_int(c, v) IN
         /\ Gives(c, r, typed) /\ r.val.type = INT
         /\ IsTemp(v.place) => IsTemp(r.val.place)
  <1>1. v.place \in Place /\ v.type \in {INT, FLOAT}
    BY DEF Holds, QuadValue, AstType
  <1>2. CASE v.type = INT
    <2>1. quad_to_bool_int(c, v) = Result(c, v)
      BY <1>2 DEF quad_to_bool_int
    <2> QED BY <1>2, <2>1, GrowsReflexive DEF Gives, Result
  <1>3. CASE v.type # INT
    <2>1. quad_to_bool_int(c, v) = EmitTemp(c, INT, "RNQL", v.place, Txt("0.0"))
      BY <1>3 DEF quad_to_bool_int
    <2>2. /\ "RNQL" \in BinaryOp /\ INT \in AstType
          /\ OperandType("RNQL") = FLOAT /\ ResultType("RNQL") = INT
      BY DEF BinaryOp, UnaryOp, ComputingOp, PlainOp, Op, AstType, OperandType, ResultType
    <2>3. ~c.error => Known(c, v.place, FLOAT, typed)
      BY <1>1, <1>3 DEF Holds
    <2> QED BY <1>1, <2>1, <2>2, <2>3, ZeroPlaces, EmitTempGives
  <1> QED BY <1>2, <1>3

LEMMA InvertBoolGives ==
  ASSUME NEW typed \in BOOLEAN, NEW c \in QuadContext, Sound(c, typed), NEW v, Holds(c, v, typed),
         v.type = INT
  PROVE  LET r == quad_invert_bool(c, v) IN
         Gives(c, r, typed) /\ r.val.type = INT /\ IsTemp(r.val.place)
  <1>1. v.place \in Place
    BY DEF Holds, QuadValue
  <1>2. /\ "IEQL" \in BinaryOp /\ INT \in AstType
        /\ OperandType("IEQL") = INT /\ ResultType("IEQL") = INT
    BY DEF BinaryOp, UnaryOp, ComputingOp, PlainOp, Op, AstType, OperandType, ResultType
  <1> QED BY <1>1, <1>2, ZeroPlaces, EmitTempGives DEF Holds, quad_invert_bool
\* The operators.  The opcodes of a pair take operands of one type each
PairOf(op, type) ==
  /\ op.iop \in BinaryOp /\ OperandType(op.iop) = INT /\ ResultType(op.iop) = INT
  /\ op.rop \in BinaryOp /\ OperandType(op.rop) = FLOAT /\ ResultType(op.rop) = type

LEMMA PairTypes ==
  ASSUME NEW op \in ArithOp \cup RelOp
  PROVE  PairOf(QuadOpPair[op], IF op \in ArithOp THEN FLOAT ELSE INT)
  <1>1. {"IADD", "RADD", "ISUB", "RSUB", "IMLT", "RMLT", "IDIV", "RDIV", "IEQL", "REQL",
         "INQL", "RNQL", "ILSS", "RLSS", "IGRT", "RGRT"} \subseteq BinaryOp
    BY DEF BinaryOp, UnaryOp, ComputingOp, PlainOp, Op
  <1>2. \A i \in {"IADD", "ISUB", "IMLT", "IDIV", "IEQL", "INQL", "ILSS", "IGRT"} :
          OperandType(i) = INT /\ ResultType(i) = INT
    BY DEF OperandType, ResultType
  <1>3. \A r \in {"RADD", "RSUB", "RMLT", "RDIV"} : OperandType(r) = FLOAT /\ ResultType(r) = FLOAT
    BY DEF OperandType, ResultType
  <1>4. \A r \in {"REQL", "RNQL", "RLSS", "RGRT"} : OperandType(r) = FLOAT /\ ResultType(r) = INT
    BY DEF OperandType, ResultType
  <1>5. CASE op \in ArithOp
    <2>1. /\ QuadOpPair[op].iop \in {"IADD", "ISUB", "IMLT", "IDIV"}
          /\ QuadOpPair[op].rop \in {"RADD", "RSUB", "RMLT", "RDIV"}
      BY <1>5 DEF QuadOpPair, ArithOp
    <2> QED BY <1>1, <1>2, <1>3, <1>5, <2>1 DEF PairOf
  <1>6. CASE op \in RelOp
    <2>1. /\ QuadOpPair[op].iop \in {"IEQL", "INQL", "ILSS", "IGRT"}
          /\ QuadOpPair[op].rop \in {"REQL", "RNQL", "RLSS", "RGRT"}
      BY <1>6 DEF QuadOpPair, RelOp
    <2>2. op \notin ArithOp
      BY <1>6 DEF ArithOp, RelOp
    <2> QED BY <1>1, <1>2, <1>4, <2>1, <2>2 DEF PairOf
  <1> QED BY <1>5, <1>6

LEMMA PairGives ==
  ASSUME NEW typed \in BOOLEAN, NEW c \in QuadContext, Sound(c, typed), NEW op, NEW rtype \in AstType,
         PairOf(op, rtype), NEW l, Holds(c, l, typed), NEW r, Holds(c, r, typed),
         NEW type, type = IF quad_is_float(l, r) THEN rtype ELSE INT
  PROVE  LET v == quad_emit_pair(c, op, type, l, r) IN
         Gives(c, v, typed) /\ v.val.type = type /\ IsTemp(v.val.place)
  <1> DEFINE out == quad_tmp(c, type)
             n == c.temp_counter + 1
             fl == quad_to_float(out.ctx, l)
             fr == quad_to_float(fl.ctx, r)
             rv == Result(quad_emitf(fr.ctx, Quad(op.rop, <<out.val.place, fl.val.place, fr.val.place>>)), out.val)
             iv == Result(quad_emitf(out.ctx, Quad(op.iop, <<out.val.place, l.place, r.place>>)), out.val)
  <1>0. type \in AstType /\ n \in Nat /\ n > c.temp_counter
    BY ContextFields DEF AstType
  <1>1. /\ Grows(c, out.ctx, typed) /\ Fresh(out.ctx, n) /\ Sound(out.ctx, typed)
        /\ out.ctx \in QuadContext
        /\ out.val \in QuadValue /\ out.val.place = Temp(n)
        /\ out.val.type = type /\ IsTemp(out.val.place)
    BY <1>0, NewTempGrows
  <1>2. quad_emit_pair(c, op, type, l, r) = IF quad_is_float(l, r) THEN rv ELSE iv
    BY DEF quad_emit_pair
  <1> HIDE DEF out, n
  <1>3. Holds(out.ctx, l, typed) /\ Holds(out.ctx, r, typed)
    BY <1>1, HoldsKept
  <1>4. CASE quad_is_float(l, r)
    <2>1. Gives(out.ctx, fl, typed) /\ (~fl.ctx.error => fl.val.type = FLOAT)
      BY <1>1, <1>3, ToFloatGives
    <2> HIDE DEF fl
    <2>2. fl.ctx \in QuadContext /\ Sound(fl.ctx, typed) /\ Grows(out.ctx, fl.ctx, typed)
      BY <2>1 DEF Gives, Grows
    <2>3. Holds(fl.ctx, r, typed)
      BY <1>3, <2>2, HoldsKept
    <2>4. Gives(fl.ctx, fr, typed) /\ (~fr.ctx.error => fr.val.type = FLOAT)
      BY <2>2, <2>3, ToFloatGives
    <2> HIDE DEF fr
    <2>5. fr.ctx \in QuadContext /\ Grows(fl.ctx, fr.ctx, typed)
      BY <2>4 DEF Gives, Grows
    <2>6. Grows(out.ctx, fr.ctx, typed)
      BY <1>1, <2>2, <2>5, GrowsTransitive
    <2>7. Grows(c, fr.ctx, typed)
      BY <1>1, <2>5, <2>6, GrowsTransitive
    <2>8. Fresh(fr.ctx, n)
      BY <1>1, <2>6, FreshKept
    <2>9. /\ fl.val.place \in Place /\ fr.val.place \in Place
          /\ ~fr.ctx.error => /\ Known(fr.ctx, fl.val.place, FLOAT, typed)
                              /\ Known(fr.ctx, fr.val.place, FLOAT, typed)
      <3>1. Holds(fr.ctx, fl.val, typed) /\ Holds(fr.ctx, fr.val, typed)
        BY <2>1, <2>4, <2>5, HoldsKept DEF Gives
      <3>2. ~fr.ctx.error => fl.val.type = FLOAT
        BY <2>1, <2>5 DEF Grows
      <3> QED BY <2>4, <3>1, <3>2 DEF Holds, QuadValue
    <2>10. op.rop \in BinaryOp /\ OperandType(op.rop) = FLOAT /\ out.val.type = ResultType(op.rop)
      BY <1>1, <1>4 DEF PairOf
    <2>11. Gives(c, rv, typed)
      BY <1>0, <1>1, <2>7, <2>8, <2>9, <2>10, TempLineGives
    <2>12. rv.val = out.val
      BY DEF Result
    <2> QED BY <1>1, <1>2, <1>4, <2>11, <2>12
  <1>5. CASE ~quad_is_float(l, r)
    <2>1. l.type = INT /\ r.type = INT /\ l.place \in Place /\ r.place \in Place
      BY <1>5 DEF quad_is_float, Holds, QuadValue, AstType
    <2>2. ~out.ctx.error => /\ Known(out.ctx, l.place, INT, typed)
                            /\ Known(out.ctx, r.place, INT, typed)
      BY <1>3, <2>1 DEF Holds
    <2>3. op.iop \in BinaryOp /\ OperandType(op.iop) = INT /\ out.val.type = ResultType(op.iop)
      BY <1>1, <1>5 DEF PairOf
    <2>4. Gives(c, iv, typed)
      BY <1>0, <1>1, <2>1, <2>2, <2>3, TempLineGives
    <2>5. iv.val = out.val
      BY DEF Result
    <2> QED BY <1>1, <1>2, <1>5, <2>4, <2>5
  <1> QED BY <1>4, <1>5

LEMMA InverseGives ==
  ASSUME NEW typed \in BOOLEAN, NEW c \in QuadContext, Sound(c, typed), NEW op, PairOf(op, INT),
         NEW l, Holds(c, l, typed), NEW r, Holds(c, r, typed)
  PROVE  LET v == quad_emit_inverse(c, op, l, r) IN
         Gives(c, v, typed) /\ v.val.type = INT /\ IsTemp(v.val.place)
  <1> DEFINE b == quad_emit_cmp(c, op, l, r)
             v == quad_invert_bool(b.ctx, b.val)
  <1>1. Gives(c, b, typed) /\ b.val.type = INT
    BY PairGives DEF quad_emit_cmp, AstType
  <1>2. quad_emit_inverse(c, op, l, r) = v
    BY DEF quad_emit_inverse
  <1> HIDE DEF b
  <1>3. b.ctx \in QuadContext /\ Sound(b.ctx, typed) /\ Grows(c, b.ctx, typed) /\ Holds(b.ctx, b.val, typed)
    BY <1>1 DEF Gives, Grows
  <1>4. Gives(b.ctx, v, typed) /\ v.val.type = INT /\ IsTemp(v.val.place)
    BY <1>1, <1>3, InvertBoolGives
  <1> HIDE DEF v
  <1>5. Gives(c, v, typed)
    BY <1>3, <1>4, GivesTransitive
  <1> QED BY <1>2, <1>4, <1>5

LEMMA BoolGives ==
  ASSUME NEW typed \in BOOLEAN, NEW c \in QuadContext, Sound(c, typed),
         NEW l, Holds(c, l, typed), NEW r, Holds(c, r, typed),
         NEW v, v \in {quad_emit_or(c, l, r), quad_emit_and(c, l, r)}
  PROVE  Gives(c, v, typed) /\ v.val.type = INT /\ IsTemp(v.val.place)
  <1> DEFINE bl == quad_to_bool_int(c, l)
             br == quad_to_bool_int(bl.ctx, r)
             sum == EmitTemp(br.ctx, INT, "IADD", bl.val.place, br.val.place)
             or == EmitTemp(sum.ctx, INT, "IGRT", sum.val.place, Txt("0"))
             and == EmitTemp(br.ctx, INT, "IMLT", bl.val.place, br.val.place)
  <1>0. /\ {"IADD", "IGRT", "IMLT"} \subseteq BinaryOp /\ INT \in AstType
        /\ \A op \in {"IADD", "IGRT", "IMLT"} : OperandType(op) = INT /\ ResultType(op) = INT
    BY DEF BinaryOp, UnaryOp, ComputingOp, PlainOp, Op, AstType, OperandType, ResultType
  <1>1. quad_emit_or(c, l, r) = or /\ quad_emit_and(c, l, r) = and
    BY DEF quad_emit_or, quad_emit_and
  <1>2. Gives(c, bl, typed) /\ bl.val.type = INT
    BY ToBoolIntGives
  <1> HIDE DEF bl
  <1>3. /\ bl.ctx \in QuadContext /\ Sound(bl.ctx, typed) /\ Grows(c, bl.ctx, typed)
        /\ Holds(bl.ctx, bl.val, typed) /\ Holds(bl.ctx, r, typed)
    BY <1>2, HoldsKept DEF Gives, Grows
  <1>4. Gives(bl.ctx, br, typed) /\ br.val.type = INT
    BY <1>3, ToBoolIntGives
  <1> HIDE DEF br
  <1>5. /\ br.ctx \in QuadContext /\ Sound(br.ctx, typed) /\ Grows(c, br.ctx, typed)
        /\ Holds(br.ctx, bl.val, typed) /\ Holds(br.ctx, br.val, typed)
    BY <1>3, <1>4, HoldsKept, GivesTransitive DEF Gives, Grows
  <1>6. /\ bl.val.place \in Place /\ br.val.place \in Place
        /\ ~br.ctx.error => /\ Known(br.ctx, bl.val.place, INT, typed)
                            /\ Known(br.ctx, br.val.place, INT, typed)
    BY <1>2, <1>4, <1>5 DEF Holds, QuadValue
  <1>7. Gives(br.ctx, and, typed) /\ and.val.type = INT /\ IsTemp(and.val.place)
    BY <1>0, <1>5, <1>6, EmitTempGives
  <1>8. Gives(br.ctx, sum, typed) /\ sum.val.type = INT
    BY <1>0, <1>5, <1>6, EmitTempGives
  <1> HIDE DEF and, sum
  <1>9. /\ sum.ctx \in QuadContext /\ Sound(sum.ctx, typed) /\ Grows(br.ctx, sum.ctx, typed)
        /\ sum.val.place \in Place /\ (~sum.ctx.error => Known(sum.ctx, sum.val.place, INT, typed))
    BY <1>8 DEF Gives, Grows, Holds, QuadValue
  <1>10. Gives(sum.ctx, or, typed) /\ or.val.type = INT /\ IsTemp(or.val.place)
    BY <1>0, <1>9, ZeroPlaces, EmitTempGives
  <1> HIDE DEF or
  <1>11. Gives(c, and, typed) /\ Gives(c, or, typed)
    BY <1>5, <1>7, <1>9, <1>10, GivesTransitive
  <1> QED BY <1>1, <1>7, <1>10, <1>11

\* quad_emit_binary
LEMMA BinaryGives ==
  ASSUME NEW typed \in BOOLEAN, NEW c \in QuadContext, Sound(c, typed), ~c.error,
         NEW op \in ArithOp \cup RelOp \cup BoolOp,
         NEW l, Holds(c, l, typed), NEW r, Holds(c, r, typed)
  PROVE  LET v == quad_emit_binary(c, op, l, r) IN
         /\ Gives(c, v, typed)
         /\ v.val.type = IF op \in ArithOp /\ quad_is_float(l, r) THEN FLOAT ELSE INT
         /\ op \notin ArithOp => IsTemp(v.val.place)
  <1>0. INT \in AstType /\ FLOAT \in AstType
    BY DEF AstType
  <1>1. CASE op \in ArithOp
    <2>1. quad_emit_binary(c, op, l, r) = quad_emit_arith(c, QuadOpPair[op], l, r)
      BY <1>1 DEF quad_emit_binary, ArithOp
    <2>2. PairOf(QuadOpPair[op], FLOAT)
      BY <1>1, PairTypes
    <2> QED BY <1>0, <1>1, <2>1, <2>2, PairGives DEF quad_emit_arith
  <1>2. CASE op \in RelOp
    <2>1. op \notin ArithOp /\ PairOf(QuadOpPair[op], INT)
      BY <1>2, PairTypes DEF ArithOp, RelOp
    <2>2. CASE op \in {"EQ", "NE", "LT", "GT"}
      <3>1. quad_emit_binary(c, op, l, r) = quad_emit_cmp(c, QuadOpPair[op], l, r)
        BY <2>1, <2>2 DEF quad_emit_binary
      <3> QED BY <1>0, <2>1, <3>1, PairGives DEF quad_emit_cmp
    <2>3. CASE op \in {"GE", "LE"}
      <3>1. quad_emit_binary(c, op, l, r) = quad_emit_inverse(c, QuadOpPair[op], l, r)
        BY <2>1, <2>3 DEF quad_emit_binary
      <3> QED BY <2>1, <3>1, InverseGives
    <2> QED BY <1>2, <2>2, <2>3 DEF RelOp
  <1>3. CASE op \in BoolOp
    <2>1. op \notin ArithOp
      BY <1>3 DEF ArithOp, BoolOp
    <2>2. quad_emit_binary(c, op, l, r) \in {quad_emit_or(c, l, r), quad_emit_and(c, l, r)}
      BY <1>3 DEF quad_emit_binary, ArithOp, BoolOp
    <2> QED BY <2>1, <2>2, BoolGives
  <1> QED BY <1>1, <1>2, <1>3
(***************************************************************************)
(* The invariant.  "type" and "checked" are those of a typing of the       *)
(* program, and say something only where "typed" is true.                  *)
(***************************************************************************)

\* The tree whose value the activation of f waits for, if it does
Awaited(f) ==
  CASE f.fn = "statement" /\ f.pc \in {"assign", "output", "expression"} -> {f.node.expression}
    [] f.fn = "statement" /\ f.pc = "condition" -> {f.node.condition}
    [] f.fn = "expr" /\ f.pc = "operand" -> {f.node.operand}
    [] f.fn = "expr" /\ f.pc = "left" -> {f.node.left}
    [] f.fn = "expr" /\ f.pc = "right" -> {f.node.right}
    [] OTHER -> {}

IsTest(e) == e.kind = "NOT" \/ (e.kind = "BINARY" /\ e.op \notin ArithOp)

\* "v" is a value of the tree e
Yields(c, e, v, type, typed) ==
  /\ Known(c, v.place, v.type, typed)
  /\ typed => v.type = type[e] /\ (IsTest(e) => IsTemp(v.place))

\* What f keeps in "val" is still what it was
KeepsValue(c, f, type, typed) ==
  /\ f.fn = "expr" /\ f.pc = "right" => Yields(c, f.node.left, f.val, type, typed)
  /\ f.fn = "statement" /\ f.pc = "assign" =>
       /\ f.val.place = Txt(f.node.identifier)
       /\ f.node.identifier \in DOMAIN c.symbols /\ f.val.type = c.symbols[f.node.identifier]
  /\ f.fn = "statement" /\ f.pc \in {"cases", "case"} =>
       f.val.type = INT /\ Known(c, f.val.place, INT, typed)

\* The statements of f have passed the semantic check
FrameChecked(f, checked) ==
  /\ f.fn = "statement" => f.node \in checked \cup {NULL}
  /\ f.fn = "statement" /\ f.pc \in {"cases", "case"} => f.rest \in Seq(CaseOver(NumInt, checked))
  /\ f.fn = "list" => f.rest \in Seq(checked)

InFlight(type, checked, symbols, typed) ==
  /\ ctx.symbols = symbols
  /\ typed => TextsFit /\ Resolves(ctx.symbols, type) /\ Passes(ctx.symbols, type, checked)
  /\ Sound(ctx, typed)
  /\ stack # <<>> \/ rc = RUNNING => Unended(ctx)
  /\ \A k \in 1 .. depth - 1 : \A e \in Awaited(stack[k]) :
       stack[k + 1].fn = "expr" /\ stack[k + 1].node = e
  /\ ~ctx.error =>
       /\ stack # <<>> => \A e \in Awaited(top) : Yields(ctx, e, ret, type, typed)
       /\ \A k \in 1 .. depth : KeepsValue(ctx, stack[k], type, typed)
  /\ typed => \A k \in 1 .. depth : FrameChecked(stack[k], checked)

LEMMA YieldsKept ==
  ASSUME NEW typed, NEW type, NEW c, NEW d, Grows(c, d, typed), NEW e, NEW v,
         Yields(c, e, v, type, typed)
  PROVE  Yields(d, e, v, type, typed)
  BY KnownKept DEF Yields

LEMMA ValueKept ==
  ASSUME NEW typed, NEW type, NEW c, NEW d, Grows(c, d, typed), NEW f, KeepsValue(c, f, type, typed)
  PROVE  KeepsValue(d, f, type, typed)
  <1>1. d.symbols = c.symbols
    BY DEF Grows
  <1> QED BY <1>1, KnownKept, YieldsKept DEF KeepsValue

LEMMA EnteringAwaits ==
  ASSUME NEW typed, NEW type, NEW c, NEW f, f.pc = "enter"
  PROVE  Awaited(f) = {} /\ KeepsValue(c, f, type, typed)
  BY DEF Awaited, KeepsValue

\* What is true of the frames below the top before a step is true after it
LEMMA BelowKept ==
  ASSUME NEW type, NEW checked, NEW symbols, NEW typed \in BOOLEAN, TypeOK, stack # <<>>,
         InFlight(type, checked, symbols, typed), Grows(ctx, ctx', typed)
  PROVE  /\ typed => TextsFit /\ Resolves(ctx'.symbols, type) /\ Passes(ctx'.symbols, type, checked)
         /\ ctx'.symbols = symbols
         /\ Sound(ctx', typed) /\ Unended(ctx') /\ (~ctx'.error => ~ctx.error)
         /\ depth \in Nat \ {0}
         /\ \A k \in 1 .. depth - 2 : \A e \in Awaited(stack[k]) :
              stack[k + 1].fn = "expr" /\ stack[k + 1].node = e
         /\ depth > 1 => \A e \in Awaited(stack[depth - 1]) : top.fn = "expr" /\ top.node = e
         /\ ~ctx'.error => \A k \in 1 .. depth : KeepsValue(ctx', stack[k], type, typed)
         /\ typed => \A k \in 1 .. depth : FrameChecked(stack[k], checked)
  <1>1. depth \in Nat \ {0} /\ top = stack[depth] /\ ctx \in QuadContext
    BY TopFrame DEF TypeOK, top
  <1>2. /\ ctx'.symbols = ctx.symbols /\ Sound(ctx', typed) /\ (~ctx'.error => ~ctx.error)
        /\ Unended(ctx')
    BY DEF Grows, InFlight
  <1>3. /\ \A k \in 1 .. depth - 2 : \A e \in Awaited(stack[k]) :
             stack[k + 1].fn = "expr" /\ stack[k + 1].node = e
        /\ depth > 1 => \A e \in Awaited(stack[depth - 1]) : top.fn = "expr" /\ top.node = e
    <2>1. \A k \in 1 .. depth - 2 : k \in 1 .. depth - 1
      BY <1>1
    <2>2. depth > 1 => depth - 1 \in 1 .. depth - 1 /\ depth - 1 + 1 = depth
      BY <1>1
    <2> QED BY <1>1, <2>1, <2>2 DEF InFlight
  <1>4. ~ctx'.error => \A k \in 1 .. depth : KeepsValue(ctx', stack[k], type, typed)
    BY <1>2, ValueKept DEF InFlight
  <1> QED BY <1>1, <1>2, <1>3, <1>4 DEF InFlight

\* What must be true of the activations after a step
LEMMA InFlightNext ==
  ASSUME NEW type, NEW checked, NEW symbols, NEW typed \in BOOLEAN,
         typed => TextsFit /\ Resolves(ctx'.symbols, type) /\ Passes(ctx'.symbols, type, checked),
         ctx'.symbols = symbols, Sound(ctx', typed), Unended(ctx'),
         \A k \in 1 .. Len(stack') - 1 : \A e \in Awaited(stack'[k]) :
           stack'[k + 1].fn = "expr" /\ stack'[k + 1].node = e,
         ~ctx'.error => \A k \in 1 .. Len(stack') : KeepsValue(ctx', stack'[k], type, typed),
         typed => \A k \in 1 .. Len(stack') : FrameChecked(stack'[k], checked),
         stack' # <<>> /\ ~ctx'.error =>
           \A e \in Awaited(stack'[Len(stack')]) : Yields(ctx', e, ret', type, typed)
  PROVE  InFlight(type, checked, symbols, typed)'
  BY DEF InFlight, depth, top

\* A call.  f awaits the value of g, or none
LEMMA OperandCall ==
  ASSUME NEW type, NEW checked, NEW symbols, NEW typed \in BOOLEAN, TypeOK, stack # <<>>,
         InFlight(type, checked, symbols, typed), Grows(ctx, ctx', typed),
         NEW f \in AnyFrame, NEW g \in AnyFrame, Call(f, g), g.pc = "enter",
         \A e \in Awaited(f) : g.fn = "expr" /\ g.node = e,
         f.fn = top.fn, f.node = top.node,
         ~ctx'.error => KeepsValue(ctx', f, type, typed),
         typed => FrameChecked(f, checked) /\ FrameChecked(g, checked)
  PROVE  InFlight(type, checked, symbols, typed)'
  <1>1. depth \in Nat \ {0} /\ Len(stack') = depth + 1
        /\ stack'[depth] = f /\ stack'[depth + 1] = g
        /\ \A k \in 1 .. depth - 1 : stack'[k] = stack[k]
    BY TopFrame, CallStack
  <1>2. Awaited(g) = {} /\ KeepsValue(ctx', g, type, typed)
    BY EnteringAwaits
  <1>3. ASSUME NEW k \in 1 .. depth, NEW e \in Awaited(stack'[k])
        PROVE  stack'[k + 1].fn = "expr" /\ stack'[k + 1].node = e
    <2>1. CASE k \in 1 .. depth - 2
      <3>1. k \in 1 .. depth - 1 /\ k + 1 \in 1 .. depth - 1
        BY <1>1, <2>1
      <3>2. \A x \in Awaited(stack[k]) : stack[k + 1].fn = "expr" /\ stack[k + 1].node = x
        BY <2>1, BelowKept
      <3>3. stack'[k] = stack[k] /\ stack'[k + 1] = stack[k + 1]
        BY <1>1, <3>1
      <3> QED BY <1>3, <3>2, <3>3
    <2>2. CASE k = depth - 1
      BY <1>1, <1>3, <2>2, BelowKept
    <2>3. CASE k = depth
      BY <1>1, <1>3, <2>3
    <2> QED BY <1>1, <2>1, <2>2, <2>3
  <1>4. ASSUME NEW k \in 1 .. depth + 1
        PROVE  /\ ~ctx'.error => KeepsValue(ctx', stack'[k], type, typed)
               /\ typed => FrameChecked(stack'[k], checked)
    <2>1. CASE k \in 1 .. depth - 1
      BY <1>1, <2>1, BelowKept
    <2>2. CASE k \in {depth, depth + 1}
      BY <1>1, <1>2, <2>2
    <2> QED BY <1>1, <2>1, <2>2
  <1>5. /\ Len(stack') - 1 = depth
        /\ stack'[Len(stack')] = g
    BY <1>1
  <1>6. /\ \A k \in 1 .. Len(stack') - 1 : \A e \in Awaited(stack'[k]) :
             stack'[k + 1].fn = "expr" /\ stack'[k + 1].node = e
        /\ ~ctx'.error => \A k \in 1 .. Len(stack') : KeepsValue(ctx', stack'[k], type, typed)
        /\ typed => \A k \in 1 .. Len(stack') : FrameChecked(stack'[k], checked)
    BY <1>1, <1>3, <1>4, <1>5
  <1>7. /\ typed => TextsFit /\ Resolves(ctx'.symbols, type) /\ Passes(ctx'.symbols, type, checked)
        /\ ctx'.symbols = symbols /\ Sound(ctx', typed) /\ Unended(ctx')
    BY BelowKept
  <1>8. \A e \in Awaited(stack'[Len(stack')]) : Yields(ctx', e, ret', type, typed)
    BY <1>2, <1>5
  <1> QED BY <1>6, <1>7, <1>8, InFlightNext

\* A step inside of an activation that awaits nothing
LEMMA OperandStay ==
  ASSUME NEW type, NEW checked, NEW symbols, NEW typed \in BOOLEAN, TypeOK, stack # <<>>,
         InFlight(type, checked, symbols, typed), Grows(ctx, ctx', typed),
         NEW f \in AnyFrame, Stay(f), Awaited(f) = {}, f.fn = top.fn, f.node = top.node,
         ~ctx'.error => KeepsValue(ctx', f, type, typed), typed => FrameChecked(f, checked)
  PROVE  InFlight(type, checked, symbols, typed)'
  <1>1. depth \in Nat \ {0} /\ Len(stack') = depth /\ stack'[depth] = f
        /\ \A k \in 1 .. depth - 1 : stack'[k] = stack[k]
    BY TopFrame, StayStack
  <1>2. ASSUME NEW k \in 1 .. depth - 1, NEW e \in Awaited(stack'[k])
        PROVE  stack'[k + 1].fn = "expr" /\ stack'[k + 1].node = e
    <2>1. CASE k \in 1 .. depth - 2
      <3>1. k \in 1 .. depth - 1 /\ k + 1 \in 1 .. depth - 1
        BY <1>1, <2>1
      <3>2. \A x \in Awaited(stack[k]) : stack[k + 1].fn = "expr" /\ stack[k + 1].node = x
        BY <2>1, BelowKept
      <3>3. stack'[k] = stack[k] /\ stack'[k + 1] = stack[k + 1]
        BY <1>1, <3>1
      <3> QED BY <1>2, <3>2, <3>3
    <2>2. CASE k = depth - 1
      BY <1>1, <1>2, <2>2, BelowKept
    <2> QED BY <1>1, <2>1, <2>2
  <1>3. ASSUME NEW k \in 1 .. depth
        PROVE  /\ ~ctx'.error => KeepsValue(ctx', stack'[k], type, typed)
               /\ typed => FrameChecked(stack'[k], checked)
    <2>1. CASE k \in 1 .. depth - 1
      BY <1>1, <2>1, BelowKept
    <2>2. CASE k = depth
      BY <1>1, <2>2
    <2> QED BY <1>1, <2>1, <2>2
  <1>4. stack'[Len(stack')] = f
    BY <1>1
  <1>5. /\ \A k \in 1 .. Len(stack') - 1 : \A e \in Awaited(stack'[k]) :
             stack'[k + 1].fn = "expr" /\ stack'[k + 1].node = e
        /\ ~ctx'.error => \A k \in 1 .. Len(stack') : KeepsValue(ctx', stack'[k], type, typed)
        /\ typed => \A k \in 1 .. Len(stack') : FrameChecked(stack'[k], checked)
    BY <1>1, <1>2, <1>3
  <1>6. /\ typed => TextsFit /\ Resolves(ctx'.symbols, type) /\ Passes(ctx'.symbols, type, checked)
        /\ ctx'.symbols = symbols /\ Sound(ctx', typed) /\ Unended(ctx')
    BY BelowKept
  <1>7. \A e \in Awaited(stack'[Len(stack')]) : Yields(ctx', e, ret', type, typed)
    BY <1>4
  <1> QED BY <1>5, <1>6, <1>7, InFlightNext

\* A return: of quad_emit_expr with the value that the activation below awaits
LEMMA OperandReturn ==
  ASSUME NEW type, NEW checked, NEW symbols, NEW typed \in BOOLEAN, TypeOK, stack # <<>>,
         InFlight(type, checked, symbols, typed), Grows(ctx, ctx', typed), NEW v, Return(v),
         top.fn = "expr" /\ ~ctx'.error => Yields(ctx', top.node, v, type, typed)
  PROVE  InFlight(type, checked, symbols, typed)'
  <1>1. depth \in Nat \ {0} /\ Len(stack') = depth - 1 /\ ret' = v
        /\ \A k \in 1 .. depth - 1 : stack'[k] = stack[k]
    BY TopFrame, ReturnStack
  <1>2. ASSUME NEW k \in 1 .. depth - 2, NEW e \in Awaited(stack'[k])
        PROVE  stack'[k + 1].fn = "expr" /\ stack'[k + 1].node = e
    <2>1. k \in 1 .. depth - 1 /\ k + 1 \in 1 .. depth - 1
      BY <1>1
    <2>2. \A x \in Awaited(stack[k]) : stack[k + 1].fn = "expr" /\ stack[k + 1].node = x
      BY BelowKept
    <2>3. stack'[k] = stack[k] /\ stack'[k + 1] = stack[k + 1]
      BY <1>1, <2>1
    <2> QED BY <1>2, <2>2, <2>3
  <1>3. ASSUME NEW k \in 1 .. depth - 1
        PROVE  /\ ~ctx'.error => KeepsValue(ctx', stack'[k], type, typed)
               /\ typed => FrameChecked(stack'[k], checked)
    <2>1. k \in 1 .. depth
      BY <1>1
    <2> QED BY <1>1, <2>1, BelowKept
  <1>4. ASSUME stack' # <<>>, ~ctx'.error, NEW e \in Awaited(stack'[depth - 1])
        PROVE  Yields(ctx', e, v, type, typed)
    <2>1. depth > 1
      <3>1. stack' \in Seq(AnyFrame)
        BY ReturnStack
      <3> QED BY <1>1, <1>4, <3>1
    <2>2. stack'[depth - 1] = stack[depth - 1]
      BY <1>1, <2>1
    <2> QED BY <1>4, <2>1, <2>2, BelowKept
  <1>5. Len(stack') - 1 = depth - 2
    BY <1>1
  <1>6. /\ \A k \in 1 .. Len(stack') - 1 : \A e \in Awaited(stack'[k]) :
             stack'[k + 1].fn = "expr" /\ stack'[k + 1].node = e
        /\ ~ctx'.error => \A k \in 1 .. Len(stack') : KeepsValue(ctx', stack'[k], type, typed)
        /\ typed => \A k \in 1 .. Len(stack') : FrameChecked(stack'[k], checked)
    BY <1>1, <1>2, <1>3, <1>5
  <1>7. stack' # <<>> /\ ~ctx'.error =>
          \A e \in Awaited(stack'[Len(stack')]) : Yields(ctx', e, ret', type, typed)
    BY <1>1, <1>4
  <1>8. /\ typed => TextsFit /\ Resolves(ctx'.symbols, type) /\ Passes(ctx'.symbols, type, checked)
        /\ ctx'.symbols = symbols /\ Sound(ctx', typed) /\ Unended(ctx')
    BY BelowKept
  <1> QED BY <1>6, <1>7, <1>8, InFlightNext

(***************************************************************************)
(* The helpers that compute nothing                                        *)
(***************************************************************************)

LEMMA SameFileGrows ==
  ASSUME NEW typed, NEW c \in QuadContext, Sound(c, typed), NEW d \in QuadContext,
         d.out = c.out, d.symbols = c.symbols, d.temp_counter = c.temp_counter, c.error => d.error
  PROVE  Grows(c, d, typed)
  <1>1. c.temp_counter \in Nat
    BY ContextFields
  <1>2. Sound(d, typed)
    BY DEF Sound, LineTyped, Known
  <1> QED BY <1>1, <1>2 DEF Grows, Unended

LEMMA NewLabelGrows ==
  ASSUME NEW typed, NEW c \in QuadContext, Sound(c, typed)
  PROVE  Grows(c, quad_new_label(c), typed)
  <1> DEFINE d == quad_new_label(c)
  <1>1. /\ d \in QuadContext /\ d.out = c.out /\ d.symbols = c.symbols
        /\ d.temp_counter = c.temp_counter /\ d.error = c.error
    BY DEF quad_new_label, QuadContext
  <1> HIDE DEF d
  <1>2. Grows(c, d, typed)
    BY <1>1, SameFileGrows
  <1> QED BY <1>2 DEF d

LEMMA BreakLabelsGrow ==
  ASSUME NEW typed, NEW c \in QuadContext, Sound(c, typed), NEW k \in Nat
  PROVE  Grows(c, quad_push_break(c, k), typed) /\ Grows(c, quad_pop_break(c), typed)
  <1> DEFINE d == quad_push_break(c, k)
             e == quad_pop_break(c)
  <1>1. d \in QuadContext /\ e \in QuadContext
    BY PushBreak, PopBreak DEF Pushes, Pops
  <1>2. /\ d.out = c.out /\ d.symbols = c.symbols
        /\ d.temp_counter = c.temp_counter /\ (c.error => d.error)
    BY DEF quad_push_break, QuadContext
  <1>3. /\ e.out = c.out /\ e.symbols = c.symbols
        /\ e.temp_counter = c.temp_counter /\ (c.error => e.error)
    BY DEF quad_pop_break, QuadContext
  <1> HIDE DEF d, e
  <1>4. Grows(c, d, typed) /\ Grows(c, e, typed)
    BY <1>1, <1>2, <1>3, SameFileGrows
  <1> QED BY <1>4 DEF d, e

LEMMA ErrorGrows ==
  ASSUME NEW typed, NEW c \in QuadContext, Sound(c, typed)
  PROVE  Grows(c, [c EXCEPT !.error = TRUE], typed)
  <1> DEFINE d == [c EXCEPT !.error = TRUE]
  <1>1. /\ d \in QuadContext /\ d.out = c.out /\ d.symbols = c.symbols
        /\ d.temp_counter = c.temp_counter /\ d.error
    BY DEF QuadContext
  <1> HIDE DEF d
  <1>2. Grows(c, d, typed)
    BY <1>1, SameFileGrows
  <1> QED BY <1>2 DEF d

LEMMA SymbolTypeGrows ==
  ASSUME NEW typed, NEW c \in QuadContext, Sound(c, typed), NEW name
  PROVE  LET t == quad_symbol_type(c, name) IN
         /\ Grows(c, t.ctx, typed) /\ t.type \in AstType
         /\ ~t.ctx.error => name \in DOMAIN t.ctx.symbols /\ t.type = t.ctx.symbols[name]
  <1>1. CASE name \in DOMAIN c.symbols
    BY <1>1, SymbolType, GrowsReflexive DEF quad_symbol_type
  <1>2. CASE name \notin DOMAIN c.symbols
    <2>1. [c EXCEPT !.error = TRUE].error
      BY DEF QuadContext
    <2> QED BY <1>2, <2>1, SymbolType, ErrorGrows DEF quad_symbol_type
  <1> QED BY <1>1, <1>2

\* Labels and jumps have no operands
LEMMA LabelGrows ==
  ASSUME NEW typed \in BOOLEAN, NEW c \in QuadContext, Sound(c, typed), NEW l \in Nat
  PROVE  Grows(c, quad_emitf(c, LABEL(l)), typed) /\ Grows(c, quad_emitf(c, JUMP(l)), typed)
  <1>1. ASSUME NEW line \in {LABEL(l), JUMP(l)}
        PROVE  /\ line \in Line /\ ~Computes(line) /\ ~ComputesTemp(line)
               /\ Sources(line) = {} /\ line.op # "JMPZ" /\ line.op \notin Ending
               /\ Len(line.args) = Arity(line.op)
    <2>1. line \in Line /\ line.op \in {"LABEL", "JUMP"} /\ line.args = <<>>
      <3>1. CASE line = LABEL(l)
        BY <3>1 DEF LABEL, Line, Op
      <3>2. CASE line = JUMP(l)
        BY <3>2 DEF JUMP, Line, Op
      <3> QED BY <3>1, <3>2
    <2>2. ~Computes(line)
      BY <2>1 DEF Computes
    <2>3. DOMAIN line.args = {}
      BY <2>1
    <2> QED BY <2>1, <2>2, <2>3 DEF ComputesTemp, Sources, Ending, Arity
  <1>2. ASSUME NEW line \in {LABEL(l), JUMP(l)} PROVE Reads(c, line, typed)
    BY <1>1 DEF Reads
  <1> QED BY <1>1, <1>2, EmitGrows

\* A value that is tested
LEMMA JmpzGrows ==
  ASSUME NEW typed \in BOOLEAN, NEW c \in QuadContext, Sound(c, typed), NEW l \in Nat,
         NEW p \in Place, ~c.error => Known(c, p, INT, typed), ~c.error /\ typed => IsTemp(p)
  PROVE  Grows(c, quad_emitf(c, JMPZ(l, p)), typed)
  <1> DEFINE line == JMPZ(l, p)
  <1>1. line \in Line /\ line.op = "JMPZ" /\ line.args = <<p>>
    BY DEF JMPZ, Line, Op
  <1> HIDE DEF line
  <1>2. /\ ~Computes(line) /\ ~ComputesTemp(line) /\ Sources(line) \subseteq {p} /\ line.args[1] = p
        /\ Len(line.args) = Arity(line.op) /\ line.op \notin Ending
    <2>1. DOMAIN line.args = {1} /\ line.args[1] = p
      BY <1>1
    <2> QED BY <1>1, <2>1 DEF Computes, ComputesTemp, Sources, Arity, Ending
  <1>3. OperandType("JMPZ") = INT /\ INT \in AstType
    BY DEF OperandType, AstType
  <1>4. ~c.error => Reads(c, line, typed)
    BY <1>1, <1>2, <1>3 DEF Reads
  <1>5. Grows(c, quad_emitf(c, line), typed)
    BY <1>1, <1>2, <1>4, EmitGrows
  <1> QED BY <1>5 DEF line

(***************************************************************************)
(* One lemma per action: it keeps the invariant.                           *)
(***************************************************************************)

\* What the activation on top keeps and awaits
LEMMA TopInFlight ==
  ASSUME NEW type, NEW checked, NEW symbols, NEW typed \in BOOLEAN, TypeOK, stack # <<>>,
         InFlight(type, checked, symbols, typed)
  PROVE  /\ ctx \in QuadContext /\ Sound(ctx, typed) /\ ret \in QuadValue
         /\ ~ctx.error => KeepsValue(ctx, top, type, typed)
         /\ ~ctx.error => \A e \in Awaited(top) : Yields(ctx, e, ret, type, typed)
         /\ Awaited(top) # {} => Holds(ctx, ret, typed)
         /\ typed => /\ TextsFit /\ Resolves(ctx.symbols, type) /\ Passes(ctx.symbols, type, checked)
                     /\ FrameChecked(top, checked)
  <1>1. depth \in 1 .. depth /\ top = stack[depth]
    BY TopFrame DEF top
  <1>2. ctx \in QuadContext /\ ret \in QuadValue
    BY DEF TypeOK
  <1>3. Sound(ctx, typed) /\ (~ctx.error => KeepsValue(ctx, top, type, typed))
        /\ (~ctx.error => \A e \in Awaited(top) : Yields(ctx, e, ret, type, typed))
    BY <1>1 DEF InFlight
  <1>4. Awaited(top) # {} => Holds(ctx, ret, typed)
    BY <1>2, <1>3 DEF Yields, Holds
  <1>5. typed => FrameChecked(top, checked)
    BY <1>1 DEF InFlight
  <1> QED BY <1>2, <1>3, <1>4, <1>5 DEF InFlight
LEMMA NewFramesChecked ==
  ASSUME NEW checked
  PROVE  /\ \A s \in checked \cup {NULL} :
              FrameChecked(Stmt(s), checked) /\ Stmt(s).pc = "enter"
         /\ \A list \in Seq(checked) : FrameChecked(List(list), checked) /\ List(list).pc = "enter"
         /\ \A e : FrameChecked(Expr(e), checked) /\ Expr(e).pc = "enter"
                   /\ Expr(e).fn = "expr" /\ Expr(e).node = e
  BY DEF FrameChecked, Stmt, List, Expr, Frame

\* A call from a statement that keeps no value
LEMMA StatementCall ==
  ASSUME NEW type, NEW checked, NEW symbols, NEW typed \in BOOLEAN, TypeOK, stack # <<>>,
         InFlight(type, checked, symbols, typed), Grows(ctx, ctx', typed), top.fn = "statement",
         NEW f \in AnyFrame, NEW g \in AnyFrame, Call(f, g), g.pc = "enter",
         f.fn = "statement", f.node = top.node, f.pc \notin {"assign", "cases", "case"},
         \A e \in Awaited(f) : g.fn = "expr" /\ g.node = e, typed => FrameChecked(g, checked)
  PROVE  InFlight(type, checked, symbols, typed)'
  <1>1. KeepsValue(ctx', f, type, typed)
    BY DEF KeepsValue
  <1>2. typed => FrameChecked(f, checked)
    <2>1. typed => FrameChecked(top, checked)
      BY TopInFlight
    <2> QED BY <2>1 DEF FrameChecked
  <1> QED BY <1>1, <1>2, OperandCall

\* A return from a statement or a list
LEMMA StatementReturn ==
  ASSUME NEW type, NEW checked, NEW symbols, NEW typed \in BOOLEAN, TypeOK, stack # <<>>,
         InFlight(type, checked, symbols, typed), Grows(ctx, ctx', typed), top.fn # "expr",
         NEW v, Return(v)
  PROVE  InFlight(type, checked, symbols, typed)'
  BY OperandReturn

\* The node of a statement on top has passed the check
LEMMA TopChecked ==
  ASSUME NEW type, NEW checked, NEW symbols, TypeOK, stack # <<>>, InFlight(type, checked, symbols, TRUE),
         top.fn = "statement", top.node \in Statement
  PROVE  top.node \in checked
  <1>1. \A s \in Statement : s # NULL
    <2> SUFFICES ASSUME NEW s \in Statement PROVE s.kind # "NULL"
      BY DEF NULL
    <2>1. s \in StatementOver(Id, NumInt, Expression, Condition, Statement)
      BY TreeAssumption
    <2> QED BY <2>1 DEF StatementOver
  <1> QED BY <1>1, TopInFlight DEF FrameChecked

LEMMA StatementSkipInFlight ==
  ASSUME NEW type, NEW checked, NEW symbols, NEW typed \in BOOLEAN, TypeOK,
         InFlight(type, checked, symbols, typed),
         StatementSkip
  PROVE  InFlight(type, checked, symbols, typed)'
  <1>1. stack # <<>> /\ top.fn = "statement" /\ Return(NoValue) /\ ctx' = ctx
    BY DEF StatementSkip, At, Silent
  <1>2. Grows(ctx, ctx', typed)
    BY <1>1, TopInFlight, GrowsReflexive
  <1> QED BY <1>1, <1>2, StatementReturn

LEMMA AssignExpressionInFlight ==
  ASSUME NEW type, NEW checked, NEW symbols, NEW typed \in BOOLEAN, TypeOK,
         InFlight(type, checked, symbols, typed),
         AssignExpression
  PROVE  InFlight(type, checked, symbols, typed)'
  <1> DEFINE id == top.node.identifier
             dst == quad_symbol_type(ctx, id)
             f == [top EXCEPT !.pc = "assign", !.val = Value(dst.type, Txt(id))]
             g == Expr(top.node.expression)
  <1>1. AtNode("statement", {"ASSIGN"}, "enter") /\ ctx' = dst.ctx /\ Call(f, g)
    BY DEF AssignExpression, Enter
  <1>2. stack # <<>> /\ top \in StatementFrame /\ top.node \in Statement /\ top.node.kind = "ASSIGN"
        /\ top.fn = "statement"
    BY <1>1, TopStatement
  <1>3. /\ Grows(ctx, ctx', typed) /\ dst.type \in AstType
        /\ ~ctx'.error => id \in DOMAIN ctx'.symbols /\ dst.type = ctx'.symbols[id]
    BY <1>1, <1>2, TopInFlight, SymbolTypeGrows
  <1>4. id \in Id /\ g \in AnyFrame
    BY <1>2, StatementNode, NewFrames DEF AnyFrame
  <1>5. typed => FrameChecked(top, checked)
    BY <1>2, TopInFlight
  <1> HIDE DEF top, dst
  <1>6. /\ f \in StatementFrame /\ f.fn = "statement" /\ f.pc = "assign" /\ f.node = top.node
        /\ f.val = Value(dst.type, Txt(id))
    <2>1. Value(dst.type, Txt(id)) \in QuadValue
      BY <1>3, <1>4 DEF QuadValue, Value, Txt, Place, Text
    <2> QED BY <1>2, <2>1 DEF StatementFrame, FrameOf, StatementPc
  <1> HIDE DEF f
  <1>7. ~ctx'.error => KeepsValue(ctx', f, type, typed)
    BY <1>3, <1>6 DEF KeepsValue, Value
  <1>8. Awaited(f) = {top.node.expression}
    BY <1>6 DEF Awaited
  <1>9. typed => FrameChecked(f, checked)
    BY <1>2, <1>5, <1>6 DEF FrameChecked
  <1>10. /\ g.pc = "enter" /\ FrameChecked(g, checked)
         /\ \A e \in Awaited(f) : g.fn = "expr" /\ g.node = e
    BY <1>8, NewFramesChecked
  <1> HIDE DEF g
  <1>11. f \in AnyFrame
    BY <1>6 DEF AnyFrame
  <1> QED BY <1>1, <1>2, <1>3, <1>4, <1>6, <1>7, <1>9, <1>10, <1>11, OperandCall

LEMMA AssignInFlight ==
  ASSUME NEW type, NEW checked, NEW symbols, NEW typed \in BOOLEAN, TypeOK,
         InFlight(type, checked, symbols, typed),
         Assign
  PROVE  InFlight(type, checked, symbols, typed)'
  <1> DEFINE e == top.node.expression
             id == top.node.identifier
             dst == top.val
             src == IF dst.type = FLOAT /\ ret.type = INT THEN quad_to_float(ctx, ret)
                    ELSE Result(ctx, ret)
             op == IF dst.type = INT THEN "IASN" ELSE "RASN"
             line == Quad(op, <<dst.place, src.val.place>>)
  <1>1. /\ AtNode("statement", {"ASSIGN"}, "assign") /\ Return(NoValue)
        /\ ctx' = IF ctx.error THEN ctx ELSE quad_emitf(src.ctx, line)
    BY DEF Assign, Resume
  <1>2. stack # <<>> /\ top \in StatementFrame /\ top.node \in Statement /\ top.node.kind = "ASSIGN"
        /\ top.fn = "statement" /\ top.pc = "assign" /\ ctx \in QuadContext /\ ret \in QuadValue
    BY <1>1, TopStatement
  <1>3. Awaited(top) = {e}
    BY <1>2 DEF Awaited
  <1>4. Sound(ctx, typed) /\ Holds(ctx, ret, typed)
    BY <1>2, <1>3, TopInFlight
  <1>5. CASE ctx.error
    BY <1>1, <1>2, <1>4, <1>5, GrowsReflexive, StatementReturn
  <1>6. CASE ~ctx.error
    <2>1. /\ typed => ret.type = type[e]
          /\ dst.place = Txt(id) /\ id \in DOMAIN ctx.symbols /\ dst.type = ctx.symbols[id]
      BY <1>2, <1>3, <1>6, TopInFlight DEF Yields, KeepsValue
    <2>2. typed /\ dst.type = INT => ret.type = INT
      <3>1. typed => top.node \in checked /\ Passes(ctx.symbols, type, checked)
        BY <1>2, TopChecked, TopInFlight
      <3> QED BY <1>2, <2>1, <3>1 DEF Passes
    <2>3. dst.type \in {INT, FLOAT} /\ ret.type \in {INT, FLOAT} /\ id \in Id /\ Txt(id) \in Place
      <3>1. dst \in QuadValue
        BY <1>2 DEF StatementFrame, FrameOf
      <3>2. id \in Id
        BY <1>2, StatementNode
      <3> QED BY <1>2, <3>1, <3>2 DEF QuadValue, AstType, Txt, Place, Text
    <2> HIDE DEF top
    <2>4. /\ Gives(ctx, src, typed)
          /\ ~src.ctx.error /\ typed => src.val.type = dst.type
      <3>1. CASE dst.type = FLOAT /\ ret.type = INT
        <4>1. src = quad_to_float(ctx, ret)
          BY <3>1
        <4> QED BY <1>2, <1>4, <3>1, <4>1, ToFloatGives
      <3>2. CASE ~(dst.type = FLOAT /\ ret.type = INT)
        <4>1. src.ctx = ctx /\ src.val = ret
          BY <3>2 DEF Result
        <4>2. Grows(ctx, ctx, typed)
          BY <1>2, <1>4, GrowsReflexive
        <4> QED BY <1>4, <2>2, <2>3, <3>2, <4>1, <4>2 DEF Gives
      <3> QED BY <3>1, <3>2
    <2>5. /\ op \in UnaryOp /\ OperandType(op) = dst.type /\ ResultType(op) = dst.type
      BY <2>3 DEF UnaryOp, OperandType, ResultType
    <2> HIDE DEF src, op
    <2>6. /\ src.ctx \in QuadContext /\ Sound(src.ctx, typed) /\ Grows(ctx, src.ctx, typed)
          /\ src.val \in QuadValue /\ src.val.place \in Place /\ src.val.type \in AstType
          /\ ~src.ctx.error => Known(src.ctx, src.val.place, src.val.type, typed)
          /\ src.ctx.symbols = ctx.symbols
      BY <2>4 DEF Gives, Grows, Holds, QuadValue
    <2>7. /\ line \in Line /\ Computes(line) /\ line.op = op /\ Len(line.args) = Arity(op)
          /\ Target(line) = Txt(id) /\ Sources(line) \subseteq {src.val.place}
      BY <2>1, <2>3, <2>5, <2>6, UnaryLine
    <2> HIDE DEF line
    <2>8. ~ComputesTemp(line) /\ op # "JMPZ" /\ op \notin Ending /\ Target(line).text = id
      BY <2>5, <2>7 DEF ComputesTemp, IsTemp, Txt, UnaryOp, Ending
    <2>9. ~src.ctx.error => Reads(src.ctx, line, typed)
      <3>1. typed => TextHasType(src.ctx.symbols, id, dst.type)
        BY <2>1, <2>3, <2>6 DEF TextHasType
      <3> QED BY <2>3, <2>4, <2>5, <2>6, <2>7, <2>8, <3>1 DEF Reads
    <2>10. Grows(src.ctx, ctx', typed)
      BY <1>1, <1>6, <2>3, <2>6, <2>7, <2>8, <2>9, EmitGrows
    <2>11. ctx' \in QuadContext
      BY <2>10 DEF Grows
    <2>12. Grows(ctx, ctx', typed)
      BY <1>2, <2>6, <2>10, <2>11, GrowsTransitive
    <2> QED BY <1>1, <1>2, <2>12, StatementReturn
  <1>7. ctx.error \in BOOLEAN
    BY <1>2, ContextFields
  <1> QED BY <1>5, <1>6, <1>7
LEMMA InputInFlight ==
  ASSUME NEW type, NEW checked, NEW symbols, NEW typed \in BOOLEAN, TypeOK,
         InFlight(type, checked, symbols, typed),
         Input
  PROVE  InFlight(type, checked, symbols, typed)'
  <1> DEFINE id == top.node.identifier
             t == quad_symbol_type(ctx, id)
             op == IF t.type = INT THEN "IINP" ELSE "RINP"
             line == Quad(op, <<Txt(id)>>)
  <1>1. /\ AtNode("statement", {"INPUT"}, "enter") /\ Return(NoValue)
        /\ ctx' = quad_emitf(t.ctx, line)
    BY DEF Input, Enter
  <1>2. /\ stack # <<>> /\ top.node \in Statement /\ top.node.kind = "INPUT" /\ top.fn = "statement"
        /\ ctx \in QuadContext
    BY <1>1, TopStatement
  <1>3. /\ Grows(ctx, t.ctx, typed) /\ t.type \in {INT, FLOAT}
        /\ ~t.ctx.error => id \in DOMAIN t.ctx.symbols /\ t.type = t.ctx.symbols[id]
    BY <1>2, TopInFlight, SymbolTypeGrows DEF AstType
  <1>4. id \in Id /\ Txt(id) \in Place
    BY <1>2, StatementNode DEF Txt, Place, Text
  <1>5. op \in {"IINP", "RINP"} /\ op \in PlainOp /\ ResultType(op) = t.type
    BY <1>3 DEF PlainOp, Op, ResultType
  <1> HIDE DEF t, op, id
  <1>6. line \in Line /\ line.op = op /\ line.args = <<Txt(id)>>
    <2>1. <<Txt(id)>> \in Seq(Place)
      BY <1>4
    <2> QED BY <1>5, <2>1, QuadLine DEF Quad
  <1> HIDE DEF line
  <1>7. Target(line) = Txt(id) /\ ~ComputesTemp(line) /\ Sources(line) = {} /\ Target(line).text = id
        /\ line.op # "JMPZ" /\ line.op \notin Ending /\ Len(line.args) = Arity(line.op)
    BY <1>5, <1>6 DEF Target, ComputesTemp, IsTemp, Txt, Sources, Ending, Arity
  <1>8. ~t.ctx.error => Reads(t.ctx, line, typed)
    BY <1>3, <1>4, <1>5, <1>6, <1>7 DEF Reads, TextHasType
  <1>9. t.ctx \in QuadContext /\ Sound(t.ctx, typed)
    BY <1>3 DEF Grows
  <1>10. Grows(t.ctx, ctx', typed)
    BY <1>1, <1>4, <1>6, <1>7, <1>8, <1>9, EmitGrows
  <1>11. ctx' \in QuadContext
    BY <1>10 DEF Grows
  <1>12. Grows(ctx, ctx', typed)
    BY <1>2, <1>3, <1>9, <1>10, <1>11, GrowsTransitive
  <1> QED BY <1>1, <1>2, <1>12, StatementReturn

LEMMA OutputExpressionInFlight ==
  ASSUME NEW type, NEW checked, NEW symbols, NEW typed \in BOOLEAN, TypeOK,
         InFlight(type, checked, symbols, typed),
         OutputExpression
  PROVE  InFlight(type, checked, symbols, typed)'
  <1> DEFINE f == [top EXCEPT !.pc = "output"]
             g == Expr(top.node.expression)
  <1>1. AtNode("statement", {"OUTPUT"}, "enter") /\ Call(f, g) /\ ctx' = ctx
    BY DEF OutputExpression, Enter, Silent
  <1>2. /\ stack # <<>> /\ top \in StatementFrame /\ top.node \in Statement
        /\ top.node.kind = "OUTPUT" /\ top.fn = "statement"
    BY <1>1, TopStatement
  <1>3. Grows(ctx, ctx', typed)
    BY <1>1, <1>2, TopInFlight, GrowsReflexive
  <1>4. g \in AnyFrame
    BY <1>2, StatementNode, NewFrames DEF AnyFrame
  <1> HIDE DEF top
  <1>5. f \in AnyFrame /\ f.fn = "statement" /\ f.pc = "output" /\ f.node = top.node
    BY <1>2 DEF AnyFrame, StatementFrame, FrameOf, StatementPc
  <1> HIDE DEF f
  <1>6. Awaited(f) = {top.node.expression}
    BY <1>5 DEF Awaited
  <1>7. /\ g.pc = "enter" /\ FrameChecked(g, checked)
        /\ \A e \in Awaited(f) : g.fn = "expr" /\ g.node = e
    BY <1>6, NewFramesChecked
  <1> HIDE DEF g
  <1> QED BY <1>1, <1>2, <1>3, <1>4, <1>5, <1>7, StatementCall

LEMMA OutputInFlight ==
  ASSUME NEW type, NEW checked, NEW symbols, NEW typed \in BOOLEAN, TypeOK,
         InFlight(type, checked, symbols, typed),
         Output
  PROVE  InFlight(type, checked, symbols, typed)'
  <1> DEFINE op == IF ret.type = INT THEN "IPRT" ELSE "RPRT"
             line == Quad(op, <<ret.place>>)
  <1>1. /\ AtNode("statement", {"OUTPUT"}, "output") /\ Return(NoValue)
        /\ ctx' = quad_emitf(ctx, line)
    BY DEF Output, Resume
  <1>2. /\ stack # <<>> /\ top.fn = "statement" /\ top.pc = "output"
        /\ ctx \in QuadContext /\ ret \in QuadValue
    BY <1>1, TopStatement
  <1>3. Awaited(top) # {}
    BY <1>2 DEF Awaited
  <1>4. Sound(ctx, typed) /\ (~ctx.error => Known(ctx, ret.place, ret.type, typed))
    BY <1>2, <1>3, TopInFlight DEF Holds
  <1>5. /\ op \in {"IPRT", "RPRT"} /\ op \in PlainOp /\ OperandType(op) = ret.type
        /\ ret.type \in AstType /\ ret.place \in Place
    BY <1>2 DEF PlainOp, Op, OperandType, QuadValue, AstType
  <1> HIDE DEF op
  <1>6. line \in Line /\ line.op = op /\ line.args = <<ret.place>>
    <2>1. <<ret.place>> \in Seq(Place)
      BY <1>5
    <2> QED BY <1>5, <2>1, QuadLine DEF Quad
  <1> HIDE DEF line
  <1>7. ~Computes(line) /\ ~ComputesTemp(line) /\ Sources(line) \subseteq {ret.place}
        /\ line.op # "JMPZ" /\ line.op \notin Ending /\ Len(line.args) = Arity(line.op)
    BY <1>5, <1>6 DEF ComputesTemp, Computes, Sources, Ending, Arity
  <1>8. ~ctx.error => Reads(ctx, line, typed)
    BY <1>4, <1>5, <1>6, <1>7 DEF Reads
  <1>9. Grows(ctx, ctx', typed)
    BY <1>1, <1>2, <1>4, <1>6, <1>7, <1>8, EmitGrows
  <1> QED BY <1>1, <1>2, <1>9, StatementReturn

LEMMA IfConditionInFlight ==
  ASSUME NEW type, NEW checked, NEW symbols, NEW typed \in BOOLEAN, TypeOK,
         InFlight(type, checked, symbols, typed),
         IfCondition
  PROVE  InFlight(type, checked, symbols, typed)'
  <1> DEFINE l_else == quad_new_label(ctx)
             l_end == quad_new_label(l_else)
             f == [top EXCEPT !.pc = "condition", !.label = l_else.label_counter,
                              !.l_end = l_end.label_counter]
             g == Expr(top.node.condition)
  <1>1. AtNode("statement", {"IF"}, "enter") /\ Call(f, g) /\ ctx' = l_end
    BY DEF IfCondition, Enter
  <1>2. /\ stack # <<>> /\ top \in StatementFrame /\ top.node \in Statement
        /\ top.node.kind = "IF" /\ top.fn = "statement" /\ ctx \in QuadContext
    BY <1>1, TopStatement
  <1>3. Grows(ctx, l_else, typed)
    BY <1>2, TopInFlight, NewLabelGrows
  <1> HIDE DEF l_else
  <1>4. l_else \in QuadContext /\ Sound(l_else, typed)
    BY <1>3 DEF Grows
  <1>5. Grows(l_else, l_end, typed)
    BY <1>4, NewLabelGrows
  <1> HIDE DEF l_end
  <1>6. l_end \in QuadContext
    BY <1>5 DEF Grows
  <1>7. Grows(ctx, ctx', typed)
    BY <1>1, <1>2, <1>3, <1>4, <1>5, <1>6, GrowsTransitive
  <1>8. g \in AnyFrame
    BY <1>2, StatementNode, NewFrames DEF AnyFrame
  <1> HIDE DEF top
  <1>9. f \in AnyFrame /\ f.fn = "statement" /\ f.pc = "condition" /\ f.node = top.node
    BY <1>2, <1>4, <1>6, ContextFields DEF AnyFrame, StatementFrame, FrameOf, StatementPc
  <1> HIDE DEF f
  <1>10. Awaited(f) = {top.node.condition}
    BY <1>9 DEF Awaited
  <1>11. /\ g.pc = "enter" /\ FrameChecked(g, checked)
         /\ \A e \in Awaited(f) : g.fn = "expr" /\ g.node = e
    BY <1>10, NewFramesChecked
  <1> HIDE DEF g
  <1> QED BY <1>1, <1>2, <1>7, <1>8, <1>9, <1>11, StatementCall

\* What a condition leaves to be tested
LEMMA TestGrows ==
  ASSUME NEW type, NEW checked, NEW symbols, NEW typed \in BOOLEAN, TypeOK,
         InFlight(type, checked, symbols, typed),
         NEW kind \in {"IF", "WHILE"}, AtNode("statement", {kind}, "condition"), NEW l \in Nat
  PROVE  LET c == quad_to_bool_int(ctx, ret)
         IN  Grows(ctx, quad_emitf(c.ctx, JMPZ(l, c.val.place)), typed)
  <1> DEFINE e == top.node.condition
             c == quad_to_bool_int(ctx, ret)
             d == quad_emitf(c.ctx, JMPZ(l, c.val.place))
  <1>1. /\ stack # <<>> /\ top.node \in Statement /\ top.node.kind \in {"IF", "WHILE"}
        /\ top.fn = "statement" /\ top.pc = "condition" /\ ctx \in QuadContext
    BY TopStatement
  <1>2. Awaited(top) = {e}
    BY <1>1 DEF Awaited
  <1>3. IsTest(e)
    <2>1. e \in ConditionOver(Expression, Condition)
      BY <1>1, StatementNode, TreeAssumption
    <2>2. RelOp \cap ArithOp = {} /\ BoolOp \cap ArithOp = {}
      BY DEF RelOp, BoolOp, ArithOp
    <2> HIDE DEF e
    <2> QED BY <2>1, <2>2 DEF ConditionOver, IsTest
  <1>4. /\ Sound(ctx, typed) /\ Holds(ctx, ret, typed)
        /\ ~ctx.error /\ typed => IsTemp(ret.place)
    BY <1>1, <1>2, <1>3, TopInFlight DEF Yields
  <1>5. /\ Gives(ctx, c, typed) /\ c.val.type = INT
        /\ IsTemp(ret.place) => IsTemp(c.val.place)
    BY <1>1, <1>4, ToBoolIntGives
  <1> HIDE DEF c
  <1>6. /\ c.ctx \in QuadContext /\ Sound(c.ctx, typed) /\ Grows(ctx, c.ctx, typed)
        /\ c.val.place \in Place /\ (~c.ctx.error => Known(c.ctx, c.val.place, INT, typed))
        /\ ~c.ctx.error => ~ctx.error
    BY <1>5 DEF Gives, Grows, Holds, QuadValue
  <1>7. Grows(c.ctx, d, typed)
    BY <1>4, <1>5, <1>6, JmpzGrows
  <1> HIDE DEF d
  <1>8. d \in QuadContext
    BY <1>7 DEF Grows
  <1>9. Grows(ctx, d, typed)
    BY <1>1, <1>6, <1>7, <1>8, GrowsTransitive
  <1> QED BY <1>9 DEF d, c

LEMMA IfThenInFlight ==
  ASSUME NEW type, NEW checked, NEW symbols, NEW typed \in BOOLEAN, TypeOK,
         InFlight(type, checked, symbols, typed),
         IfThen
  PROVE  InFlight(type, checked, symbols, typed)'
  <1> DEFINE c == quad_to_bool_int(ctx, ret)
             f == [top EXCEPT !.pc = "then"]
             g == Stmt(top.node.then_stmt)
  <1>1. /\ AtNode("statement", {"IF"}, "condition") /\ Call(f, g)
        /\ ctx' = quad_emitf(c.ctx, JMPZ(top.label, c.val.place))
    BY DEF IfThen, Resume
  <1>2. /\ stack # <<>> /\ top \in StatementFrame /\ top.node \in Statement
        /\ top.node.kind = "IF" /\ top.fn = "statement"
    BY <1>1, TopStatement
  <1>3. top.label \in Nat
    BY <1>2 DEF StatementFrame, FrameOf
  <1>4. Grows(ctx, ctx', typed)
    BY <1>1, <1>3, TestGrows
  <1>5. g \in AnyFrame
    BY <1>2, StatementNode, NewFrames DEF AnyFrame
  <1>6. typed => top.node.then_stmt \in checked
    <2> SUFFICES ASSUME typed = TRUE PROVE top.node.then_stmt \in checked
      OBVIOUS
    <2>1. top.node \in checked
      BY <1>2, TopChecked
    <2>2. Passes(ctx.symbols, type, checked)
      BY <1>2, TopInFlight
    <2> QED BY <1>2, <2>1, <2>2 DEF Passes
  <1> HIDE DEF top
  <1>7. f \in AnyFrame /\ f.fn = "statement" /\ f.pc = "then" /\ f.node = top.node
    BY <1>2 DEF AnyFrame, StatementFrame, FrameOf, StatementPc
  <1>8. Awaited(f) = {}
    BY <1>7 DEF Awaited
  <1>9. g.pc = "enter" /\ (typed => FrameChecked(g, checked))
    BY <1>6, NewFramesChecked DEF Stmt, Frame
  <1> HIDE DEF f, g
  <1> QED BY <1>1, <1>2, <1>4, <1>5, <1>7, <1>8, <1>9, StatementCall
\* An activation that only defines its label and returns
LEMMA LabelReturn ==
  ASSUME NEW type, NEW checked, NEW symbols, NEW typed \in BOOLEAN, TypeOK,
         InFlight(type, checked, symbols, typed),
         stack # <<>>, top.fn = "statement", NEW l \in Nat, ctx' = quad_emitf(ctx, LABEL(l)),
         NEW v, Return(v)
  PROVE  InFlight(type, checked, symbols, typed)'
  <1>1. Grows(ctx, ctx', typed)
    BY TopInFlight, LabelGrows
  <1> QED BY <1>1, StatementReturn

LEMMA IfWithoutElseInFlight ==
  ASSUME NEW type, NEW checked, NEW symbols, NEW typed \in BOOLEAN, TypeOK,
         InFlight(type, checked, symbols, typed),
         IfWithoutElse
  PROVE  InFlight(type, checked, symbols, typed)'
  <1>1. /\ AtNode("statement", {"IF"}, "then") /\ Return(NoValue)
        /\ ctx' = quad_emitf(ctx, LABEL(top.label))
    BY DEF IfWithoutElse, Resume
  <1>2. stack # <<>> /\ top.fn = "statement" /\ top.label \in Nat
    BY <1>1, TopStatement DEF StatementFrame, FrameOf
  <1> QED BY <1>1, <1>2, LabelReturn

LEMMA IfElseInFlight ==
  ASSUME NEW type, NEW checked, NEW symbols, NEW typed \in BOOLEAN, TypeOK,
         InFlight(type, checked, symbols, typed),
         IfElse
  PROVE  InFlight(type, checked, symbols, typed)'
  <1> DEFINE c == quad_emitf(ctx, JUMP(top.l_end))
             f == [top EXCEPT !.pc = "else"]
             g == Stmt(top.node.else_stmt)
  <1>1. /\ AtNode("statement", {"IF"}, "then") /\ Call(f, g)
        /\ ctx' = quad_emitf(c, LABEL(top.label)) /\ top.node.else_stmt # NULL
    BY DEF IfElse, Resume
  <1>2. /\ stack # <<>> /\ top \in StatementFrame /\ top.node \in Statement /\ ctx \in QuadContext
        /\ top.node.kind = "IF" /\ top.fn = "statement"
    BY <1>1, TopStatement
  <1>3. top.label \in Nat /\ top.l_end \in Nat
    BY <1>2 DEF StatementFrame, FrameOf
  <1>4. Grows(ctx, c, typed)
    BY <1>2, <1>3, TopInFlight, LabelGrows
  <1> HIDE DEF c
  <1>5. c \in QuadContext /\ Sound(c, typed)
    BY <1>4 DEF Grows
  <1>6. Grows(c, ctx', typed)
    BY <1>1, <1>3, <1>5, LabelGrows
  <1>7. ctx' \in QuadContext
    BY <1>6 DEF Grows
  <1>8. Grows(ctx, ctx', typed)
    BY <1>2, <1>4, <1>5, <1>6, <1>7, GrowsTransitive
  <1>9. g \in AnyFrame
    BY <1>2, StatementNode, NewFrames DEF AnyFrame
  <1>10. typed => top.node.else_stmt \in checked \cup {NULL}
    <2>1. typed => top.node \in checked /\ Passes(ctx.symbols, type, checked)
      BY <1>2, TopChecked, TopInFlight
    <2> QED BY <1>2, <2>1 DEF Passes
  <1> HIDE DEF top
  <1>11. f \in AnyFrame /\ f.fn = "statement" /\ f.pc = "else" /\ f.node = top.node
    BY <1>2 DEF AnyFrame, StatementFrame, FrameOf, StatementPc
  <1>12. Awaited(f) = {}
    BY <1>11 DEF Awaited
  <1>13. g.pc = "enter" /\ (typed => FrameChecked(g, checked))
    BY <1>10, NewFramesChecked DEF Stmt, Frame
  <1> HIDE DEF f, g
  <1> QED BY <1>1, <1>2, <1>8, <1>9, <1>11, <1>12, <1>13, StatementCall

LEMMA IfEndInFlight ==
  ASSUME NEW type, NEW checked, NEW symbols, NEW typed \in BOOLEAN, TypeOK,
         InFlight(type, checked, symbols, typed),
         IfEnd
  PROVE  InFlight(type, checked, symbols, typed)'
  <1>1. /\ AtNode("statement", {"IF"}, "else") /\ Return(NoValue)
        /\ ctx' = quad_emitf(ctx, LABEL(top.l_end))
    BY DEF IfEnd, Resume
  <1>2. stack # <<>> /\ top.fn = "statement" /\ top.l_end \in Nat
    BY <1>1, TopStatement DEF StatementFrame, FrameOf
  <1> QED BY <1>1, <1>2, LabelReturn

LEMMA WhileConditionInFlight ==
  ASSUME NEW type, NEW checked, NEW symbols, NEW typed \in BOOLEAN, TypeOK,
         InFlight(type, checked, symbols, typed),
         WhileCondition
  PROVE  InFlight(type, checked, symbols, typed)'
  <1> DEFINE l_start == quad_new_label(ctx)
             l_end == quad_new_label(l_start)
             f == [top EXCEPT !.pc = "condition", !.label = l_start.label_counter,
                              !.l_end = l_end.label_counter]
             g == Expr(top.node.condition)
  <1>1. /\ AtNode("statement", {"WHILE"}, "enter") /\ Call(f, g)
        /\ ctx' = quad_emitf(l_end, LABEL(l_start.label_counter))
    BY DEF WhileCondition, Enter
  <1>2. /\ stack # <<>> /\ top \in StatementFrame /\ top.node \in Statement
        /\ top.node.kind = "WHILE" /\ top.fn = "statement" /\ ctx \in QuadContext
    BY <1>1, TopStatement
  <1>3. Grows(ctx, l_start, typed)
    BY <1>2, TopInFlight, NewLabelGrows
  <1> HIDE DEF l_start
  <1>4. l_start \in QuadContext /\ Sound(l_start, typed)
    BY <1>3 DEF Grows
  <1>5. Grows(l_start, l_end, typed)
    BY <1>4, NewLabelGrows
  <1> HIDE DEF l_end
  <1>6. l_end \in QuadContext /\ Sound(l_end, typed) /\ l_start.label_counter \in Nat
    BY <1>4, <1>5, ContextFields DEF Grows
  <1>7. Grows(l_end, ctx', typed)
    BY <1>1, <1>6, LabelGrows
  <1>8. ctx' \in QuadContext
    BY <1>7 DEF Grows
  <1>9. Grows(ctx, l_end, typed)
    BY <1>2, <1>3, <1>4, <1>5, <1>6, GrowsTransitive
  <1>10. Grows(ctx, ctx', typed)
    BY <1>2, <1>6, <1>7, <1>8, <1>9, GrowsTransitive
  <1>11. g \in AnyFrame
    BY <1>2, StatementNode, NewFrames DEF AnyFrame
  <1> HIDE DEF top
  <1>12. f \in AnyFrame /\ f.fn = "statement" /\ f.pc = "condition" /\ f.node = top.node
    BY <1>2, <1>4, <1>6, ContextFields DEF AnyFrame, StatementFrame, FrameOf, StatementPc
  <1> HIDE DEF f
  <1>13. Awaited(f) = {top.node.condition}
    BY <1>12 DEF Awaited
  <1>14. /\ g.pc = "enter" /\ FrameChecked(g, checked)
         /\ \A e \in Awaited(f) : g.fn = "expr" /\ g.node = e
    BY <1>13, NewFramesChecked
  <1> HIDE DEF g
  <1> QED BY <1>1, <1>2, <1>10, <1>11, <1>12, <1>14, StatementCall

LEMMA WhileBodyInFlight ==
  ASSUME NEW type, NEW checked, NEW symbols, NEW typed \in BOOLEAN, TypeOK,
         InFlight(type, checked, symbols, typed),
         WhileBody
  PROVE  InFlight(type, checked, symbols, typed)'
  <1> DEFINE c == quad_to_bool_int(ctx, ret)
             d == quad_emitf(c.ctx, JMPZ(top.l_end, c.val.place))
             f == [top EXCEPT !.pc = "body"]
             g == Stmt(top.node.body)
  <1>1. /\ AtNode("statement", {"WHILE"}, "condition") /\ Call(f, g)
        /\ ctx' = quad_push_break(d, depth)
    BY DEF WhileBody, Resume
  <1>2. /\ stack # <<>> /\ top \in StatementFrame /\ top.node \in Statement /\ depth \in Nat
        /\ top.node.kind = "WHILE" /\ top.fn = "statement" /\ ctx \in QuadContext
    BY <1>1, TopStatement
  <1>3. top.l_end \in Nat
    BY <1>2 DEF StatementFrame, FrameOf
  <1>4. Grows(ctx, d, typed)
    BY <1>1, <1>3, TestGrows
  <1> HIDE DEF d
  <1>5. d \in QuadContext /\ Sound(d, typed)
    BY <1>4 DEF Grows
  <1>6. Grows(d, ctx', typed)
    BY <1>1, <1>2, <1>5, BreakLabelsGrow
  <1>7. ctx' \in QuadContext
    BY <1>6 DEF Grows
  <1>8. Grows(ctx, ctx', typed)
    BY <1>2, <1>4, <1>5, <1>6, <1>7, GrowsTransitive
  <1>9. g \in AnyFrame
    BY <1>2, StatementNode, NewFrames DEF AnyFrame
  <1>10. typed => top.node.body \in checked
    <2> SUFFICES ASSUME typed = TRUE PROVE top.node.body \in checked
      OBVIOUS
    <2>1. top.node \in checked
      BY <1>2, TopChecked
    <2>2. Passes(ctx.symbols, type, checked)
      BY <1>2, TopInFlight
    <2> QED BY <1>2, <2>1, <2>2 DEF Passes
  <1> HIDE DEF top
  <1>11. f \in AnyFrame /\ f.fn = "statement" /\ f.pc = "body" /\ f.node = top.node
    BY <1>2 DEF AnyFrame, StatementFrame, FrameOf, StatementPc
  <1>12. Awaited(f) = {}
    BY <1>11 DEF Awaited
  <1>13. g.pc = "enter" /\ (typed => FrameChecked(g, checked))
    BY <1>10, NewFramesChecked DEF Stmt, Frame
  <1> HIDE DEF f, g
  <1> QED BY <1>1, <1>2, <1>8, <1>9, <1>11, <1>12, <1>13, StatementCall

LEMMA WhileEndInFlight ==
  ASSUME NEW type, NEW checked, NEW symbols, NEW typed \in BOOLEAN, TypeOK,
         InFlight(type, checked, symbols, typed),
         WhileEnd
  PROVE  InFlight(type, checked, symbols, typed)'
  <1> DEFINE c == quad_pop_break(ctx)
             d == quad_emitf(c, JUMP(top.label))
  <1>1. /\ AtNode("statement", {"WHILE"}, "body") /\ Return(NoValue)
        /\ ctx' = quad_emitf(d, LABEL(top.l_end))
    BY DEF WhileEnd, Resume
  <1>2. /\ stack # <<>> /\ top.fn = "statement" /\ ctx \in QuadContext
        /\ top.label \in Nat /\ top.l_end \in Nat
    BY <1>1, TopStatement DEF StatementFrame, FrameOf
  <1>3. Grows(ctx, c, typed)
    <2>1. 0 \in Nat
      OBVIOUS
    <2> QED BY <1>2, <2>1, TopInFlight, BreakLabelsGrow
  <1> HIDE DEF c
  <1>4. c \in QuadContext /\ Sound(c, typed)
    BY <1>3 DEF Grows
  <1>5. Grows(c, d, typed)
    BY <1>2, <1>4, LabelGrows
  <1> HIDE DEF d
  <1>6. d \in QuadContext /\ Sound(d, typed)
    BY <1>5 DEF Grows
  <1>7. Grows(d, ctx', typed)
    BY <1>1, <1>2, <1>6, LabelGrows
  <1>8. ctx' \in QuadContext
    BY <1>7 DEF Grows
  <1>9. Grows(ctx, d, typed)
    BY <1>2, <1>3, <1>4, <1>5, <1>6, GrowsTransitive
  <1>10. Grows(ctx, ctx', typed)
    BY <1>2, <1>6, <1>7, <1>8, <1>9, GrowsTransitive
  <1> QED BY <1>1, <1>2, <1>10, StatementReturn
LEMMA SwitchExpressionInFlight ==
  ASSUME NEW type, NEW checked, NEW symbols, NEW typed \in BOOLEAN, TypeOK,
         InFlight(type, checked, symbols, typed),
         SwitchExpression
  PROVE  InFlight(type, checked, symbols, typed)'
  <1> DEFINE d == quad_new_label(ctx)
             f == [top EXCEPT !.pc = "expression", !.l_end = ctx'.label_counter]
             g == Expr(top.node.expression)
  <1>1. AtNode("statement", {"SWITCH"}, "enter") /\ Call(f, g) /\ ctx' = d
    BY DEF SwitchExpression, Enter
  <1>2. /\ stack # <<>> /\ top \in StatementFrame /\ top.node \in Statement
        /\ top.node.kind = "SWITCH" /\ top.fn = "statement" /\ ctx \in QuadContext
    BY <1>1, TopStatement
  <1>3. Grows(ctx, ctx', typed)
    BY <1>1, <1>2, TopInFlight, NewLabelGrows
  <1>4. ctx'.label_counter \in Nat
    BY <1>3, ContextFields DEF Grows
  <1>5. g \in AnyFrame
    BY <1>2, StatementNode, NewFrames DEF AnyFrame
  <1> HIDE DEF top
  <1>6. f \in AnyFrame /\ f.fn = "statement" /\ f.pc = "expression" /\ f.node = top.node
    BY <1>2, <1>4 DEF AnyFrame, StatementFrame, FrameOf, StatementPc
  <1> HIDE DEF f
  <1>7. Awaited(f) = {top.node.expression}
    BY <1>6 DEF Awaited
  <1>8. /\ g.pc = "enter" /\ FrameChecked(g, checked)
        /\ \A e \in Awaited(f) : g.fn = "expr" /\ g.node = e
    BY <1>7, NewFramesChecked
  <1> HIDE DEF g
  <1> QED BY <1>1, <1>2, <1>3, <1>5, <1>6, <1>8, StatementCall

\* A frame of SWITCH between two cases
LEMMA SwitchFrame ==
  ASSUME NEW type, NEW checked, NEW typed \in BOOLEAN, NEW c,
         NEW f \in StatementFrame, f.pc \in {"cases", "case"},
         ~c.error => f.val.type = INT /\ Known(c, f.val.place, INT, typed),
         typed => f.node \in checked /\ f.rest \in Seq(CaseOver(NumInt, checked))
  PROVE  /\ Awaited(f) = {} /\ f.fn = "statement" /\ f \in AnyFrame
         /\ ~c.error => KeepsValue(c, f, type, typed)
         /\ typed => FrameChecked(f, checked)
  <1>1. f.fn = "statement"
    BY DEF StatementFrame, FrameOf
  <1> QED BY <1>1 DEF AnyFrame, Awaited, KeepsValue, FrameChecked

LEMMA SwitchValueInFlight ==
  ASSUME NEW type, NEW checked, NEW symbols, NEW typed \in BOOLEAN, TypeOK,
         InFlight(type, checked, symbols, typed),
         SwitchValue
  PROVE  InFlight(type, checked, symbols, typed)'
  <1> DEFINE svi == quad_to_int(ctx, ret)
             f == [top EXCEPT !.pc = "cases", !.rest = top.node.cases, !.val = svi.val]
  <1>1. /\ AtNode("statement", {"SWITCH"}, "expression") /\ Stay(f)
        /\ ctx' = quad_push_break(svi.ctx, depth)
    BY DEF SwitchValue, Resume
  <1>2. /\ stack # <<>> /\ top \in StatementFrame /\ top.node \in Statement /\ depth \in Nat
        /\ top.node.kind = "SWITCH" /\ top.fn = "statement" /\ top.pc = "expression"
        /\ ctx \in QuadContext
    BY <1>1, TopStatement
  <1>3. Awaited(top) # {}
    BY <1>2 DEF Awaited
  <1>4. Gives(ctx, svi, typed) /\ (~svi.ctx.error => svi.val.type = INT)
    BY <1>2, <1>3, TopInFlight, ToIntGives
  <1> HIDE DEF svi
  <1>5. /\ svi.ctx \in QuadContext /\ Sound(svi.ctx, typed) /\ Grows(ctx, svi.ctx, typed)
        /\ svi.val \in QuadValue
        /\ ~svi.ctx.error => Known(svi.ctx, svi.val.place, INT, typed)
    BY <1>4 DEF Gives, Grows, Holds
  <1>6. Grows(svi.ctx, ctx', typed)
    BY <1>1, <1>2, <1>5, BreakLabelsGrow
  <1>7. ctx' \in QuadContext /\ (~ctx'.error => ~svi.ctx.error)
    BY <1>6 DEF Grows
  <1>8. Grows(ctx, ctx', typed)
    BY <1>2, <1>5, <1>6, <1>7, GrowsTransitive
  <1>9. ~ctx'.error => svi.val.type = INT /\ Known(ctx', svi.val.place, INT, typed)
    BY <1>4, <1>5, <1>6, <1>7, KnownKept
  <1>10. top.node.cases \in Seq(Case)
    BY <1>2, StatementNode
  <1>11. typed => top.node \in checked /\ top.node.cases \in Seq(CaseOver(NumInt, checked))
    <2>1. typed => top.node \in checked /\ Passes(ctx.symbols, type, checked)
      BY <1>2, TopChecked, TopInFlight
    <2> QED BY <1>2, <2>1 DEF Passes
  <1> HIDE DEF top
  <1>12. /\ f \in StatementFrame /\ f.pc = "cases" /\ f.node = top.node
         /\ f.rest = top.node.cases /\ f.val = svi.val
    BY <1>2, <1>5, <1>10 DEF StatementFrame, FrameOf, StatementPc
  <1> HIDE DEF f
  <1>13. /\ Awaited(f) = {} /\ f.fn = "statement" /\ f \in AnyFrame
         /\ ~ctx'.error => KeepsValue(ctx', f, type, typed)
         /\ typed => FrameChecked(f, checked)
    BY <1>9, <1>11, <1>12, SwitchFrame
  <1> QED BY <1>1, <1>2, <1>8, <1>12, <1>13, OperandStay

\* What SWITCH keeps between two cases
LEMMA TopSwitch ==
  ASSUME NEW type, NEW checked, NEW symbols, NEW typed \in BOOLEAN, TypeOK,
         InFlight(type, checked, symbols, typed),
         NEW pc \in {"cases", "case"}, AtNode("statement", {"SWITCH"}, pc)
  PROVE  /\ stack # <<>> /\ top \in StatementFrame /\ top.fn = "statement" /\ top.pc = pc
         /\ ctx \in QuadContext /\ Sound(ctx, typed)
         /\ top.val \in QuadValue /\ top.rest \in Seq(Case) /\ top.label \in Nat /\ top.l_end \in Nat
         /\ ~ctx.error => top.val.type = INT /\ Known(ctx, top.val.place, INT, typed)
         /\ typed => top.node \in checked /\ top.rest \in Seq(CaseOver(NumInt, checked))
  <1>1. /\ stack # <<>> /\ top \in StatementFrame /\ top.node \in Statement
        /\ top.fn = "statement" /\ top.pc = pc /\ ctx \in QuadContext
    BY TopStatement
  <1>2. /\ Sound(ctx, typed) /\ (~ctx.error => KeepsValue(ctx, top, type, typed))
        /\ typed => FrameChecked(top, checked) /\ top.node \in checked
    BY <1>1, TopInFlight, TopChecked
  <1> HIDE DEF top
  <1>3. top.val \in QuadValue /\ top.rest \in Seq(Case) /\ top.label \in Nat /\ top.l_end \in Nat
    BY <1>1 DEF StatementFrame, FrameOf
  <1> QED BY <1>1, <1>2, <1>3 DEF KeepsValue, FrameChecked

LEMMA SwitchCaseInFlight ==
  ASSUME NEW type, NEW checked, NEW symbols, NEW typed \in BOOLEAN, TypeOK,
         InFlight(type, checked, symbols, typed),
         SwitchCase
  PROVE  InFlight(type, checked, symbols, typed)'
  <1> DEFINE case == Head(top.rest)
             l_next == quad_new_label(ctx)
             cmp == EmitTemp(l_next, INT, "IEQL", top.val.place, Txt(case.int_literal))
             f == [top EXCEPT !.pc = "case", !.label = l_next.label_counter, !.rest = Tail(@)]
             g == List(case.statements)
  <1>1. /\ AtNode("statement", {"SWITCH"}, "cases") /\ top.rest # <<>> /\ ~ctx.error /\ Call(f, g)
        /\ ctx' = quad_emitf(cmp.ctx, JMPZ(l_next.label_counter, cmp.val.place))
    BY DEF SwitchCase, Resume
  <1>2. /\ stack # <<>> /\ top \in StatementFrame /\ top.fn = "statement"
        /\ ctx \in QuadContext /\ Sound(ctx, typed)
        /\ top.val \in QuadValue /\ top.rest \in Seq(Case)
        /\ top.val.type = INT /\ Known(ctx, top.val.place, INT, typed)
        /\ typed => top.node \in checked /\ top.rest \in Seq(CaseOver(NumInt, checked))
    BY <1>1, TopSwitch
  <1>3. /\ case \in Case /\ Tail(top.rest) \in Seq(Case)
        /\ typed => /\ case \in CaseOver(NumInt, checked)
                    /\ Tail(top.rest) \in Seq(CaseOver(NumInt, checked))
    BY <1>1, <1>2, HeadTailProperties
  <1> HIDE DEF case, top
  <1>4. /\ case.int_literal \in NumInt /\ case.statements \in Seq(Statement)
        /\ typed => case.statements \in Seq(checked)
    BY <1>3 DEF Case, CaseOver
  <1>5. Grows(ctx, l_next, typed)
    BY <1>2, NewLabelGrows
  <1> HIDE DEF l_next
  <1>6. l_next \in QuadContext /\ Sound(l_next, typed) /\ l_next.label_counter \in Nat
    BY <1>5, ContextFields DEF Grows
  <1>7. /\ Txt(case.int_literal) \in Place /\ top.val.place \in Place
        /\ Known(l_next, Txt(case.int_literal), INT, typed)
        /\ Known(l_next, top.val.place, INT, typed)
    <2>1. Known(l_next, top.val.place, INT, typed)
      BY <1>2, <1>5, KnownKept
    <2>2. /\ Txt(case.int_literal) \in Place
          /\ Known(l_next, Txt(case.int_literal), INT, typed)
      BY <1>4 DEF Txt, Place, Text, Literal, Known, IsTemp, TextHasType
    <2> QED BY <1>2, <2>1, <2>2 DEF QuadValue
  <1>8. /\ "IEQL" \in BinaryOp /\ INT \in AstType
        /\ OperandType("IEQL") = INT /\ ResultType("IEQL") = INT
    BY DEF BinaryOp, UnaryOp, ComputingOp, PlainOp, Op, AstType, OperandType, ResultType
  <1>9. Gives(l_next, cmp, typed) /\ cmp.val.type = INT /\ IsTemp(cmp.val.place)
    BY <1>6, <1>7, <1>8, EmitTempGives
  <1> HIDE DEF cmp
  <1>10. /\ cmp.ctx \in QuadContext /\ Sound(cmp.ctx, typed) /\ Grows(l_next, cmp.ctx, typed)
         /\ cmp.val.place \in Place
         /\ ~cmp.ctx.error => Known(cmp.ctx, cmp.val.place, INT, typed)
    BY <1>9 DEF Gives, Grows, Holds, QuadValue
  <1>11. Grows(cmp.ctx, ctx', typed)
    BY <1>1, <1>6, <1>9, <1>10, JmpzGrows
  <1>12. ctx' \in QuadContext
    BY <1>11 DEF Grows
  <1>13. Grows(ctx, cmp.ctx, typed)
    BY <1>2, <1>5, <1>6, <1>10, GrowsTransitive
  <1>14. Grows(ctx, ctx', typed)
    BY <1>2, <1>10, <1>11, <1>12, <1>13, GrowsTransitive
  <1>15. /\ f \in StatementFrame /\ f.pc = "case" /\ f.node = top.node
         /\ f.rest = Tail(top.rest) /\ f.val = top.val
    BY <1>2, <1>3, <1>6 DEF StatementFrame, FrameOf, StatementPc
  <1> HIDE DEF f
  <1>16. f.val.type = INT /\ Known(ctx', f.val.place, INT, typed)
    BY <1>2, <1>14, <1>15, KnownKept
  <1>17. /\ Awaited(f) = {} /\ f.fn = "statement" /\ f \in AnyFrame
         /\ ~ctx'.error => KeepsValue(ctx', f, type, typed)
         /\ typed => FrameChecked(f, checked)
    BY <1>2, <1>3, <1>15, <1>16, SwitchFrame
  <1>18. g \in AnyFrame /\ g.pc = "enter" /\ (typed => FrameChecked(g, checked))
    BY <1>4, NewFrames, NewFramesChecked DEF AnyFrame, List, Frame
  <1> HIDE DEF g
  <1> QED BY <1>1, <1>2, <1>14, <1>15, <1>17, <1>18, OperandCall

LEMMA SwitchNextInFlight ==
  ASSUME NEW type, NEW checked, NEW symbols, NEW typed \in BOOLEAN, TypeOK,
         InFlight(type, checked, symbols, typed),
         SwitchNext
  PROVE  InFlight(type, checked, symbols, typed)'
  <1> DEFINE f == [top EXCEPT !.pc = "cases"]
  <1>1. /\ AtNode("statement", {"SWITCH"}, "case") /\ Stay(f)
        /\ ctx' = quad_emitf(ctx, LABEL(top.label))
    BY DEF SwitchNext, Resume
  <1>2. /\ stack # <<>> /\ top \in StatementFrame /\ top.fn = "statement"
        /\ ctx \in QuadContext /\ Sound(ctx, typed) /\ top.label \in Nat
        /\ ~ctx.error => top.val.type = INT /\ Known(ctx, top.val.place, INT, typed)
        /\ typed => top.node \in checked /\ top.rest \in Seq(CaseOver(NumInt, checked))
    BY <1>1, TopSwitch
  <1>3. Grows(ctx, ctx', typed)
    BY <1>1, <1>2, LabelGrows
  <1> HIDE DEF top
  <1>4. ~ctx'.error => top.val.type = INT /\ Known(ctx', top.val.place, INT, typed)
    BY <1>2, <1>3, KnownKept DEF Grows
  <1>5. /\ f \in StatementFrame /\ f.pc = "cases" /\ f.node = top.node
        /\ f.rest = top.rest /\ f.val = top.val
    BY <1>2 DEF StatementFrame, FrameOf, StatementPc
  <1> HIDE DEF f
  <1>6. /\ Awaited(f) = {} /\ f.fn = "statement" /\ f \in AnyFrame
        /\ ~ctx'.error => KeepsValue(ctx', f, type, typed)
        /\ typed => FrameChecked(f, checked)
    BY <1>2, <1>4, <1>5, SwitchFrame
  <1> QED BY <1>1, <1>2, <1>3, <1>5, <1>6, OperandStay

LEMMA SwitchDefaultInFlight ==
  ASSUME NEW type, NEW checked, NEW symbols, NEW typed \in BOOLEAN, TypeOK,
         InFlight(type, checked, symbols, typed),
         SwitchDefault
  PROVE  InFlight(type, checked, symbols, typed)'
  <1> DEFINE f == [top EXCEPT !.pc = "default"]
             g == List(top.node.default_statements)
  <1>1. AtNode("statement", {"SWITCH"}, "cases") /\ Call(f, g) /\ ctx' = ctx
    BY DEF SwitchDefault, Resume, Silent
  <1>2. /\ stack # <<>> /\ top \in StatementFrame /\ top.node \in Statement
        /\ top.node.kind = "SWITCH" /\ top.fn = "statement"
    BY <1>1, TopStatement
  <1>3. Grows(ctx, ctx', typed)
    BY <1>1, <1>2, TopInFlight, GrowsReflexive
  <1>4. g \in AnyFrame
    BY <1>2, StatementNode, NewFrames DEF AnyFrame
  <1>5. typed => top.node.default_statements \in Seq(checked)
    <2>1. typed => top.node \in checked /\ Passes(ctx.symbols, type, checked)
      BY <1>2, TopChecked, TopInFlight
    <2> QED BY <1>2, <2>1 DEF Passes
  <1> HIDE DEF top
  <1>6. f \in AnyFrame /\ f.fn = "statement" /\ f.pc = "default" /\ f.node = top.node
    BY <1>2 DEF AnyFrame, StatementFrame, FrameOf, StatementPc
  <1>7. Awaited(f) = {}
    BY <1>6 DEF Awaited
  <1>8. g.pc = "enter" /\ (typed => FrameChecked(g, checked))
    BY <1>5, NewFramesChecked DEF List, Frame
  <1> HIDE DEF f, g
  <1> QED BY <1>1, <1>2, <1>3, <1>4, <1>6, <1>7, <1>8, StatementCall

LEMMA SwitchEndInFlight ==
  ASSUME NEW type, NEW checked, NEW symbols, NEW typed \in BOOLEAN, TypeOK,
         InFlight(type, checked, symbols, typed),
         SwitchEnd
  PROVE  InFlight(type, checked, symbols, typed)'
  <1> DEFINE c == quad_emitf(ctx, LABEL(top.l_end))
  <1>1. /\ AtNode("statement", {"SWITCH"}, "default") /\ Return(NoValue)
        /\ ctx' = quad_pop_break(c)
    BY DEF SwitchEnd, Resume
  <1>2. /\ stack # <<>> /\ top.fn = "statement" /\ ctx \in QuadContext /\ top.l_end \in Nat
    BY <1>1, TopStatement DEF StatementFrame, FrameOf
  <1>3. Grows(ctx, c, typed)
    BY <1>2, TopInFlight, LabelGrows
  <1> HIDE DEF c
  <1>4. c \in QuadContext /\ Sound(c, typed) /\ 0 \in Nat
    BY <1>3 DEF Grows
  <1>5. Grows(c, ctx', typed)
    BY <1>1, <1>4, BreakLabelsGrow
  <1>6. ctx' \in QuadContext
    BY <1>5 DEF Grows
  <1>7. Grows(ctx, ctx', typed)
    BY <1>2, <1>3, <1>4, <1>5, <1>6, GrowsTransitive
  <1> QED BY <1>1, <1>2, <1>7, StatementReturn
LEMMA BreakInFlight ==
  ASSUME NEW type, NEW checked, NEW symbols, NEW typed \in BOOLEAN, TypeOK, NoDanglingBreakLabel,
         InFlight(type, checked, symbols, typed), Break
  PROVE  InFlight(type, checked, symbols, typed)'
  <1> DEFINE b == ctx.break_labels
             k == b[Len(b)]
  <1>1. AtNode("statement", {"BREAK"}, "enter") /\ Return(NoValue)
    BY DEF Break, Enter
  <1>2. stack # <<>> /\ top.fn = "statement" /\ ctx \in QuadContext
    BY <1>1, TopStatement
  <1>3. Sound(ctx, typed)
    BY <1>2, TopInFlight
  <1>4. CASE b = <<>>
    <2>1. ctx' = [ctx EXCEPT !.error = TRUE]
      BY <1>4 DEF Break
    <2>2. Grows(ctx, ctx', typed)
      BY <1>2, <1>3, <2>1, ErrorGrows
    <2> QED BY <1>1, <1>2, <2>2, StatementReturn
  <1>5. CASE b # <<>>
    <2>1. Len(b) \in DOMAIN b
      BY <1>2, <1>5, ContextFields
    <2>2. k \in 1 .. depth /\ Breakable(stack[k])
      BY <2>1 DEF NoDanglingBreakLabel
    <2>3. ctx' = quad_emitf(ctx, JUMP(stack[k].l_end))
      BY <1>5 DEF Break
    <2> HIDE DEF k
    <2>4. stack[k] \in AnyFrame
      BY <2>2 DEF TypeOK, depth
    <2>5. stack[k].l_end \in Nat
      BY <2>4 DEF AnyFrame, StatementFrame, ListFrame, ExprFrame, FrameOf
    <2>6. Grows(ctx, ctx', typed)
      BY <1>2, <1>3, <2>3, <2>5, LabelGrows
    <2> QED BY <1>1, <1>2, <2>6, StatementReturn
  <1> QED BY <1>4, <1>5

LEMMA BlockInFlight ==
  ASSUME NEW type, NEW checked, NEW symbols, NEW typed \in BOOLEAN, TypeOK,
         InFlight(type, checked, symbols, typed),
         Block
  PROVE  InFlight(type, checked, symbols, typed)'
  <1> DEFINE f == [top EXCEPT !.pc = "block"]
             g == List(top.node.statements)
  <1>1. AtNode("statement", {"BLOCK"}, "enter") /\ Call(f, g) /\ ctx' = ctx
    BY DEF Block, Enter, Silent
  <1>2. /\ stack # <<>> /\ top \in StatementFrame /\ top.node \in Statement
        /\ top.node.kind = "BLOCK" /\ top.fn = "statement"
    BY <1>1, TopStatement
  <1>3. Grows(ctx, ctx', typed)
    BY <1>1, <1>2, TopInFlight, GrowsReflexive
  <1>4. g \in AnyFrame
    BY <1>2, StatementNode, NewFrames DEF AnyFrame
  <1>5. typed => top.node.statements \in Seq(checked)
    <2>1. typed => top.node \in checked /\ Passes(ctx.symbols, type, checked)
      BY <1>2, TopChecked, TopInFlight
    <2> QED BY <1>2, <2>1 DEF Passes
  <1> HIDE DEF top
  <1>6. f \in AnyFrame /\ f.fn = "statement" /\ f.pc = "block" /\ f.node = top.node
    BY <1>2 DEF AnyFrame, StatementFrame, FrameOf, StatementPc
  <1>7. Awaited(f) = {}
    BY <1>6 DEF Awaited
  <1>8. g.pc = "enter" /\ (typed => FrameChecked(g, checked))
    BY <1>5, NewFramesChecked DEF List, Frame
  <1> HIDE DEF f, g
  <1> QED BY <1>1, <1>2, <1>3, <1>4, <1>6, <1>7, <1>8, StatementCall

LEMMA BlockEndInFlight ==
  ASSUME NEW type, NEW checked, NEW symbols, NEW typed \in BOOLEAN, TypeOK,
         InFlight(type, checked, symbols, typed),
         BlockEnd
  PROVE  InFlight(type, checked, symbols, typed)'
  <1>1. AtNode("statement", {"BLOCK"}, "block") /\ Return(NoValue) /\ ctx' = ctx
    BY DEF BlockEnd, Resume, Silent
  <1>2. stack # <<>> /\ top.fn = "statement"
    BY <1>1, TopStatement
  <1>3. Grows(ctx, ctx', typed)
    BY <1>1, <1>2, TopInFlight, GrowsReflexive
  <1> QED BY <1>1, <1>2, <1>3, StatementReturn

LEMMA ListNextInFlight ==
  ASSUME NEW type, NEW checked, NEW symbols, NEW typed \in BOOLEAN, TypeOK,
         InFlight(type, checked, symbols, typed),
         ListNext
  PROVE  InFlight(type, checked, symbols, typed)'
  <1> DEFINE f == [top EXCEPT !.rest = Tail(@)]
             g == Stmt(Head(top.rest))
  <1>1. At("list", "enter") /\ top.rest # <<>> /\ Call(f, g) /\ ctx' = ctx
    BY DEF ListNext, Silent
  <1>2. stack # <<>> /\ top \in ListFrame /\ top.rest \in Seq(Statement) /\ top.fn = "list"
    BY <1>1, TopList
  <1>3. /\ Grows(ctx, ctx', typed)
        /\ typed => top.rest \in Seq(checked)
    BY <1>1, <1>2, TopInFlight, GrowsReflexive DEF FrameChecked
  <1> HIDE DEF top
  <1>4. /\ Head(top.rest) \in Statement /\ Tail(top.rest) \in Seq(Statement)
        /\ typed => Head(top.rest) \in checked /\ Tail(top.rest) \in Seq(checked)
    BY <1>1, <1>2, <1>3, HeadTailProperties
  <1>5. g \in AnyFrame /\ g.pc = "enter" /\ (typed => FrameChecked(g, checked))
    BY <1>4, NewFrames, NewFramesChecked DEF AnyFrame, Stmt, Frame
  <1>6. f \in AnyFrame /\ f.fn = "list" /\ f.node = top.node /\ f.rest = Tail(top.rest)
    BY <1>2, <1>4 DEF AnyFrame, ListFrame, FrameOf
  <1> HIDE DEF f, g
  <1>7. /\ Awaited(f) = {} /\ KeepsValue(ctx', f, type, typed)
        /\ typed => FrameChecked(f, checked)
    BY <1>4, <1>6 DEF Awaited, KeepsValue, FrameChecked
  <1> QED BY <1>1, <1>2, <1>3, <1>5, <1>6, <1>7, OperandCall

LEMMA ListEndInFlight ==
  ASSUME NEW type, NEW checked, NEW symbols, NEW typed \in BOOLEAN, TypeOK,
         InFlight(type, checked, symbols, typed),
         ListEnd
  PROVE  InFlight(type, checked, symbols, typed)'
  <1>1. At("list", "enter") /\ Return(NoValue) /\ ctx' = ctx
    BY DEF ListEnd, Silent
  <1>2. stack # <<>> /\ top.fn = "list"
    BY <1>1, TopList
  <1>3. Grows(ctx, ctx', typed)
    BY <1>1, <1>2, TopInFlight, GrowsReflexive
  <1> QED BY <1>1, <1>2, <1>3, StatementReturn

LEMMA ExprIdInFlight ==
  ASSUME NEW type, NEW checked, NEW symbols, NEW typed \in BOOLEAN, TypeOK,
         InFlight(type, checked, symbols, typed),
         ExprId
  PROVE  InFlight(type, checked, symbols, typed)'
  <1> DEFINE e == top.node
             id == e.identifier
             t == quad_symbol_type(ctx, id)
             v == Value(t.type, Txt(Prefix63[id]))
  <1>1. AtNode("expr", {"ID"}, "enter") /\ ctx' = t.ctx /\ Return(v)
    BY DEF ExprId
  <1>2. /\ stack # <<>> /\ e \in Expression \cup Condition /\ e.kind = "ID" /\ ctx \in QuadContext
    BY <1>1, TopExpr
  <1>3. /\ Sound(ctx, typed) /\ (typed => TextsFit /\ Resolves(ctx.symbols, type))
    BY <1>2, TopInFlight
  <1>4. /\ Grows(ctx, ctx', typed)
        /\ ~ctx'.error => id \in DOMAIN ctx.symbols /\ t.type = ctx.symbols[id]
    <2>1. ctx' = quad_symbol_type(ctx, id).ctx /\ t.type = quad_symbol_type(ctx, id).type
      BY <1>1
    <2> HIDE DEF t, id
    <2>2. /\ Grows(ctx, ctx', typed)
          /\ ~ctx'.error => id \in DOMAIN ctx'.symbols /\ t.type = ctx'.symbols[id]
      BY <1>2, <1>3, <2>1, SymbolTypeGrows
    <2>3. ctx'.symbols = ctx.symbols
      BY <2>2 DEF Grows
    <2> QED BY <2>2, <2>3
  <1>5. id \in Id /\ id \in Text
    BY <1>2, ExpressionNode DEF Text
  <1> HIDE DEF t, e
  <1>6. ctx'.symbols = ctx.symbols
    BY <1>4 DEF Grows
  <1>7. v.type = t.type /\ v.place.text = Prefix63[id] /\ ~IsTemp(v.place)
    BY DEF Value, Txt, IsTemp
  <1>8. typed => Prefix63[id] = id
    BY <1>3, <1>5 DEF TextsFit
  <1>9. ~ctx'.error => Known(ctx', v.place, v.type, typed)
    BY <1>4, <1>5, <1>6, <1>7, <1>8 DEF Known, TextHasType
  <1>10. ~ctx'.error /\ typed => v.type = type[e]
    BY <1>2, <1>3, <1>4, <1>7 DEF Resolves, Tree
  <1>11. ~IsTest(e)
    BY <1>2 DEF IsTest
  <1>12. ~ctx'.error => Yields(ctx', e, v, type, typed)
    BY <1>9, <1>10, <1>11 DEF Yields
  <1> HIDE DEF v
  <1> QED BY <1>1, <1>2, <1>4, <1>12, OperandReturn DEF e

LEMMA LiteralNode ==
  ASSUME NEW e \in Expression \cup Condition
  PROVE  /\ e.kind = "INT_LITERAL" => e.number_text \in NumInt
         /\ e.kind = "FLOAT_LITERAL" => e.number_text \in NumFloat
  <1>1. CASE e \in Expression
    <2>1. e \in ExpressionOver(Id, NumInt, NumFloat, Expression)
      BY <1>1, TreeAssumption
    <2> QED BY <2>1 DEF ExpressionOver
  <1>2. CASE e \in Condition
    <2>1. e \in ConditionOver(Expression, Condition)
      BY <1>2, TreeAssumption
    <2> QED BY <2>1 DEF ConditionOver
  <1> QED BY <1>1, <1>2

LEMMA ExprLiteralInFlight ==
  ASSUME NEW type, NEW checked, NEW symbols, NEW typed \in BOOLEAN, TypeOK,
         InFlight(type, checked, symbols, typed),
         ExprLiteral
  PROVE  InFlight(type, checked, symbols, typed)'
  <1> DEFINE e == top.node
             text == e.number_text
             v == Value(IF e.kind = "INT_LITERAL" THEN INT ELSE FLOAT, Txt(Prefix63[text]))
  <1>1. AtNode("expr", {"INT_LITERAL", "FLOAT_LITERAL"}, "enter") /\ ctx' = ctx /\ Return(v)
    BY DEF ExprLiteral, Silent
  <1>2. /\ stack # <<>> /\ e \in Expression \cup Condition /\ ctx \in QuadContext
        /\ e.kind \in {"INT_LITERAL", "FLOAT_LITERAL"}
    BY <1>1, TopExpr
  <1>3. /\ Grows(ctx, ctx', typed) /\ (typed => TextsFit /\ Resolves(ctx.symbols, type))
    BY <1>1, <1>2, TopInFlight, GrowsReflexive
  <1> HIDE DEF e
  <1>4. /\ e.kind = "INT_LITERAL" => text \in NumInt /\ v.type = INT
        /\ e.kind = "FLOAT_LITERAL" => text \in NumFloat /\ v.type = FLOAT
    BY <1>2, LiteralNode DEF Value
  <1>5. v.place.text = Prefix63[text] /\ ~IsTemp(v.place)
    BY DEF Value, Txt, IsTemp
  <1> HIDE DEF v, text
  <1>6. typed => Prefix63[text] = text
    BY <1>2, <1>3, <1>4 DEF TextsFit, Text, Literal
  <1>7. Known(ctx', v.place, v.type, typed)
    BY <1>2, <1>4, <1>5, <1>6 DEF Known, TextHasType
  <1>8. typed => v.type = type[e]
    BY <1>2, <1>3, <1>4 DEF Resolves, Tree
  <1>9. ~IsTest(e)
    BY <1>2 DEF IsTest
  <1>10. Yields(ctx', e, v, type, typed)
    BY <1>7, <1>8, <1>9 DEF Yields
  <1> QED BY <1>1, <1>2, <1>3, <1>10, OperandReturn DEF e
\* A call from an expression, for the value of its operand e
LEMMA ExprCall ==
  ASSUME NEW type, NEW checked, NEW symbols, NEW typed \in BOOLEAN, TypeOK, stack # <<>>,
         InFlight(type, checked, symbols, typed), ctx' = ctx, top.fn = "expr",
         NEW f \in ExprFrame, NEW e \in Expression \cup Condition, Call(f, Expr(e)),
         f.node = top.node, Awaited(f) = {e}, ~ctx.error => KeepsValue(ctx, f, type, typed)
  PROVE  InFlight(type, checked, symbols, typed)'
  <1> DEFINE g == Expr(e)
  <1>1. Grows(ctx, ctx', typed)
    BY TopInFlight, GrowsReflexive
  <1>2. /\ g \in AnyFrame /\ g.pc = "enter" /\ FrameChecked(g, checked)
        /\ \A x \in Awaited(f) : g.fn = "expr" /\ g.node = x
    BY NewFrames, NewFramesChecked DEF AnyFrame
  <1>3. f \in AnyFrame /\ f.fn = "expr" /\ FrameChecked(f, checked)
    BY DEF AnyFrame, ExprFrame, FrameOf, FrameChecked
  <1> HIDE DEF g
  <1>4. Call(f, g)
    BY DEF g
  <1> QED BY <1>1, <1>2, <1>3, <1>4, OperandCall

LEMMA ExprOperandInFlight ==
  ASSUME NEW type, NEW checked, NEW symbols, NEW typed \in BOOLEAN, TypeOK,
         InFlight(type, checked, symbols, typed),
         ExprOperand
  PROVE  InFlight(type, checked, symbols, typed)'
  <1> DEFINE f == [top EXCEPT !.pc = "operand"]
             e == top.node.operand
  <1>1. AtNode("expr", Unary, "enter") /\ Call(f, Expr(e)) /\ ctx' = ctx
    BY DEF ExprOperand, Silent
  <1>2. /\ stack # <<>> /\ top \in ExprFrame /\ top.fn = "expr"
        /\ top.node \in Expression \cup Condition /\ top.node.kind \in Unary
    BY <1>1, TopExpr
  <1>3. e \in Expression \cup Condition
    BY <1>2, ExpressionNode
  <1> HIDE DEF top
  <1>4. f \in ExprFrame /\ f.fn = "expr" /\ f.pc = "operand" /\ f.node = top.node
    BY <1>2 DEF ExprFrame, FrameOf
  <1> HIDE DEF f
  <1>5. Awaited(f) = {e} /\ KeepsValue(ctx, f, type, typed)
    BY <1>4 DEF Awaited, KeepsValue
  <1> QED BY <1>1, <1>2, <1>3, <1>4, <1>5, ExprCall

LEMMA ExprLeftInFlight ==
  ASSUME NEW type, NEW checked, NEW symbols, NEW typed \in BOOLEAN, TypeOK,
         InFlight(type, checked, symbols, typed),
         ExprLeft
  PROVE  InFlight(type, checked, symbols, typed)'
  <1> DEFINE f == [top EXCEPT !.pc = "left"]
             e == top.node.left
  <1>1. AtNode("expr", {"BINARY"}, "enter") /\ Call(f, Expr(e)) /\ ctx' = ctx
    BY DEF ExprLeft, Silent
  <1>2. /\ stack # <<>> /\ top \in ExprFrame /\ top.fn = "expr"
        /\ top.node \in Expression \cup Condition /\ top.node.kind = "BINARY"
    BY <1>1, TopExpr
  <1>3. e \in Expression \cup Condition
    BY <1>2, ExpressionNode
  <1> HIDE DEF top
  <1>4. f \in ExprFrame /\ f.fn = "expr" /\ f.pc = "left" /\ f.node = top.node
    BY <1>2 DEF ExprFrame, FrameOf
  <1> HIDE DEF f
  <1>5. Awaited(f) = {e} /\ KeepsValue(ctx, f, type, typed)
    BY <1>4 DEF Awaited, KeepsValue
  <1> QED BY <1>1, <1>2, <1>3, <1>4, <1>5, ExprCall

LEMMA ExprRightInFlight ==
  ASSUME NEW type, NEW checked, NEW symbols, NEW typed \in BOOLEAN, TypeOK,
         InFlight(type, checked, symbols, typed),
         ExprRight
  PROVE  InFlight(type, checked, symbols, typed)'
  <1> DEFINE f == [top EXCEPT !.pc = "right", !.val = ret]
             e == top.node.right
  <1>1. AtNode("expr", {"BINARY"}, "left") /\ Call(f, Expr(e)) /\ ctx' = ctx
    BY DEF ExprRight, Silent
  <1>2. /\ stack # <<>> /\ top \in ExprFrame /\ top.fn = "expr" /\ top.pc = "left"
        /\ top.node \in Expression \cup Condition /\ top.node.kind = "BINARY" /\ ret \in QuadValue
    BY <1>1, TopExpr
  <1>3. e \in Expression \cup Condition
    BY <1>2, ExpressionNode
  <1>4. Awaited(top) = {top.node.left}
    BY <1>2 DEF Awaited
  <1>5. ~ctx.error => Yields(ctx, top.node.left, ret, type, typed)
    BY <1>2, <1>4, TopInFlight
  <1> HIDE DEF top
  <1>6. f \in ExprFrame /\ f.fn = "expr" /\ f.pc = "right" /\ f.node = top.node /\ f.val = ret
    BY <1>2 DEF ExprFrame, FrameOf
  <1> HIDE DEF f
  <1>7. Awaited(f) = {e} /\ (~ctx.error => KeepsValue(ctx, f, type, typed))
    BY <1>5, <1>6 DEF Awaited, KeepsValue
  <1> QED BY <1>1, <1>2, <1>3, <1>6, <1>7, ExprCall

LEMMA ExprUnaryInFlight ==
  ASSUME NEW type, NEW checked, NEW symbols, NEW typed \in BOOLEAN, TypeOK,
         InFlight(type, checked, symbols, typed),
         ExprUnary
  PROVE  InFlight(type, checked, symbols, typed)'
  <1> DEFINE e == top.node
             b == quad_to_bool_int(ctx, ret)
             r == CASE e.kind = "CAST_INT"   -> quad_to_int(ctx, ret)
                    [] e.kind = "CAST_FLOAT" -> quad_to_float(ctx, ret)
                    [] e.kind = "NOT"        -> quad_invert_bool(b.ctx, b.val)
  <1>1. AtNode("expr", Unary, "operand") /\ ctx' = r.ctx /\ Return(r.val)
    BY DEF ExprUnary
  <1>2. /\ stack # <<>> /\ e \in Expression \cup Condition /\ e.kind \in Unary /\ ctx \in QuadContext
        /\ top.fn = "expr" /\ top.pc = "operand"
    BY <1>1, TopExpr
  <1>3. Awaited(top) # {}
    BY <1>2 DEF Awaited
  <1>4. Sound(ctx, typed) /\ Holds(ctx, ret, typed) /\ (typed => Resolves(ctx.symbols, type))
    BY <1>2, <1>3, TopInFlight
  <1> HIDE DEF e
  <1>5. /\ Gives(ctx, r, typed)
        /\ ~r.ctx.error /\ typed => r.val.type = type[e]
        /\ IsTest(e) => IsTemp(r.val.place)
    <2>1. e \in Tree
      BY <1>2 DEF Tree
    <2>2. CASE e.kind = "CAST_INT"
      <3>1. r = quad_to_int(ctx, ret)
        BY <2>2
      <3>2. (typed => type[e] = INT) /\ ~IsTest(e)
        BY <1>4, <2>1, <2>2 DEF Resolves, IsTest
      <3> QED BY <1>2, <1>4, <3>1, <3>2, ToIntGives
    <2>3. CASE e.kind = "CAST_FLOAT"
      <3>1. r = quad_to_float(ctx, ret)
        BY <2>3
      <3>2. (typed => type[e] = FLOAT) /\ ~IsTest(e)
        BY <1>4, <2>1, <2>3 DEF Resolves, IsTest
      <3> QED BY <1>2, <1>4, <3>1, <3>2, ToFloatGives
    <2>4. CASE e.kind = "NOT"
      <3>1. r = quad_invert_bool(b.ctx, b.val)
        BY <2>4
      <3>2. typed => type[e] = INT
        BY <1>4, <2>1, <2>4 DEF Resolves
      <3>3. Gives(ctx, b, typed) /\ b.val.type = INT
        BY <1>2, <1>4, ToBoolIntGives
      <3> HIDE DEF b, r
      <3>4. b.ctx \in QuadContext /\ Sound(b.ctx, typed) /\ Grows(ctx, b.ctx, typed)
            /\ Holds(b.ctx, b.val, typed)
        BY <3>3 DEF Gives, Grows
      <3>5. Gives(b.ctx, r, typed) /\ r.val.type = INT /\ IsTemp(r.val.place)
        BY <3>1, <3>3, <3>4, InvertBoolGives
      <3>6. Gives(ctx, r, typed)
        BY <1>2, <3>4, <3>5, GivesTransitive
      <3> QED BY <3>2, <3>5, <3>6
    <2> QED BY <1>2, <2>2, <2>3, <2>4 DEF Unary
  <1> HIDE DEF r
  <1>6. Grows(ctx, ctx', typed) /\ (~ctx'.error => Yields(ctx', e, r.val, type, typed))
    BY <1>1, <1>5 DEF Gives, Holds, Yields
  <1> QED BY <1>1, <1>2, <1>6, OperandReturn DEF e

LEMMA ExprBinaryInFlight ==
  ASSUME NEW type, NEW checked, NEW symbols, NEW typed \in BOOLEAN, TypeOK,
         InFlight(type, checked, symbols, typed),
         ExprBinary
  PROVE  InFlight(type, checked, symbols, typed)'
  <1> DEFINE e == top.node
             l == top.val
             r == quad_emit_binary(ctx, e.op, l, ret)
  <1>1. AtNode("expr", {"BINARY"}, "right") /\ ctx' = r.ctx /\ Return(r.val)
    BY DEF ExprBinary
  <1>2. /\ stack # <<>> /\ e \in Expression \cup Condition /\ e.kind = "BINARY" /\ ctx \in QuadContext
        /\ top \in ExprFrame /\ top.fn = "expr" /\ top.pc = "right"
    BY <1>1, TopExpr
  <1>3. Awaited(top) = {e.right}
    BY <1>2 DEF Awaited
  <1>4. /\ Sound(ctx, typed) /\ Holds(ctx, ret, typed) /\ (typed => Resolves(ctx.symbols, type))
        /\ ~ctx.error => /\ Yields(ctx, e.right, ret, type, typed)
                         /\ Yields(ctx, e.left, l, type, typed)
    BY <1>2, <1>3, TopInFlight DEF KeepsValue
  <1>5. l \in QuadValue
    BY <1>2 DEF ExprFrame, FrameOf
  <1> HIDE DEF l
  <1>6. CASE ctx.error
    <2>1. r.ctx = ctx
      BY <1>6 DEF quad_emit_binary, Result
    <2>2. Grows(ctx, ctx', typed) /\ ctx'.error
      BY <1>1, <1>2, <1>4, <1>6, <2>1, GrowsReflexive
    <2> QED BY <1>1, <1>2, <2>2, OperandReturn
  <1>7. CASE ~ctx.error
    <2>1. Holds(ctx, l, typed) /\ (typed => l.type = type[e.left] /\ ret.type = type[e.right])
      BY <1>4, <1>5, <1>7 DEF Holds, Yields
    <2>2. e.op \in ArithOp \cup RelOp \cup BoolOp
      BY <1>2, ExpressionNode
    <2>3. /\ Gives(ctx, r, typed)
          /\ r.val.type = IF e.op \in ArithOp /\ quad_is_float(l, ret) THEN FLOAT ELSE INT
          /\ e.op \notin ArithOp => IsTemp(r.val.place)
      BY <1>2, <1>4, <1>7, <2>1, <2>2, BinaryGives
    <2> HIDE DEF r, e
    <2>4. typed => r.val.type = type[e]
      <3>1. typed => type[e] = IF e.op \in ArithOp /\ FLOAT \in {type[e.left], type[e.right]}
                               THEN FLOAT ELSE INT
        BY <1>2, <1>4 DEF Resolves, Tree
      <3> QED BY <2>1, <2>3, <3>1 DEF quad_is_float
    <2>5. IsTest(e) => IsTemp(r.val.place)
      BY <1>2, <2>3 DEF IsTest
    <2>6. Grows(ctx, ctx', typed) /\ (~ctx'.error => Yields(ctx', e, r.val, type, typed))
      BY <1>1, <2>3, <2>4, <2>5 DEF Gives, Holds, Yields
    <2> QED BY <1>1, <1>2, <2>6, OperandReturn DEF e
  <1> QED BY <1>2, <1>6, <1>7

LEMMA FinishInFlight ==
  ASSUME NEW type, NEW checked, NEW symbols, NEW typed \in BOOLEAN, TypeOK,
         InFlight(type, checked, symbols, typed),
         Finish
  PROVE  InFlight(type, checked, symbols, typed)'
  <1> DEFINE halt == quad_emitf(ctx, Quad("HALT", <<>>))
             signed == quad_emitf(halt, Quad("SIGNATURE", <<>>))
  <1>1. ctx' = (IF ctx.error THEN ctx ELSE signed) /\ stack = <<>> /\ stack' = stack
        /\ rc' # RUNNING
    BY DEF Finish, RUNNING
  <1>2. ctx \in QuadContext /\ Sound(ctx, typed)
        /\ (typed => TextsFit /\ Resolves(ctx.symbols, type) /\ Passes(ctx.symbols, type, checked))
    BY DEF TypeOK, InFlight
  <1>3. ASSUME NEW c \in QuadContext, Sound(c, typed), NEW op \in {"HALT", "SIGNATURE"}
        PROVE  LET d == quad_emitf(c, Quad(op, <<>>))
               IN  d \in QuadContext /\ Sound(d, typed) /\ d.symbols = c.symbols
    <2> DEFINE line == Quad(op, <<>>)
               d == quad_emitf(c, line)
    <2>1. op \in PlainOp /\ <<>> \in Seq(Place)
      BY DEF PlainOp, Op
    <2>2. line \in Line /\ line.op = op /\ line.args = <<>>
      BY <2>1, QuadLine DEF Quad
    <2> HIDE DEF line
    <2>3. /\ ~Computes(line) /\ ~ComputesTemp(line) /\ Sources(line) = {} /\ line.op # "JMPZ"
          /\ Len(line.args) = Arity(line.op)
      <3>1. DOMAIN line.args = {}
        BY <2>2
      <3> QED BY <2>2, <3>1 DEF Computes, ComputesTemp, Sources, Arity
    <2>4. Reads(c, line, typed)
      BY <2>3 DEF Reads
    <2> HIDE DEF d
    <2>5. d = quad_emitf(c, line)
      BY DEF d
    <2>6. Writes(c, d, line, typed)
      BY <1>3, <2>2, <2>3, <2>4, <2>5, EmitSound
    <2>7. d \in QuadContext /\ Sound(d, typed) /\ d.symbols = c.symbols
      BY <2>6 DEF Writes
    <2> QED BY <2>7 DEF line, d
  <1>4. halt \in QuadContext /\ Sound(halt, typed) /\ halt.symbols = ctx.symbols
    BY <1>2, <1>3
  <1> HIDE DEF halt
  <1>5. Sound(signed, typed) /\ signed.symbols = halt.symbols
    BY <1>3, <1>4
  <1> HIDE DEF signed
  <1>6. ctx'.symbols = ctx.symbols /\ Sound(ctx', typed)
    BY <1>1, <1>2, <1>4, <1>5
  <1> QED BY <1>1, <1>2, <1>6 DEF InFlight, depth
(***************************************************************************)
(* The theorems                                                            *)
(***************************************************************************)

LEMMA InFlightInitially ==
  ASSUME NEW type, NEW checked, NEW symbols, NEW typed \in BOOLEAN, Init,
         symbols = program.symbols, typed => TextsFit /\ IsTyping(program, type, checked)
  PROVE  InFlight(type, checked, symbols, typed)
  <1> DEFINE f == Stmt(program.body)
  <1>1. stack = <<f>> /\ ctx.out = <<>> /\ ctx.symbols = program.symbols /\ ~ctx.error
    BY DEF Init
  <1>2. f.pc = "enter" /\ (typed => FrameChecked(f, checked))
    BY NewFramesChecked DEF IsTyping, Stmt, Frame
  <1> HIDE DEF f
  <1>3. DOMAIN ctx.out = {} /\ depth = 1 /\ top = f /\ stack[1] = f
    BY <1>1 DEF depth, top
  <1>4. Sound(ctx, typed)
    BY <1>3 DEF Sound, TempTypes, OnceIn
  <1>5. Awaited(f) = {} /\ KeepsValue(ctx, f, type, typed)
    BY <1>2, EnteringAwaits
  <1>6. typed => TextsFit /\ Resolves(ctx.symbols, type) /\ Passes(ctx.symbols, type, checked)
    BY <1>1 DEF IsTyping
  <1>7. Unended(ctx)
    BY <1>3 DEF Unended
  <1> QED BY <1>1, <1>2, <1>3, <1>4, <1>5, <1>6, <1>7 DEF InFlight

LEMMA StatementStepInFlight ==
  ASSUME NEW type, NEW checked, NEW symbols, NEW typed \in BOOLEAN, TypeOK, NoDanglingBreakLabel,
         InFlight(type, checked, symbols, typed), StatementStep
  PROVE  InFlight(type, checked, symbols, typed)'
  BY StatementSkipInFlight, AssignExpressionInFlight, AssignInFlight, InputInFlight,
     OutputExpressionInFlight, OutputInFlight, IfConditionInFlight, IfThenInFlight,
     IfWithoutElseInFlight, IfElseInFlight, IfEndInFlight, WhileConditionInFlight,
     WhileBodyInFlight, WhileEndInFlight, SwitchExpressionInFlight, SwitchValueInFlight,
     SwitchCaseInFlight, SwitchNextInFlight, SwitchDefaultInFlight, SwitchEndInFlight,
     BreakInFlight, BlockInFlight, BlockEndInFlight
  DEF StatementStep

LEMMA InFlightKept ==
  ASSUME NEW type, NEW checked, NEW symbols, NEW typed \in BOOLEAN, TypeOK, NoDanglingBreakLabel,
         InFlight(type, checked, symbols, typed), [Next]_vars
  PROVE  InFlight(type, checked, symbols, typed)'
  <1>1. CASE StatementStep
    BY <1>1, StatementStepInFlight
  <1>2. CASE ListStep
    BY <1>2, ListNextInFlight, ListEndInFlight DEF ListStep
  <1>3. CASE ExprStep
    BY <1>3, ExprIdInFlight, ExprLiteralInFlight, ExprOperandInFlight, ExprUnaryInFlight,
       ExprLeftInFlight, ExprRightInFlight, ExprBinaryInFlight DEF ExprStep
  <1>4. CASE Finish
    BY <1>4, FinishInFlight
  <1>5. CASE UNCHANGED vars
    BY <1>5 DEF InFlight, vars, depth, top
  <1> QED BY <1>1, <1>2, <1>3, <1>4, <1>5 DEF Next, Step, Terminated

LEMMA ProgramStays == [Next]_vars => program' = program
  <1>1. StatementStep => program' = program
    BY DEF StatementStep, StatementSkip, AssignExpression, Assign, Input, OutputExpression, Output,
           IfCondition, IfThen, IfWithoutElse, IfElse, IfEnd, WhileCondition, WhileBody, WhileEnd,
           SwitchExpression, SwitchValue, SwitchCase, SwitchNext, SwitchDefault, SwitchEnd,
           Break, Block, BlockEnd, Constant, Silent
  <1>2. ListStep \/ ExprStep \/ Finish => program' = program
    BY DEF ListStep, ListNext, ListEnd, ExprStep, ExprId, ExprLiteral, ExprOperand, ExprUnary,
           ExprLeft, ExprRight, ExprBinary, Finish, Constant, Silent
  <1> QED BY <1>1, <1>2 DEF Next, Step, Terminated, vars

\* In every program, well typed or not, each temporary is computed by one line,
\* and the lines that read it come after that one.
THEOREM OneLinePerTemp == Spec => []TempsComputedOnce
  <1> DEFINE Inv == InFlight({}, {}, program.symbols, FALSE)
  <1>1. Init => Inv
    BY InFlightInitially
  <1>2. TypeOK /\ LabelInv /\ Inv /\ [Next]_vars => Inv'
    BY InFlightKept, ProgramStays DEF LabelInv
  <1>3. Inv => TempsComputedOnce
    BY DEF InFlight, Sound, OnceIn, TempsComputedOnce, ComputesTemp
  <1> QED BY <1>1, <1>2, <1>3, LabelInvariant, PTL DEF Spec

\* A place that is known holds a value of its type, whichever line one looks at
LEMMA KnownHasType ==
  ASSUME TypeOK, Sound(ctx, TRUE), NEW p \in Place, NEW t, Known(ctx, p, t, TRUE)
  PROVE  HasType(p, t)
  <1>1. CASE ~IsTemp(p)
    BY <1>1 DEF Known, HasType, TextHasType
  <1>2. CASE IsTemp(p)
    <2>1. PICK j \in DOMAIN ctx.out :
            /\ ComputesTemp(ctx.out[j]) /\ Target(ctx.out[j]).temp = p.temp
            /\ ResultType(ctx.out[j].op) = t
      BY <1>2 DEF Known, TempTypes
    <2>2. Target(ctx.out[j]) = p
      BY <1>2, <2>1, SameTemp DEF Sound, ComputesTemp
    <2>3. \A i \in DOMAIN ctx.out :
            Computes(ctx.out[i]) /\ Target(ctx.out[i]) = p => i = j
      BY <2>1, <2>2 DEF Sound, OnceIn
    <2> QED BY <1>2, <2>1, <2>3 DEF HasType
  <1> QED BY <1>1, <1>2

LEMMA SoundTyped ==
  ASSUME TypeOK, Sound(ctx, TRUE)
  PROVE  OperandsTyped
  <1> SUFFICES ASSUME NEW i \in DOMAIN ctx.out
               PROVE  /\ \A p \in Sources(ctx.out[i]) : HasType(p, OperandType(ctx.out[i].op))
                      /\ Computes(ctx.out[i]) => HasType(Target(ctx.out[i]), ResultType(ctx.out[i].op))
                      /\ ctx.out[i].op = "JMPZ" => IsTemp(ctx.out[i].args[1])
    BY DEF OperandsTyped
  <1> DEFINE line == ctx.out[i]
  <1>1. line \in Line /\ LineTyped(ctx, line) /\ (Computes(line) => Target(line) \in Place)
    BY ContextFields DEF TypeOK, Sound
  <1>2. Computes(line) /\ IsTemp(Target(line)) =>
          <<Target(line).temp, ResultType(line.op)>> \in TempTypes(ctx.out)
    BY DEF TempTypes, ComputesTemp
  <1> HIDE DEF line
  <1>3. \A p \in Sources(line) : HasType(p, OperandType(line.op))
    <2>1. line.args \in Seq(Place)
      BY <1>1 DEF Line
    <2>2. Sources(line) \subseteq Place
      BY <2>1 DEF Sources
    <2> QED BY <1>1, <2>2, KnownHasType DEF LineTyped
  <1>4. Computes(line) => HasType(Target(line), ResultType(line.op))
    <2>1. Computes(line) => Known(ctx, Target(line), ResultType(line.op), TRUE)
      BY <1>1, <1>2 DEF LineTyped, Known
    <2> QED BY <1>1, <2>1, KnownHasType
  <1>5. line.op = "JMPZ" => IsTemp(line.args[1])
    BY <1>1 DEF LineTyped
  <1> QED BY <1>3, <1>4, <1>5 DEF line

\* The invariant, of some typing of the program
TypedInFlight ==
  \E type \in [Tree -> AstType], checked \in SUBSET Statement :
    InFlight(type, checked, program.symbols, TRUE)

LEMMA TypedInitially ==
  ASSUME TextsFit, \A p \in Program : WellTyped(p), Init
  PROVE  TypedInFlight
  <1>1. PICK type \in [Tree -> AstType], checked \in SUBSET Statement :
          IsTyping(program, type, checked)
    BY DEF Init, WellTyped
  <1>2. InFlight(type, checked, program.symbols, TRUE)
    BY <1>1, InFlightInitially
  <1> QED BY <1>2 DEF TypedInFlight

LEMMA TypedKept == TypeOK /\ LabelInv /\ TypedInFlight /\ [Next]_vars => TypedInFlight'
  BY InFlightKept, ProgramStays DEF LabelInv, TypedInFlight

\* In every program that has passed the semantic check, and whose texts are not
\* cut off, each operand has the type that its opcode asks for, and a test looks
\* at a temporary.
THEOREM OperandsAlwaysTyped ==
  ASSUME TextsFit, \A p \in Program : WellTyped(p)
  PROVE  Spec => []OperandsTyped
  <1>1. Init => TypedInFlight
    BY TypedInitially
  <1>2. TypeOK /\ TypedInFlight => OperandsTyped
    BY SoundTyped DEF TypedInFlight, InFlight
  <1> QED BY <1>1, <1>2, TypedKept, LabelInvariant, PTL DEF Spec
==============================================================================
