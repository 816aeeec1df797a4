--------------------------- MODULE GenerateProofs ---------------------------
(***************************************************************************)
(* Proofs about both stages of quad_generate together, and about the run   *)
(* of what they leave.  What is proved of each stage alone is used here:   *)
(* of the second one for the files that the first one leaves, by the       *)
(* instance P; of the first one with the types of a checked program, for   *)
(* the interpreter.                                                        *)
(***************************************************************************)
EXTENDS Execution, QuadEmitOperandProofs, FiniteSetTheorems

P == INSTANCE QuadFinalizeProofs WITH in <- tmp, rc <- frc, Line <- TmpLine, File <- TmpFile

(***************************************************************************)
(* What the second stage assumes of its files and its constants            *)
(***************************************************************************)

LEMMA LineOk == P!LineAssumption
  BY DEF P!LineAssumption, TmpLine
LEMMA FilesFit == P!FileAssumption
  BY DEF P!FileAssumption, TmpFile, DistinctLabels, IsLabel
LEMMA ConstantsFit == P!CapAssumption /\ P!FaultAssumption
  BY FinalizeAssumption DEF P!CapAssumption, P!FaultAssumption, Asm!FaultKind, P!FaultKind

\* The lines of the temporary file, when each is read at once
TmpOf(out) == [i \in DOMAIN out |-> Whole(out[i])]

LEMMA TmpOfFits ==
  ASSUME NEW out \in Seq(Line), DistinctLabels(out)
  PROVE  /\ TmpOf(out) \in TmpFile
         /\ TmpOf(out) \in Seq(TmpLine) /\ Len(TmpOf(out)) = Len(out)
         /\ DOMAIN TmpOf(out) = DOMAIN out
         /\ \A i \in DOMAIN out :
              /\ TmpOf(out)[i].op = out[i].op /\ TmpOf(out)[i].label = out[i].label
              /\ TmpOf(out)[i].args = out[i].args /\ TmpOf(out)[i].ends /\ out[i].op \in Op
  <1>1. DOMAIN out = 1 .. Len(out) /\ Len(out) \in Nat
    OBVIOUS
  <1>2. \A i \in DOMAIN out : out[i] \in Line
    OBVIOUS
  <1>3. ASSUME NEW i \in DOMAIN out
        PROVE  Whole(out[i]) \in TmpLine
    BY <1>2 DEF TmpLine, Line, Whole
  <1>4. TmpOf(out) \in Seq(TmpLine) /\ Len(TmpOf(out)) = Len(out)
    BY <1>1, <1>3 DEF TmpOf
  <1>5. ASSUME NEW i \in DOMAIN out
        PROVE  /\ TmpOf(out)[i].op = out[i].op /\ TmpOf(out)[i].label = out[i].label
               /\ TmpOf(out)[i].args = out[i].args /\ TmpOf(out)[i].ends
    BY DEF TmpOf, Whole
  <1>6. DistinctLabels(TmpOf(out))
    <2>1. DOMAIN TmpOf(out) = DOMAIN out
      BY DEF TmpOf
    <2> QED BY <1>5, <2>1 DEF DistinctLabels, IsLabel
  <1>7. \A i \in DOMAIN out : out[i].op \in Op
    BY <1>2 DEF Line
  <1>8. DOMAIN TmpOf(out) = DOMAIN out
    BY DEF TmpOf
  <1> QED BY <1>4, <1>5, <1>6, <1>7, <1>8 DEF TmpFile

(***************************************************************************)
(* The second stage of Generate takes the steps of QuadFinalize            *)
(***************************************************************************)

LEMMA LookupSame == Asm!target_line = P!target_line
  BY DEF Asm!target_line, P!target_line, Asm!quad_find_label, P!quad_find_label, Asm!line, P!line

LEMMA ReadsSame ==
  /\ Asm!AtEnd <=> P!AtEnd
  /\ Asm!line = P!line
  /\ Asm!Next_line <=> P!Next_line
  /\ Asm!Ends <=> P!Ends
  /\ \A p, op : Asm!Reads(p, op) <=> P!Reads(p, op)
  /\ \A result : Asm!Return(result) <=> P!Return(result)
  /\ \A l : Asm!A!IsSymbolic(l) <=> P!A!IsSymbolic(l)
  BY DEF Asm!AtEnd, P!AtEnd, Asm!line, P!line, Asm!Next_line, P!Next_line, Asm!Ends, P!Ends,
         Asm!Reads, P!Reads, Asm!Return, P!Return,
         Asm!A!IsSymbolic, P!A!IsSymbolic, Asm!A!Jumps, P!A!Jumps

LEMMA StepSame == Asm!Step => P!Step
  <1> USE ReadsSame
  <1>1. Asm!Alloc => P!Alloc
    BY DEF Asm!Alloc, P!Alloc
  <1>2. Asm!AllocFails => P!AllocFails
    BY DEF Asm!AllocFails, P!AllocFails
  <1>3. Asm!NoteLabel => P!NoteLabel
    <2>1. \A c, n : Asm!labels_grow(c, n) = P!labels_grow(c, n)
      BY DEF Asm!labels_grow, P!labels_grow, Asm!Min, P!Min
    <2> QED BY <2>1 DEF Asm!NoteLabel, P!NoteLabel
  <1>4. Asm!GrowFails => P!GrowFails
    BY DEF Asm!GrowFails, P!GrowFails
  <1>5. Asm!CountLine => P!CountLine
    BY DEF Asm!CountLine, P!CountLine
  <1>6. Asm!SkipBlank => P!SkipBlank
    BY DEF Asm!SkipBlank, P!SkipBlank
  <1>7. Asm!Rewind => P!Rewind
    BY DEF Asm!Rewind, P!Rewind
  <1>8. Asm!SkipLabel => P!SkipLabel
    BY DEF Asm!SkipLabel, P!SkipLabel
  <1>9. Asm!ReadsJump => P!ReadsJump
    BY DEF Asm!ReadsJump, P!ReadsJump
  <1>10. Asm!ResolveJump => P!ResolveJump
    BY <1>9, LookupSame DEF Asm!ResolveJump, P!ResolveJump, Asm!A!Resolved, P!A!Resolved
  <1>11. Asm!CopyLine => P!CopyLine
    BY DEF Asm!CopyLine, P!CopyLine, Asm!A!Copied, P!A!Copied
  <1>12. Asm!UnresolvedLabel => P!UnresolvedLabel
    BY <1>9, LookupSame DEF Asm!UnresolvedLabel, P!UnresolvedLabel
  <1>13. Asm!PrintFails => P!PrintFails
    BY LookupSame DEF Asm!PrintFails, P!PrintFails
  <1>14. Asm!Finish => P!Finish
    BY DEF Asm!Finish, P!Finish
  <1> QED
    BY <1>1, <1>2, <1>3, <1>4, <1>5, <1>6, <1>7, <1>8, <1>10, <1>11, <1>12, <1>13, <1>14
    DEF Asm!Step, P!Step

(***************************************************************************)
(* The invariant                                                           *)
(***************************************************************************)

\* A program that is complete ends with HALT and SIGNATURE
Closed ==
  rc = 0 => /\ Len(ctx.out) >= 2
            /\ ctx.out[Len(ctx.out) - 1].op = "HALT"
            /\ ctx.out[Len(ctx.out)].op = "SIGNATURE"

\* The second stage has not begun, or it works on what the first one left
Waits ==
  pass = WAITING =>
    /\ final = <<>> /\ frc = Asm!RUNNING /\ pos = 1
    /\ labels = <<>> /\ cap = 0 /\ current_line = 0
Handed ==
  /\ pass # WAITING => rc = 0
  /\ pass # "done" => frc = Asm!RUNNING
\* What fgets reads are the lines that were written, if each of them fits
HandedWhole == pass # WAITING /\ LinesFit => tmp = TmpOf(ctx.out) /\ P!IInv

GInv == TypeOK /\ LabelInv /\ Closed /\ Waits /\ Handed /\ HandedWhole

LEMMA SameFits == UNCHANGED ctx => (LinesFit' <=> LinesFit)
  BY DEF LinesFit, Fits, Length, Operand, PlaceLength, Digits

\* After quad_first_stage has returned it takes no step
LEMMA StepRuns == LabelInv /\ Step => rc = RUNNING
  <1> SUFFICES ASSUME LabelInv, Step PROVE stack # <<>> \/ rc = RUNNING
    BY DEF LabelInv
  <1>1. StatementStep => stack # <<>>
    BY DEF StatementStep, StatementSkip, AssignExpression, Assign, Input, OutputExpression, Output,
           IfCondition, IfThen, IfWithoutElse, IfElse, IfEnd, WhileCondition, WhileBody, WhileEnd,
           SwitchExpression, SwitchValue, SwitchCase, SwitchNext, SwitchDefault, SwitchEnd,
           Break, Block, BlockEnd, Enter, Resume, AtNode, At
  <1>2. ListStep => stack # <<>>
    BY DEF ListStep, ListNext, ListEnd, At
  <1>3. ExprStep => stack # <<>>
    BY DEF ExprStep, ExprId, ExprLiteral, ExprOperand, ExprUnary, ExprLeft, ExprRight, ExprBinary,
           AtNode, At
  <1>4. Finish => rc = RUNNING
    BY DEF Finish
  <1> QED BY <1>1, <1>2, <1>3, <1>4 DEF Step

\* Only its end decides on its result
LEMMA OnlyFinishReturns == Step => Finish \/ rc' = rc
  <1>1. StatementStep => rc' = rc
    BY DEF StatementStep, StatementSkip, AssignExpression, Assign, Input, OutputExpression, Output,
           IfCondition, IfThen, IfWithoutElse, IfElse, IfEnd, WhileCondition, WhileBody, WhileEnd,
           SwitchExpression, SwitchValue, SwitchCase, SwitchNext, SwitchDefault, SwitchEnd,
           Break, Block, BlockEnd, Constant, Silent
  <1>2. ListStep => rc' = rc
    BY DEF ListStep, ListNext, ListEnd, Constant, Silent
  <1>3. ExprStep => rc' = rc
    BY DEF ExprStep, ExprId, ExprLiteral, ExprOperand, ExprUnary, ExprLeft, ExprRight, ExprBinary,
           Constant, Silent
  <1> QED BY <1>1, <1>2, <1>3 DEF Step

\* A line that is written without a failure is the last one
LEMMA EmitsLast ==
  ASSUME NEW c \in QuadContext, NEW line \in Line, ~quad_emitf(c, line).error
  PROVE  /\ quad_emitf(c, line).out = Append(c.out, line)
         /\ ~c.error /\ Len(Append(c.out, line)) = Len(c.out) + 1
         /\ Append(c.out, line)[Len(c.out) + 1] = line
         /\ \A i \in 1 .. Len(c.out) : Append(c.out, line)[i] = c.out[i]
  <1>1. ~c.error /\ ~(Len(c.out) >= c.capacity)
    BY DEF quad_emitf, QuadContext
  <1>2. quad_emitf(c, line) = [c EXCEPT !.out = Append(@, line)]
    BY <1>1 DEF quad_emitf
  <1>3. quad_emitf(c, line).out = Append(c.out, line) /\ c.out \in Seq(Line)
    BY <1>2 DEF QuadContext
  <1> QED BY <1>1, <1>3

LEMMA FinishCloses == ASSUME TypeOK, Finish PROVE Closed'
  <1> DEFINE H == Quad("HALT", <<>>)
             S == Quad("SIGNATURE", <<>>)
             halt == quad_emitf(ctx, H)
             n == Len(ctx.out)
  <1> SUFFICES ASSUME rc' = 0
               PROVE  /\ Len(ctx'.out) >= 2 /\ ctx'.out[Len(ctx'.out) - 1].op = "HALT"
                      /\ ctx'.out[Len(ctx'.out)].op = "SIGNATURE"
    BY DEF Closed
  <1>1. H \in Line /\ S \in Line /\ H.op = "HALT" /\ S.op = "SIGNATURE"
    <2>1. <<>> \in Seq(Place) /\ "HALT" \in Op /\ "SIGNATURE" \in Op
      BY DEF Op
    <2> QED BY <2>1 DEF Quad, Line
  <1>2. ~ctx'.error /\ ctx' = quad_emitf(halt, S) /\ ctx \in QuadContext
    BY DEF Finish, TypeOK
  <1> HIDE DEF H, S
  <1>3. halt \in QuadContext
    BY <1>1, <1>2, EmitLine
  <1> HIDE DEF halt
  <1>4. /\ ctx'.out = Append(halt.out, S) /\ ~halt.error
        /\ Len(ctx'.out) = Len(halt.out) + 1 /\ ctx'.out[Len(halt.out) + 1] = S
        /\ \A i \in 1 .. Len(halt.out) : ctx'.out[i] = halt.out[i]
    BY <1>1, <1>2, <1>3, EmitsLast
  <1>5. Len(halt.out) = n + 1 /\ halt.out[n + 1] = H
    BY <1>1, <1>2, <1>4, EmitsLast DEF halt
  <1>6. n \in Nat
    BY <1>2 DEF QuadContext
  <1>7. n + 1 \in 1 .. n + 1 /\ n + 1 + 1 - 1 = n + 1 /\ n + 1 + 1 >= 2
    BY <1>6
  <1> QED BY <1>1, <1>4, <1>5, <1>7

LEMMA GenerateInitially == GenerateInit => GInv
  <1> SUFFICES ASSUME GenerateInit PROVE GInv
    OBVIOUS
  <1>1. TypeOK /\ LabelInv
    BY Initially DEF GenerateInit
  <1>2. rc # 0
    BY DEF GenerateInit, Init, RUNNING
  <1> QED BY <1>1, <1>2 DEF GInv, Closed, Waits, Handed, HandedWhole, GenerateInit

LEMMA FirstKeeps == ASSUME GInv, First PROVE GInv'
  <1>1. Step /\ UNCHANGED finalizeVars
    BY DEF First
  <1>2. TypeOK' /\ LabelInv'
    BY <1>1, Inductive DEF GInv, Next
  <1>3. rc = RUNNING
    BY <1>1, StepRuns DEF GInv
  <1>4. Closed'
    <2>1. CASE Finish
      BY <2>1, FinishCloses DEF GInv
    <2>2. CASE rc' = rc
      BY <1>3, <2>2 DEF Closed, RUNNING
    <2> QED BY <1>1, <2>1, <2>2, OnlyFinishReturns
  <1>5. pass = WAITING
    BY <1>3 DEF GInv, Handed, RUNNING
  <1>6. Waits' /\ Handed' /\ HandedWhole'
    BY <1>1, <1>5 DEF GInv, Waits, Handed, HandedWhole, finalizeVars
  <1> QED BY <1>2, <1>4, <1>6 DEF GInv

LEMMA SecondKeeps == ASSUME GInv, Second PROVE GInv'
  <1>1. /\ rc = 0 /\ pass = WAITING /\ tmp' = AsRead(ctx.out) /\ pass' = "alloc"
        /\ UNCHANGED <<vars, final, frc, pos, labels, cap, current_line>>
    BY DEF Second, emitVars
  <1>2. UNCHANGED <<ctx, rc>>
    BY <1>1 DEF vars
  <1>3. TypeOK' /\ LabelInv'
    BY <1>1, Inductive DEF GInv
  <1>4. Closed' /\ Waits'
    BY <1>1, <1>2 DEF GInv, Closed, Waits, WAITING
  <1>5. Handed'
    BY <1>1, <1>2 DEF GInv, Waits, Handed
  <1>6. ASSUME LinesFit PROVE tmp' = TmpOf(ctx.out) /\ tmp' \in TmpFile
    <2>1. tmp' = TmpOf(ctx.out)
      BY <1>1, <1>6 DEF AsRead, LinesFit, TmpOf
    <2> QED BY <2>1, TmpOfFits DEF GInv, TypeOK, LabelInv, LabelsUnique, QuadContext
  <1>7. LinesFit => (P!Init)'
    BY <1>1, <1>6 DEF GInv, Waits, P!Init, P!RUNNING, P!A!RUNNING, Asm!RUNNING, Asm!A!RUNNING
  <1>8. (P!Init => P!IInv)'
    BY LineOk, FilesFit, ConstantsFit, P!Initially, PTL
  <1>9. HandedWhole'
    BY <1>2, <1>6, <1>7, <1>8, SameFits DEF HandedWhole
  <1> QED BY <1>3, <1>4, <1>5, <1>9 DEF GInv

\* The second stage never goes back, and has no result before it returns
LEMMA StageGoesOn ==
  P!Step => /\ UNCHANGED tmp /\ pass' \in {pass, "labels", "jumps", "done"}
            /\ pass' = "done" \/ frc' = frc
  BY DEF P!Step, P!Alloc, P!AllocFails, P!NoteLabel, P!GrowFails, P!CountLine, P!SkipBlank,
         P!Rewind, P!SkipLabel, P!ResolveJump, P!CopyLine, P!UnresolvedLabel, P!PrintFails, P!Finish,
         P!Return, P!Reads

\* It has not been left
LEMMA StageRuns == P!Step => pass # "done"
  BY DEF P!Step, P!Alloc, P!AllocFails, P!NoteLabel, P!GrowFails, P!CountLine, P!SkipBlank,
         P!Rewind, P!SkipLabel, P!ReadsJump, P!ResolveJump, P!CopyLine, P!UnresolvedLabel,
         P!PrintFails, P!Finish, P!Reads

LEMMA FinalizeKeeps ==
  ASSUME GInv, pass # WAITING, P!Step \/ UNCHANGED P!vars, UNCHANGED <<emitVars, tmp>>
  PROVE  GInv'
  <1>1. TypeOK' /\ LabelInv'
    BY Inductive DEF GInv, emitVars
  <1>2. UNCHANGED <<ctx, rc, tmp>>
    BY DEF emitVars, vars
  <1>3. pass' # WAITING /\ (pass' # "done" => frc' = Asm!RUNNING)
    <2>1. CASE P!Step
      <3>1. pass # "done" /\ frc = Asm!RUNNING
        BY <2>1, StageRuns DEF GInv, Handed
      <3> QED BY <2>1, <3>1, StageGoesOn DEF WAITING
    <2>2. CASE UNCHANGED P!vars
      BY <2>2 DEF P!vars, GInv, Handed
    <2> QED BY <2>1, <2>2
  <1>4. Closed' /\ Handed' /\ Waits'
    BY <1>2, <1>3 DEF GInv, Closed, Handed, Waits
  <1>5. ASSUME LinesFit PROVE P!IInv'
    BY <1>5, LineOk, FilesFit, ConstantsFit, P!Inductive DEF GInv, HandedWhole, P!Next
  <1>6. HandedWhole'
    BY <1>2, <1>5, SameFits DEF GInv, HandedWhole
  <1> QED BY <1>1, <1>4, <1>6 DEF GInv

LEMMA GenerateInductive == GInv /\ [GenerateNext]_generateVars => GInv'
  <1> SUFFICES ASSUME GInv, [GenerateNext]_generateVars PROVE GInv'
    OBVIOUS
  <1>1. CASE First
    BY <1>1, FirstKeeps
  <1>2. CASE Second
    BY <1>2, SecondKeeps
  <1>3. CASE Finalize
    <2>1. pass # WAITING /\ P!Step /\ UNCHANGED emitVars
      BY <1>3, StepSame DEF Finalize
    <2> QED BY <2>1, StageGoesOn, FinalizeKeeps
  <1>4. CASE UNCHANGED generateVars
    <2>1. UNCHANGED <<emitVars, tmp, final, frc, pass, pos, labels, cap, current_line>>
      BY <1>4 DEF generateVars, finalizeVars
    <2>2. CASE pass # WAITING
      BY <2>1, <2>2, FinalizeKeeps DEF P!vars
    <2>3. CASE pass = WAITING
      <3>1. TypeOK' /\ LabelInv'
        BY <2>1, Inductive DEF GInv, emitVars
      <3>2. UNCHANGED <<ctx, rc>>
        BY <2>1 DEF emitVars, vars
      <3> QED BY <2>1, <2>3, <3>1, <3>2 DEF GInv, Closed, Waits, Handed, HandedWhole
    <2> QED BY <2>2, <2>3
  <1> QED BY <1>1, <1>2, <1>3, <1>4 DEF GenerateNext, GenerateStep

\* What the two stages keep true together: what the first keeps alone, that the
\* second works on a complete program of the first, and, if every line of it is
\* read at once, what the second keeps alone.
THEOREM GenerateInvariant == GenerateSpec => []GInv
  BY GenerateInitially, GenerateInductive, PTL DEF GenerateSpec

(***************************************************************************)
(* Which programs have lines that fit                                      *)
(***************************************************************************)

LEMMA FewDigits == \A n : Digits(n) \in 1 .. 10
  <1> SUFFICES ASSUME NEW n PROVE Digits(n) \in 1 .. 10
    OBVIOUS
  <1> DEFINE K == {k \in 1 .. 9 : 10^k <= n}
  <1>1. IsFiniteSet(1 .. 9) /\ Cardinality(1 .. 9) = 9
    <2>1. \A a, b \in Int :
            IsFiniteSet(a .. b) /\ Cardinality(a .. b) = IF a > b THEN 0 ELSE b - a + 1
      BY FS_Interval, Zenon
    <2>2. (9 - 1) + 1 = 9 /\ ~(1 > 9) /\ 1 \in Int /\ 9 \in Int
      OBVIOUS
    <2> QED BY <2>1, <2>2
  <1>2. K \in SUBSET (1 .. 9)
    OBVIOUS
  <1>3. IsFiniteSet(K) /\ Cardinality(K) <= 9
    BY <1>1, <1>2, FS_Subset
  <1>4. Cardinality(K) \in Nat
    BY <1>3, FS_CardinalityType
  <1> QED BY <1>3, <1>4 DEF Digits

\* 5 + 3 * 31 characters at most
LEMMA ShortLineFits ==
  ASSUME \A t \in Text : Width[t] <= 30, MAX_LINE_LENGTH >= 99, NEW line \in Line
  PROVE  Fits(line)
  <1>1. ASSUME NEW k \in 1 .. 3 PROVE Operand(line, k) \in 0 .. 31
    <2>1. CASE k \notin DOMAIN line.args
      BY <2>1 DEF Operand
    <2>2. CASE k \in DOMAIN line.args
      <3>1. line.args[k] \in Place
        BY <2>2 DEF Line
      <3>2. CASE "temp" \in DOMAIN line.args[k]
        BY <2>2, <3>2, FewDigits DEF Operand, PlaceLength
      <3>3. CASE "temp" \notin DOMAIN line.args[k]
        <4>1. line.args[k].text \in Text
          BY <3>1, <3>3 DEF Place
        <4>2. Width[line.args[k].text] \in 0 .. 30
          BY <4>1, WidthAssumption
        <4> QED BY <2>2, <3>3, <4>2 DEF Operand, PlaceLength
      <3> QED BY <3>2, <3>3
    <2> QED BY <2>1, <2>2
  <1>2. Operand(line, 1) \in 0 .. 31 /\ Operand(line, 2) \in 0 .. 31 /\ Operand(line, 3) \in 0 .. 31
    BY <1>1
  <1>3. Length(line) <= 98
    <2>1. CASE line.op \in {"SIGNATURE", "LABEL", "JUMP", "JMPZ"}
      BY <1>2, <2>1, FewDigits DEF Length
    <2>2. CASE line.op \notin {"SIGNATURE", "LABEL", "JUMP", "JMPZ"}
      BY <1>2, <2>2 DEF Length
    <2> QED BY <2>1, <2>2
  <1>4. Length(line) \in Int
    BY <1>2, FewDigits DEF Length
  <1> QED BY <1>3, <1>4, WidthAssumption DEF Fits

\* A program none of whose names and literals has more than 30 characters: all its
\* lines fit into the 100 characters of the buffer (quad.h:13).  What is proved of
\* programs whose lines fit is thus true of these.
THEOREM ShortTextsFit ==
  ASSUME \A t \in Text : Width[t] <= 30, MAX_LINE_LENGTH >= 99
  PROVE  GenerateSpec => []LinesFit
  <1>1. GInv => LinesFit
    BY ShortLineFits DEF GInv, TypeOK, QuadContext, LinesFit
  <1> QED BY <1>1, GenerateInvariant, PTL

(***************************************************************************)
(* Where the jumps go                                                      *)
(***************************************************************************)

LEMMA SameCount ==
  \A S : P!Cardinality(S) = Cardinality(S) /\ P!A!Cardinality(S) = Cardinality(S)
  BY DEF P!Cardinality, P!A!Cardinality, Cardinality

LEMMA CodeIsInstructions ==
  ASSUME GInv, LinesFit, pass # WAITING
  PROVE  Cardinality(P!A!Instructions(tmp)) = Cardinality(Code)
  <1>1. /\ DOMAIN tmp = DOMAIN ctx.out
        /\ \A i \in DOMAIN ctx.out : tmp[i].op = ctx.out[i].op /\ ctx.out[i].op \in Op
    BY TmpOfFits DEF GInv, HandedWhole, TypeOK, QuadContext, LabelInv, LabelsUnique
  <1>2. P!A!Instructions(tmp) = Code
    BY <1>1 DEF P!A!Instructions, P!A!IsInstruction, Code, IsLabel, Op
  <1> QED BY <1>2

\* The temporary file ends with HALT and SIGNATURE, the last two lines of the code
LEMMA EndOfCode ==
  ASSUME GInv, LinesFit, pass # WAITING
  PROVE  LET N == Len(ctx.out) IN
         /\ ctx.out \in Seq(Line) /\ tmp \in Seq(TmpLine) /\ Len(tmp) = N
         /\ N \in Nat /\ N >= 2 /\ ctx.out[N - 1].op = "HALT" /\ ctx.out[N].op = "SIGNATURE"
         /\ Cardinality(Code) \in Nat
         /\ P!A!Before(tmp, N - 1) \in Nat /\ P!A!Before(tmp, N - 1) + 2 = Cardinality(Code)
         /\ P!A!Before(tmp, N) + 1 = Cardinality(Code)
  <1> DEFINE N == Len(ctx.out)
             B(i) == P!A!Before(tmp, i)
  <1>1. rc = 0 /\ tmp = TmpOf(ctx.out) /\ ctx.out \in Seq(Line) /\ DistinctLabels(ctx.out)
    BY DEF GInv, Handed, HandedWhole, TypeOK, QuadContext, LabelInv, LabelsUnique
  <1>2. /\ tmp \in Seq(TmpLine) /\ Len(tmp) = N /\ DOMAIN tmp = 1 .. N
        /\ \A i \in 1 .. N : tmp[i].op = ctx.out[i].op
    BY <1>1, TmpOfFits
  <1>3. /\ N \in Nat /\ N >= 2 /\ ctx.out[N - 1].op = "HALT" /\ ctx.out[N].op = "SIGNATURE"
    BY <1>1 DEF GInv, Closed
  <1> HIDE DEF N
  <1>4. /\ N - 1 \in 1 .. N /\ N \in 1 .. N /\ N - 1 + 1 = N /\ N - 1 \in 1 .. N + 1
    BY <1>3
  <1>5. P!A!IsInstruction(tmp[N - 1]) /\ P!A!IsInstruction(tmp[N])
    BY <1>2, <1>3, <1>4 DEF P!A!IsInstruction
  <1>6. B(N) = B(N - 1) + 1 /\ B(N + 1) = B(N) + 1
    BY <1>2, <1>4, <1>5, LineOk, FilesFit, ConstantsFit, P!BeforeNext
  <1>7. B(N - 1) \in Nat
    BY <1>2, <1>4, LineOk, FilesFit, ConstantsFit, P!BeforeIsNat
  <1>8. B(N + 1) = Cardinality(Code)
    BY <1>2, LineOk, FilesFit, ConstantsFit, P!BeforeEnd, SameCount, CodeIsInstructions
  <1> HIDE DEF B
  <1>9. B(N - 1) + 2 = Cardinality(Code) /\ B(N) + 1 = Cardinality(Code) /\ Cardinality(Code) \in Nat
    BY <1>6, <1>7, <1>8
  <1> QED BY <1>1, <1>2, <1>3, <1>7, <1>9 DEF B, N

\* Below the definition of a label there are two lines of code at least
LEMMA LabelsAreInside ==
  ASSUME GInv, LinesFit, pass # WAITING, NEW d \in DOMAIN ctx.out, IsLabel(ctx.out[d])
  PROVE  /\ P!A!Before(tmp, d) \in Nat
         /\ P!A!Before(tmp, d) + 2 <= Cardinality(Code)
         /\ Cardinality(Code) \in Nat
  <1> DEFINE N == Len(ctx.out)
             B(i) == P!A!Before(tmp, i)
  <1>1. /\ tmp \in Seq(TmpLine) /\ Len(tmp) = N /\ N \in Nat /\ N >= 2 /\ d \in 1 .. N
        /\ ctx.out[N - 1].op = "HALT" /\ ctx.out[N].op = "SIGNATURE"
        /\ B(N - 1) \in Nat /\ B(N - 1) + 2 = Cardinality(Code) /\ Cardinality(Code) \in Nat
    BY EndOfCode
  <1>2. d # N /\ d # N - 1
    BY <1>1 DEF IsLabel
  <1> HIDE DEF N
  <1>3. d \in 1 .. N - 1 /\ N - 1 \in 1 .. N + 1 /\ d \in 1 .. N + 1
    BY <1>1, <1>2
  <1>4. B(d) <= B(N - 1)
    BY <1>1, <1>3, LineOk, FilesFit, ConstantsFit, P!BeforeMonotone
  <1>5. B(d) \in Nat
    BY <1>1, <1>3, LineOk, FilesFit, ConstantsFit, P!BeforeIsNat
  <1> HIDE DEF B
  <1>6. B(d) \in Nat /\ B(d) + 2 <= Cardinality(Code) /\ Cardinality(Code) \in Nat
    BY <1>1, <1>4, <1>5
  <1> QED BY <1>6 DEF B

\* The label of a jump in the file that the second stage reads is defined there
LEMMA JumpsDefined ==
  ASSUME GInv, pass # WAITING, NEW i \in DOMAIN ctx.out, IsJump(ctx.out[i])
  PROVE  /\ ctx.out[i].label # 0
         /\ \E d \in DOMAIN ctx.out : IsLabel(ctx.out[d]) /\ ctx.out[d].label = ctx.out[i].label
  <1>1. rc = 0
    BY DEF GInv, Handed
  <1>2. ctx.out[i].label \in LabelsIn(ctx.out)
    <2>1. ctx.out[i].label \in JumpsIn(ctx.out)
      BY DEF JumpsIn
    <2>2. stack = <<>> /\ ~ctx.error
      BY <1>1 DEF GInv, LabelInv, RUNNING
    <2>3. 1 .. depth = {}
      BY <2>2 DEF depth
    <2> QED BY <2>1, <2>2, <2>3 DEF GInv, LabelInv, JumpsOwed
  <1>3. ctx.out[i].label # 0
    BY <1>2 DEF GInv, LabelInv, OwedOnce
  <1> QED BY <1>2, <1>3 DEF LabelsIn

LEMMA JumpsInside == GInv => JumpsStayInCode
  <1> SUFFICES ASSUME GInv, LinesFit, NEW n \in DOMAIN final, IsJump(final[n])
               PROVE  final[n].target \in 1 .. Cardinality(Code) - 1
    BY DEF JumpsStayInCode
  <1>1. pass # WAITING
    BY DEF GInv, Waits
  <1>2. tmp = TmpOf(ctx.out) /\ P!IInv /\ ctx.out \in Seq(Line)
    BY <1>1 DEF GInv, HandedWhole, TypeOK, QuadContext
  <1>3. /\ DOMAIN tmp = DOMAIN ctx.out
        /\ \A i \in DOMAIN ctx.out : tmp[i].op = ctx.out[i].op /\ tmp[i].label = ctx.out[i].label
    BY <1>2, TmpOfFits DEF GInv, LabelInv, LabelsUnique
  <1>4. PICK i \in P!A!Instructions(tmp) : final[n] = P!A!Instruction(tmp, i)
    BY <1>2 DEF P!IInv, P!Types
  <1>5. i \in DOMAIN ctx.out
    BY <1>3 DEF P!A!Instructions
  <1>6. IsJump(ctx.out[i])
    <2>1. final[n].op = tmp[i].op
      BY <1>4 DEF P!A!Instruction, P!A!Resolved, P!A!Copied
    <2> QED BY <1>3, <1>5, <2>1 DEF IsJump
  <1>7. ctx.out[i].label # 0
    BY <1>1, <1>5, <1>6, JumpsDefined
  <1>8. PICK d \in DOMAIN ctx.out : IsLabel(ctx.out[d]) /\ ctx.out[d].label = ctx.out[i].label
    BY <1>1, <1>5, <1>6, JumpsDefined
  <1>9. P!A!IsSymbolic(tmp[i])
    BY <1>3, <1>5, <1>6, <1>7 DEF P!A!IsSymbolic, P!A!Jumps, IsJump
  <1>10. final[n].target = P!A!LineOf(tmp, tmp[i].label)
    BY <1>4, <1>9 DEF P!A!Instruction, P!A!Resolved
  <1>11. d \in P!A!DefinesAt(tmp, tmp[i].label)
    BY <1>3, <1>5, <1>8 DEF P!A!DefinesAt, IsLabel
  <1>12. final[n].target = P!A!Before(tmp, d) + 1
    BY <1>2, <1>10, <1>11, LineOk, FilesFit, ConstantsFit, P!OneDefinition DEF P!IInv
  <1> QED BY <1>1, <1>8, <1>12, LabelsAreInside

\* For every program whose lines fit into one call of fgets, of any size and
\* nesting, and whatever fails on the way: a jump in the final file goes to a line
\* of the whole program that is not below its HALT.  The interpreter never runs off
\* the code that it is given whole.
THEOREM JumpsNeverLeaveTheCode == GenerateSpec => []JumpsStayInCode
  BY GenerateInvariant, JumpsInside, PTL

(***************************************************************************)
(* What a success says                                                     *)
(***************************************************************************)

LEMMA Finalizable == GInv /\ LinesFit /\ pass # WAITING => P!A!Resolvable(tmp)
  <1> SUFFICES ASSUME GInv, LinesFit, pass # WAITING, NEW i \in DOMAIN tmp, P!A!IsSymbolic(tmp[i])
               PROVE  P!A!DefinesAt(tmp, tmp[i].label) # {}
    BY DEF P!A!Resolvable
  <1>1. /\ DOMAIN tmp = DOMAIN ctx.out
        /\ \A j \in DOMAIN ctx.out : tmp[j].op = ctx.out[j].op /\ tmp[j].label = ctx.out[j].label
    BY TmpOfFits DEF GInv, HandedWhole, TypeOK, QuadContext, LabelInv, LabelsUnique
  <1>2. IsJump(ctx.out[i])
    BY <1>1 DEF P!A!IsSymbolic, P!A!Jumps, IsJump
  <1>3. PICK d \in DOMAIN ctx.out : IsLabel(ctx.out[d]) /\ ctx.out[d].label = ctx.out[i].label
    BY <1>1, <1>2, JumpsDefined
  <1> QED BY <1>1, <1>3 DEF P!A!DefinesAt, IsLabel

Complete == frc = 0 /\ LinesFit => Len(final) = Cardinality(P!A!Instructions(tmp))

LEMMA CompleteKept ==
  ASSUME Fault \subseteq {"calloc", "realloc"}, GInv, Complete, [GenerateNext]_generateVars
  PROVE  Complete'
  <1>1. CASE UNCHANGED <<tmp, final, frc, ctx>>
    BY <1>1, SameFits DEF Complete
  <1>2. CASE First \/ UNCHANGED generateVars
    <2>1. CASE First
      <3>1. UNCHANGED finalizeVars /\ rc = RUNNING
        BY <2>1, StepRuns DEF First, GInv
      <3>2. frc' = Asm!RUNNING
        BY <3>1 DEF GInv, Waits, Handed, RUNNING, finalizeVars
      <3> QED BY <3>2 DEF Complete, Asm!RUNNING, Asm!A!RUNNING
    <2>2. CASE UNCHANGED generateVars
      BY <1>1, <2>2 DEF generateVars, emitVars, vars, finalizeVars
    <2> QED BY <1>2, <2>1, <2>2
  <1>3. CASE Second
    <2>1. frc' = Asm!RUNNING
      BY <1>3 DEF Second, GInv, Waits
    <2> QED BY <2>1 DEF Complete, Asm!RUNNING, Asm!A!RUNNING
  <1>4. CASE Finalize
    <2>1. pass # WAITING /\ P!Next /\ UNCHANGED ctx
      BY <1>4, StepSame DEF Finalize, P!Next, emitVars, vars
    <2> SUFFICES ASSUME LinesFit PROVE Complete'
      BY <2>1, SameFits DEF Complete
    <2>2. [P!A!Next]_<<tmp, final, frc>>
      BY <2>1, Finalizable, LineOk, FilesFit, ConstantsFit, P!StepsImplement DEF GInv, HandedWhole
    <2>3. CASE P!A!Emit
      BY <2>3 DEF P!A!Emit, P!A!RUNNING, Complete
    <2>4. CASE P!A!Succeed
      BY <2>4, SameCount DEF P!A!Succeed, Complete
    <2>5. CASE P!A!Fail
      BY <2>5 DEF P!A!Fail, Complete
    <2> QED BY <1>1, <2>1, <2>2, <2>3, <2>4, <2>5 DEF P!A!Next
  <1> QED BY <1>2, <1>3, <1>4 DEF GenerateNext, GenerateStep

\* Success: the final file has all the code, in order, with the number of its
\* line for every label
SuccessIsWhole == frc = 0 /\ LinesFit => Len(final) = Cardinality(Code) /\ P!CopiedInOrder

\* As long as only memory runs out, and every line fits into one call of fgets: when
\* quad_generate says that it succeeded, the final file is the whole program that
\* the first stage wrote with the right line for every label.  No label is ever
\* missing, and the table has room for all.
THEOREM GeneratedWhole ==
  ASSUME Fault \subseteq {"calloc", "realloc"}
  PROVE  GenerateSpec => []SuccessIsWhole
  <1>1. GenerateInit => Complete
    BY DEF GenerateInit, Complete, Asm!RUNNING, Asm!A!RUNNING
  <1>2. GInv /\ Complete /\ [GenerateNext]_generateVars => Complete'
    BY CompleteKept
  <1>3. GInv /\ Complete => SuccessIsWhole
    <2> SUFFICES ASSUME GInv, Complete, frc = 0, LinesFit
                 PROVE  Len(final) = Cardinality(Code) /\ P!CopiedInOrder
      BY DEF SuccessIsWhole
    <2>1. pass # WAITING
      BY DEF GInv, Waits, Asm!RUNNING, Asm!A!RUNNING
    <2>2. P!CopiedInOrder
      BY <2>1, LineOk, FilesFit, ConstantsFit, P!IInvCopies DEF GInv, HandedWhole
    <2> QED BY <2>1, <2>2, CodeIsInstructions DEF Complete
  <1> QED BY <1>1, <1>2, <1>3, GenerateInvariant, PTL DEF GenerateSpec

(***************************************************************************)
(* What the interpreter reads                                              *)
(***************************************************************************)

\* The HALT and the SIGNATURE of a complete program are its only ones
HaltsOnce == rc = 0 => \A i \in 1 .. Len(ctx.out) - 2 : ctx.out[i].op \notin Ending

LEMMA FinishHaltsOnce == ASSUME TypeOK, TypedInFlight, Finish PROVE HaltsOnce'
  <1> DEFINE H == Quad("HALT", <<>>)
             S == Quad("SIGNATURE", <<>>)
             halt == quad_emitf(ctx, H)
             n == Len(ctx.out)
  <1> SUFFICES ASSUME rc' = 0, NEW i \in 1 .. Len(ctx'.out) - 2 PROVE ctx'.out[i].op \notin Ending
    BY DEF HaltsOnce
  <1>1. H \in Line /\ S \in Line
    <2>1. <<>> \in Seq(Place) /\ "HALT" \in Op /\ "SIGNATURE" \in Op
      BY DEF Op
    <2> QED BY <2>1 DEF Quad, Line
  <1>2. /\ ~ctx'.error /\ ctx' = quad_emitf(halt, S) /\ ctx \in QuadContext
        /\ \A j \in DOMAIN ctx.out : ctx.out[j].op \notin Ending
    BY DEF Finish, TypeOK, TypedInFlight, InFlight, Unended
  <1> HIDE DEF H, S
  <1>3. halt \in QuadContext
    BY <1>1, <1>2, EmitLine
  <1> HIDE DEF halt
  <1>4. /\ ~halt.error /\ Len(ctx'.out) = Len(halt.out) + 1
        /\ \A j \in 1 .. Len(halt.out) : ctx'.out[j] = halt.out[j]
    BY <1>1, <1>2, <1>3, EmitsLast
  <1>5. Len(halt.out) = n + 1 /\ \A j \in 1 .. n : halt.out[j] = ctx.out[j]
    BY <1>1, <1>2, <1>4, EmitsLast DEF halt
  <1>6. n \in Nat /\ DOMAIN ctx.out = 1 .. n
    BY <1>2 DEF QuadContext
  <1>7. i \in 1 .. n /\ i \in 1 .. n + 1
    BY <1>4, <1>5, <1>6
  <1> QED BY <1>2, <1>4, <1>5, <1>6, <1>7

\* A line of the final file is an instruction that the first stage wrote, and has
\* its place in the code
LEMMA FinalLine ==
  ASSUME GInv, LinesFit, NEW n \in DOMAIN final
  PROVE  /\ pass # WAITING /\ final[n].ends
         /\ \E i \in DOMAIN ctx.out :
              /\ ~IsLabel(ctx.out[i]) /\ n = P!A!Before(tmp, i) + 1
              /\ final[n].op = ctx.out[i].op /\ final[n].args = ctx.out[i].args
  <1>1. pass # WAITING
    BY DEF GInv, Waits
  <1>2. /\ DOMAIN tmp = DOMAIN ctx.out
        /\ \A i \in DOMAIN ctx.out :
             tmp[i].op = ctx.out[i].op /\ tmp[i].args = ctx.out[i].args /\ tmp[i].ends
    BY <1>1, TmpOfFits DEF GInv, HandedWhole, TypeOK, QuadContext, LabelInv, LabelsUnique
  <1>3. PICK i \in P!A!Instructions(tmp) :
          n = P!A!Before(tmp, i) + 1 /\ final[n] = P!A!Instruction(tmp, i)
    BY <1>1, LineOk, FilesFit, ConstantsFit, P!LinesAreInstructions DEF GInv, HandedWhole
  <1>4. i \in DOMAIN ctx.out /\ ~IsLabel(ctx.out[i])
    BY <1>2, <1>3 DEF P!A!Instructions, P!A!IsInstruction, IsLabel
  <1>5. final[n].op = tmp[i].op /\ final[n].args = tmp[i].args
    BY <1>3 DEF P!A!Instruction, P!A!Resolved, P!A!Copied
  <1>6. final[n].ends
    BY <1>2, <1>3, <1>4 DEF P!A!Instruction, P!A!Resolved, P!A!Copied
  <1> QED BY <1>1, <1>2, <1>3, <1>4, <1>5, <1>6

\* When its lines fit, the interpreter reads the final file as it was written
LEMMA SourceIsFinal == GInv /\ LinesFit => Source = final
  BY FinalLine DEF Source

\* The number of the line that has the HALT, when there is one
LastLine == Cardinality(Code) - 1

\* The end of the code is told by its place
LEMMA EndIsLast ==
  ASSUME GInv, LinesFit, HaltsOnce, NEW n \in DOMAIN final
  PROVE  /\ final[n].op = "HALT" => n = LastLine
         /\ final[n].op = "SIGNATURE" => n = LastLine + 1
         /\ LastLine \in Nat \ {0}
  <1> DEFINE N == Len(ctx.out)
  <1>1. pass # WAITING
    BY FinalLine
  <1>2. PICK i \in DOMAIN ctx.out : n = P!A!Before(tmp, i) + 1 /\ final[n].op = ctx.out[i].op
    BY FinalLine
  <1>3. /\ i \in 1 .. N /\ N \in Nat /\ N >= 2
        /\ ctx.out[N - 1].op = "HALT" /\ ctx.out[N].op = "SIGNATURE"
        /\ P!A!Before(tmp, N - 1) \in Nat /\ Cardinality(Code) \in Nat
        /\ P!A!Before(tmp, N - 1) + 2 = Cardinality(Code)
        /\ P!A!Before(tmp, N) + 1 = Cardinality(Code)
    BY <1>1, EndOfCode
  <1>4. \A j \in 1 .. N - 2 : ctx.out[j].op \notin Ending
    BY <1>1 DEF GInv, Handed, HaltsOnce
  <1> HIDE DEF N
  <1>5. i \in 1 .. N - 2 \/ i = N - 1 \/ i = N
    BY <1>3
  <1>6. /\ ctx.out[i].op = "HALT" => i = N - 1
        /\ ctx.out[i].op = "SIGNATURE" => i = N
    BY <1>3, <1>4, <1>5 DEF Ending
  <1> QED BY <1>2, <1>3, <1>6 DEF LastLine

\* What is loaded is the code up to its HALT
LEMMA Loaded ==
  ASSUME GInv, LinesFit, HaltsOnce, Runner!Halts # {}
  PROVE  /\ LastLine \in Nat \ {0} /\ LastLine \in DOMAIN final
         /\ DOMAIN Runner!UpToHalt = 1 .. LastLine /\ Len(Runner!UpToHalt) = LastLine
         /\ \A k \in 1 .. LastLine : k \in DOMAIN final /\ Runner!UpToHalt[k] = final[k]
         /\ final[LastLine].op = "HALT"
  <1>1. PICK h \in Runner!Halts : TRUE
    OBVIOUS
  <1>2. h \in DOMAIN final /\ final[h].op = "HALT" /\ h = LastLine /\ LastLine \in Nat \ {0}
    BY <1>1, SourceIsFinal, EndIsLast DEF Runner!Halts
  <1>3. Runner!Halts = {LastLine}
    BY <1>1, <1>2, SourceIsFinal, EndIsLast DEF Runner!Halts
  <1>4. (CHOOSE i \in Runner!Halts : \A k \in Runner!Halts : i <= k) = LastLine
    BY <1>2, <1>3
  <1>5. Runner!UpToHalt = SubSeq(final, 1, LastLine)
    BY <1>4, SourceIsFinal DEF Runner!UpToHalt
  <1>6. PICK S : final \in Seq(S)
    BY <1>2, FinalLine DEF GInv, HandedWhole, P!IInv, P!Types
  <1>7. LastLine \in 1 .. Len(final) /\ DOMAIN final = 1 .. Len(final) /\ Len(final) \in Nat
    BY <1>2, <1>6
  <1>8. /\ Len(SubSeq(final, 1, LastLine)) = LastLine
        /\ \A k \in 1 .. LastLine : SubSeq(final, 1, LastLine)[k] = final[k]
        /\ DOMAIN SubSeq(final, 1, LastLine) = 1 .. LastLine
    BY <1>6, <1>7
  <1> QED BY <1>2, <1>5, <1>7, <1>8

\* A line of the code is one that the first stage wrote
LEMMA CodeLine ==
  ASSUME GInv, LinesFit, HaltsOnce, Runner!Halts # {}, NEW k \in 1 .. LastLine
  PROVE  /\ \E i \in DOMAIN ctx.out :
              /\ Runner!UpToHalt[k].op = ctx.out[i].op
              /\ Runner!UpToHalt[k].args = ctx.out[i].args
              /\ ctx.out[i].op \in Op \ {"LABEL", "SIGNATURE"}
         /\ Runner!UpToHalt[k].op = "HALT" <=> k = LastLine
         /\ IsJump(Runner!UpToHalt[k]) => Runner!UpToHalt[k].target \in 1 .. LastLine
  <1>1. /\ k \in DOMAIN final /\ Runner!UpToHalt[k] = final[k] /\ LastLine \in Nat \ {0}
        /\ final[LastLine].op = "HALT"
    BY Loaded
  <1>2. PICK i \in DOMAIN ctx.out :
          ~IsLabel(ctx.out[i]) /\ final[k].op = ctx.out[i].op /\ final[k].args = ctx.out[i].args
    BY <1>1, FinalLine
  <1>3. ctx.out[i].op \in Op
    <2>1. ctx.out \in Seq(Line)
      BY DEF GInv, TypeOK, QuadContext
    <2>2. ctx.out[i] \in Line
      BY <2>1
    <2> QED BY <2>2 DEF Line
  <1>4. final[k].op # "SIGNATURE" /\ (final[k].op = "HALT" <=> k = LastLine)
    BY <1>1, EndIsLast
  <1>5. IsJump(final[k]) => final[k].target \in 1 .. LastLine
    BY <1>1, JumpsInside DEF JumpsStayInCode, LastLine
  <1> QED BY <1>1, <1>2, <1>3, <1>4, <1>5 DEF IsLabel

(***************************************************************************)
(* Types at run time                                                       *)
(***************************************************************************)

\* The interpreter's table of opcodes and the first stage agree on types
CodeOp == Op \ {"LABEL", "SIGNATURE"}

LEMMA StoringOps ==
  ASSUME NEW op \in ComputingOp
  PROVE  /\ op \in DOMAIN Runner!Eval
         /\ Runner!Eval[op][1] \in Runner!Stores /\ Runner!Eval[op][2] = OperandType(op)
         /\ (IF Runner!Eval[op][1] \in Runner!Relation \cup {"TOI"} THEN "INT"
             ELSE IF Runner!Eval[op][1] = "TOR" THEN "FLOAT" ELSE Runner!Eval[op][2])
              = ResultType(op)
         /\ Arity(op) \in {2, 3}
  <1>1. CASE op \in {"IASN", "RASN", "ITOR", "RTOI"}
    BY <1>1 DEF Runner!Eval, Runner!Stores, Runner!Relation, Runner!Arithmetic,
                OperandType, ResultType, Arity, INT, FLOAT
  <1>2. CASE op \in {"IEQL", "REQL", "INQL", "RNQL", "ILSS", "RLSS", "IGRT", "RGRT"}
    BY <1>2 DEF Runner!Eval, Runner!Stores, Runner!Relation, Runner!Arithmetic,
                OperandType, ResultType, Arity, INT, FLOAT
  <1>3. CASE op \in {"IADD", "RADD", "ISUB", "RSUB", "IMLT", "RMLT", "IDIV", "RDIV"}
    BY <1>3 DEF Runner!Eval, Runner!Stores, Runner!Relation, Runner!Arithmetic,
                OperandType, ResultType, Arity, INT, FLOAT
  <1> QED BY <1>1, <1>2, <1>3 DEF ComputingOp, PlainOp, Op

LEMMA OtherOps ==
  /\ \A op \in {"IPRT", "RPRT"} :
       /\ op \in DOMAIN Runner!Eval /\ Runner!Eval[op][1] = "PRT"
       /\ Runner!Eval[op][2] = OperandType(op) /\ Arity(op) = 1
  /\ \A op \in {"IINP", "RINP"} :
       /\ op \in DOMAIN Runner!Eval /\ Runner!Eval[op][1] = "INP"
       /\ Runner!Eval[op][2] = ResultType(op) /\ Arity(op) = 1
  /\ /\ "JMPZ" \in DOMAIN Runner!Eval /\ Runner!Eval["JMPZ"][1] = "JMPZ"
     /\ Runner!Eval["JMPZ"][2] = OperandType("JMPZ") /\ Arity("JMPZ") = 1
  /\ "JUMP" \in DOMAIN Runner!Eval /\ Runner!Eval["JUMP"][1] = "JUMP"
  /\ "HALT" \in DOMAIN Runner!Eval /\ Runner!Eval["HALT"][1] = "HALT"
  BY DEF Runner!Eval, OperandType, ResultType, Arity, INT, FLOAT

LEMMA OpsCovered ==
  /\ CodeOp = ComputingOp \cup {"IPRT", "RPRT", "IINP", "RINP", "JMPZ", "JUMP", "HALT"}
  /\ {"PRT", "INP", "JMPZ", "JUMP", "HALT"} \cap Runner!Stores = {}
  BY DEF CodeOp, ComputingOp, PlainOp, Op, Runner!Stores, Runner!Relation, Runner!Arithmetic

LEMMA JumpOps ==
  ASSUME NEW op \in CodeOp, Runner!Eval[op][1] \in {"JUMP", "JMPZ"}
  PROVE  op = Runner!Eval[op][1]
  <1>1. op \notin ComputingOp
    BY StoringOps, OpsCovered
  <1> QED BY <1>1, OtherOps, OpsCovered

\* What an instruction that stores a value computes has the type of its opcode
LEMMA ComputedType ==
  ASSUME NEW t \in AstType, NEW a, NEW b
  PROVE  /\ \A do \in Runner!Relation : Runner!Compute(do, t, a, b).type = "INT"
         /\ \A do \in Runner!Arithmetic : Runner!Compute(do, t, a, b).type = t
         /\ Runner!ToInt(a).type = "INT" /\ Runner!ToFloat(a).type = "FLOAT"
         /\ \A n, d : Runner!Number(t, n, d).type = t
  <1>1. /\ \A n : Runner!Whole(n).type = "INT"
        /\ \A n, d : Runner!Fraction(n, d).type = "FLOAT"
    <2>1. \A n : Runner!Whole(n).type = "INT"
      BY DEF Runner!Whole
    <2>2. \A n, d : Runner!Fraction(n, d).type = "FLOAT"
      BY DEF Runner!Fraction
    <2> QED BY <2>1, <2>2
  <1>2. \A c : Runner!Truth(c).type = "INT"
    BY <1>1 DEF Runner!Truth
  <1>3. \A n, d : Runner!Number(t, n, d).type = t
    BY <1>1 DEF Runner!Number, AstType, INT, FLOAT
  <1>4. Runner!ToInt(a).type = "INT" /\ Runner!ToFloat(a).type = "FLOAT"
    BY <1>1 DEF Runner!ToInt, Runner!ToFloat
  <1>5. \A do \in Runner!Relation : Runner!Compute(do, t, a, b).type = "INT"
    BY <1>2 DEF Runner!Relation, Runner!Compute
  <1>6. \A do \in Runner!Arithmetic : Runner!Compute(do, t, a, b).type = t
    BY <1>1, <1>3 DEF Runner!Arithmetic, Runner!Compute, Runner!Plus, AstType, INT, FLOAT
  <1> QED BY <1>3, <1>4, <1>5, <1>6

\* A name has one type
LEMMA KnownOnce ==
  ASSUME Sound(ctx, TRUE), NEW p \in Place, Runner!IsName(p),
         NEW t, Known(ctx, p, t, TRUE), NEW u, Known(ctx, p, u, TRUE)
  PROVE  t = u
  <1>1. CASE ~IsTemp(p)
    <2>1. p.text \in Variable /\ p.text \notin DOMAIN NumberOf
      BY <1>1, SpellingAssumption DEF Runner!IsName, IsTemp
    <2>2. p.text \notin NumInt \cup NumFloat \cup {"0", "0.0"}
      BY <2>1, SpellingAssumption
    <2> QED BY <1>1, <2>2 DEF Known, TextHasType
  <1>2. CASE IsTemp(p)
    <2>1. PICK i \in DOMAIN ctx.out :
            /\ ComputesTemp(ctx.out[i]) /\ Target(ctx.out[i]).temp = p.temp
            /\ ResultType(ctx.out[i].op) = t
      BY <1>2 DEF Known, TempTypes
    <2>2. PICK j \in DOMAIN ctx.out :
            /\ ComputesTemp(ctx.out[j]) /\ Target(ctx.out[j]).temp = p.temp
            /\ ResultType(ctx.out[j].op) = u
      BY <1>2 DEF Known, TempTypes
    <2>3. Target(ctx.out[i]) = p /\ Target(ctx.out[j]) = p
      BY <1>2, <2>1, <2>2, SameTemp DEF Sound, ComputesTemp
    <2>4. i = j
      BY <2>1, <2>2, <2>3 DEF Sound, OnceIn, ComputesTemp
    <2> QED BY <2>1, <2>2, <2>4
  <1> QED BY <1>1, <1>2

\* The operands of a line, and what is known of them
LEMMA OperandsKnown ==
  ASSUME Sound(ctx, TRUE), NEW i \in DOMAIN ctx.out, NEW l \in Line, l = ctx.out[i]
  PROVE  /\ DOMAIN l.args = 1 .. Arity(l.op) /\ \A k \in DOMAIN l.args : l.args[k] \in Place
         /\ \A p \in Sources(l) : Known(ctx, p, OperandType(l.op), TRUE)
         /\ Computes(l) => Known(ctx, Target(l), ResultType(l.op), TRUE)
         /\ Computes(l) /\ ~IsTemp(Target(l)) => Target(l).text \in Id
         /\ l.op = "JMPZ" => IsTemp(l.args[1])
         /\ \A k \in DOMAIN l.args : \E t : Known(ctx, l.args[k], t, TRUE)
  <1>1. l.args \in Seq(Place) /\ LineTyped(ctx, l)
    BY DEF Line, Sound
  <1>2. DOMAIN l.args = 1 .. Arity(l.op)
    BY <1>1 DEF LineTyped
  <1>3. Computes(l) /\ IsTemp(Target(l)) =>
          <<Target(l).temp, ResultType(l.op)>> \in TempTypes(ctx.out)
    BY DEF TempTypes, ComputesTemp
  <1>4. Computes(l) => Known(ctx, Target(l), ResultType(l.op), TRUE)
    BY <1>1, <1>3 DEF LineTyped, Known
  <1>5. ASSUME NEW k \in DOMAIN l.args PROVE \E t : Known(ctx, l.args[k], t, TRUE)
    <2>1. CASE l.args[k] \in Sources(l)
      BY <1>1, <2>1 DEF LineTyped
    <2>2. CASE l.op \in {"IINP", "RINP"}
      <3>1. k = 1 /\ Computes(l)
        BY <1>2, <1>5, <2>2 DEF Arity, Computes
      <3> QED BY <1>4, <3>1 DEF Target
    <2>3. CASE l.op \notin {"IINP", "RINP"} /\ l.args[k] \notin Sources(l)
      <3>1. ~(k > 1) /\ Computes(l)
        BY <1>5, <2>3 DEF Sources
      <3>2. k = 1
        BY <1>1, <1>5, <3>1
      <3> QED BY <1>4, <3>1, <3>2 DEF Target
    <2> QED BY <2>1, <2>2, <2>3
  <1>6. /\ \A p \in Sources(l) : Known(ctx, p, OperandType(l.op), TRUE)
        /\ Computes(l) /\ ~IsTemp(Target(l)) => Target(l).text \in Id
        /\ l.op = "JMPZ" => IsTemp(l.args[1])
    BY <1>1 DEF LineTyped
  <1>7. \A k \in DOMAIN l.args : l.args[k] \in Place
    BY <1>1
  <1> QED BY <1>2, <1>4, <1>5, <1>6, <1>7

(***************************************************************************)
(* The invariant of a run                                                  *)
(***************************************************************************)

\* What has a value is a name, and the value has the type that the first stage
\* gives that name
NamesTyped ==
  \A x \in DOMAIN ns : x \in Place /\ Runner!IsName(x) /\ Known(ctx, x, ns[x].type, TRUE)

\* Only what succeeded is loaded, and what was loaded is run
Started ==
  /\ status # Runner!LOAD => frc = 0
  /\ status = Runner!LOAD => ns = <<>> /\ pc = 1
  /\ status = Runner!REFUSED => ~Runner!Loads
  /\ status = Runner!RUNNING => Runner!Loads /\ code = Runner!UpToHalt

\* The next instruction is one of the code, and values have their types
Runs == status = Runner!RUNNING => pc \in 1 .. LastLine /\ NamesTyped

Emitted == GInv /\ HaltsOnce /\ TypedInFlight
EInv == Emitted /\ Started /\ (LinesFit => Runs) /\ CodeNeverAtFault

\* The code of a file whose lines fit is loaded, and has a next instruction
Runnable ==
  Emitted /\ LinesFit /\ Runner!Loads /\ code = Runner!UpToHalt /\ pc \in 1 .. LastLine

\* The instruction that is executed, and the line of the first stage that it is
LEMMA NowExecuted ==
  ASSUME Runnable
  PROVE  /\ Sound(ctx, TRUE) /\ LastLine \in Nat \ {0}
         /\ pc \in DOMAIN code /\ ~(pc > Len(code))
         /\ \E i \in DOMAIN ctx.out :
              /\ ctx.out[i] \in Line /\ ctx.out[i].op \in CodeOp
              /\ Runner!inst.op = ctx.out[i].op /\ Runner!inst.args = ctx.out[i].args
         /\ \A k \in DOMAIN Runner!inst.args : Runner!IsOperand(Runner!inst.args[k])
         /\ Runner!inst.op = "HALT" <=> pc = LastLine
         /\ IsJump(Runner!inst) => Runner!inst.target \in 1 .. LastLine
  <1>1. /\ GInv /\ LinesFit /\ HaltsOnce /\ Sound(ctx, TRUE) /\ Runner!Halts # {}
        /\ pc \in 1 .. LastLine /\ code = Runner!UpToHalt
        /\ \A i \in DOMAIN code : \A k \in DOMAIN code[i].args : Runner!IsOperand(code[i].args[k])
    BY DEF Runnable, Emitted, TypedInFlight, InFlight, Runner!Loads
  <1>2. /\ LastLine \in Nat \ {0} /\ pc # 0
        /\ DOMAIN code = 1 .. LastLine /\ Len(code) = LastLine
    BY <1>1, Loaded
  <1>3. Runner!inst = code[pc]
    BY <1>2 DEF Runner!inst
  <1>4. PICK i \in DOMAIN ctx.out :
          /\ code[pc].op = ctx.out[i].op /\ code[pc].args = ctx.out[i].args
          /\ ctx.out[i].op \in CodeOp
    BY <1>1, CodeLine DEF CodeOp
  <1>5. ctx.out[i] \in Line
    <2>1. ctx.out \in Seq(Line)
      BY <1>1 DEF GInv, TypeOK, QuadContext
    <2> QED BY <2>1
  <1>6. /\ code[pc].op = "HALT" <=> pc = LastLine
        /\ IsJump(code[pc]) => code[pc].target \in 1 .. LastLine
    BY <1>1, CodeLine
  <1>7. pc \in DOMAIN code /\ ~(pc > Len(code))
    BY <1>1, <1>2
  <1>8. \E j \in DOMAIN ctx.out :
          /\ ctx.out[j] \in Line /\ ctx.out[j].op \in CodeOp
          /\ Runner!inst.op = ctx.out[j].op /\ Runner!inst.args = ctx.out[j].args
    BY <1>3, <1>4, <1>5
  <1>9. \A k \in DOMAIN Runner!inst.args : Runner!IsOperand(Runner!inst.args[k])
    BY <1>1, <1>3, <1>7
  <1> QED BY <1>1, <1>2, <1>3, <1>6, <1>7, <1>8, <1>9

\* An operand that is no number is a variable of the program
LEMMA OperandRefused ==
  ASSUME NEW p \in Place, NEW t, Known(ctx, p, t, TRUE), ~Runner!IsOperand(p)
  PROVE  \E id \in DOMAIN ctx.symbols : id \notin Variable
  <1>1. ~IsTemp(p) /\ p.text \notin Variable /\ p.text \notin DOMAIN NumberOf
    BY DEF Runner!IsOperand, Runner!IsName, IsTemp
  <1>2. p.text \notin NumInt \cup NumFloat \cup {"0", "0.0"}
    BY <1>1, SpellingAssumption
  <1> QED BY <1>1, <1>2 DEF Known, TextHasType

LEMMA EmittedRefused ==
  ASSUME Emitted, LinesFit, ~Runner!Loads
  PROVE  \/ \A i \in DOMAIN final : final[i].op # "HALT"
         \/ \E id \in DOMAIN program.symbols : id \notin Variable
  <1> SUFFICES ASSUME Runner!Halts # {}
               PROVE  \E id \in DOMAIN program.symbols : id \notin Variable
    BY SourceIsFinal DEF Runner!Halts, Emitted
  <1>1. GInv /\ HaltsOnce /\ Sound(ctx, TRUE) /\ ctx.symbols = program.symbols
    BY DEF Emitted, TypedInFlight, InFlight
  <1>2. PICK k \in DOMAIN Runner!UpToHalt : \E m \in DOMAIN Runner!UpToHalt[k].args :
          ~Runner!IsOperand(Runner!UpToHalt[k].args[m])
    BY DEF Runner!Loads
  <1>3. k \in 1 .. LastLine
    BY <1>1, Loaded
  <1>4. PICK i \in DOMAIN ctx.out : Runner!UpToHalt[k].args = ctx.out[i].args
    BY <1>1, <1>3, CodeLine
  <1>5. ctx.out[i] \in Line
    <2>1. ctx.out \in Seq(Line)
      BY <1>1 DEF GInv, TypeOK, QuadContext
    <2> QED BY <2>1
  <1>6. \A m \in DOMAIN ctx.out[i].args :
          ctx.out[i].args[m] \in Place /\ \E t : Known(ctx, ctx.out[i].args[m], t, TRUE)
    BY <1>1, <1>5, OperandsKnown
  <1> QED BY <1>1, <1>2, <1>4, <1>6, OperandRefused

\* An operand that is read is a number of the type that the instruction wants, or
\* a name that has such a value or none
LEMMA OperandRead ==
  ASSUME Sound(ctx, TRUE), NamesTyped, NEW p \in Place, Runner!IsOperand(p),
         NEW t, Known(ctx, p, t, TRUE)
  PROVE  Runner!Readable(p, t) \/ (Runner!IsName(p) /\ p \notin DOMAIN ns)
  <1>1. CASE Runner!IsName(p) /\ p \in DOMAIN ns
    <2>1. ns[p].type = t
      BY <1>1, KnownOnce DEF NamesTyped
    <2> QED BY <1>1, <2>1 DEF Runner!Readable, Runner!val
  <1>2. CASE ~Runner!IsName(p)
    <2>1. p.text \in DOMAIN NumberOf /\ ~IsTemp(p)
      BY <1>2 DEF Runner!IsOperand, Runner!IsName, IsTemp
    <2>2. p.text \notin Id
      BY <2>1, SpellingAssumption
    <2>3. NumberOf[p.text].type = t
      BY <2>1, <2>2, SpellingAssumption DEF Known, TextHasType, INT, FLOAT
    <2> QED BY <1>2, <2>3 DEF Runner!Readable, Runner!val
  <1> QED BY <1>1, <1>2

\* What an instruction writes is a name that has no value of another type
LEMMA TargetWritten ==
  ASSUME Sound(ctx, TRUE), NamesTyped, NEW p \in Place, Runner!IsOperand(p),
         ~IsTemp(p) => p.text \in Id, NEW t, Known(ctx, p, t, TRUE)
  PROVE  Runner!IsName(p) /\ Runner!Writable(p, t)
  <1>1. Runner!IsName(p)
    BY SpellingAssumption DEF Runner!IsOperand, Runner!IsName, IsTemp
  <1>2. p \in DOMAIN ns => ns[p].type = t
    BY <1>1, KnownOnce DEF NamesTyped
  <1> QED BY <1>1, <1>2 DEF Runner!Writable

\* A value of its type can be given to a name
LEMMA SetKeepsTypes ==
  ASSUME NamesTyped, NEW x \in Place, Runner!IsName(x), NEW v, Known(ctx, x, v.type, TRUE),
         ns' = Runner!set(x, v), UNCHANGED ctx
  PROVE  NamesTyped'
  <1>1. /\ DOMAIN ns' = DOMAIN ns \cup {x}
        /\ \A y \in DOMAIN ns' : ns'[y] = IF y = x THEN v ELSE ns[y]
    BY DEF Runner!set
  <1> QED BY <1>1 DEF NamesTyped, Runner!IsName

\* What the types of the first stage say of the instruction that is executed
LEMMA FitsItsTypes ==
  ASSUME Runnable, NamesTyped
  PROVE  /\ Runner!inst.op \in CodeOp /\ Runner!inst.op \in DOMAIN Runner!Eval
         /\ \A p \in Runner!Reads :
              Runner!Readable(p, Runner!type) \/ (Runner!IsName(p) /\ p \notin DOMAIN ns)
         /\ Runner!do \in Runner!Stores =>
              /\ Runner!type \in AstType /\ Runner!inst.args[2] \in Runner!Reads
              /\ Runner!inst.args[1] \in Place
              /\ Runner!IsName(Runner!inst.args[1])
              /\ Known(ctx, Runner!inst.args[1], Runner!ResultType, TRUE)
              /\ Runner!Writable(Runner!inst.args[1], Runner!ResultType)
         /\ Runner!do = "INP" =>
              /\ Runner!type \in AstType /\ Runner!inst.args[1] \in Place
              /\ Runner!IsName(Runner!inst.args[1])
              /\ Known(ctx, Runner!inst.args[1], Runner!type, TRUE)
              /\ Runner!Writable(Runner!inst.args[1], Runner!type)
         /\ Runner!do = "JMPZ" => Runner!IsName(Runner!inst.args[1])
  <1>1. /\ Sound(ctx, TRUE)
        /\ \A k \in DOMAIN Runner!inst.args : Runner!IsOperand(Runner!inst.args[k])
    BY NowExecuted
  <1>2. PICK i \in DOMAIN ctx.out :
          /\ ctx.out[i] \in Line /\ ctx.out[i].op \in CodeOp
          /\ Runner!inst.op = ctx.out[i].op /\ Runner!inst.args = ctx.out[i].args
    BY NowExecuted
  <1> DEFINE l == ctx.out[i]
             op == l.op
             args == l.args
  <1>3. /\ DOMAIN args = 1 .. Arity(op) /\ \A k \in DOMAIN args : args[k] \in Place
        /\ \A p \in Sources(l) : Known(ctx, p, OperandType(op), TRUE)
        /\ Computes(l) => Known(ctx, args[1], ResultType(op), TRUE)
        /\ Computes(l) /\ ~IsTemp(args[1]) => args[1].text \in Id
        /\ op = "JMPZ" => IsTemp(args[1])
    BY <1>1, <1>2, OperandsKnown DEF Target
  <1>4. /\ Runner!inst.op = op /\ Runner!inst.args = args /\ op \in CodeOp
        /\ \A k \in DOMAIN args : Runner!IsOperand(args[k])
        /\ Runner!do = Runner!Eval[op][1] /\ Runner!type = Runner!Eval[op][2]
    BY <1>1, <1>2 DEF Runner!do, Runner!type
  <1>5. Len(args) = Arity(op) /\ args \in Seq(Place)
    <2>1. args \in Seq(Place)
      BY <1>2 DEF Line
    <2>2. Arity(op) \in Nat
      BY DEF Arity
    <2> QED BY <1>3, <2>1, <2>2
  <1>6. /\ Computes(l) <=> op \in ComputingOp \cup {"IINP", "RINP"}
        /\ Sources(l) = IF op \in {"IINP", "RINP"} THEN {}
                        ELSE {args[k] : k \in {m \in DOMAIN args : m > 1 \/ ~Computes(l)}}
    BY <1>4 DEF Computes, Sources, CodeOp, ComputingOp, PlainOp
  <1> HIDE DEF l, op, args
  <1>7. ASSUME NEW p \in Sources(l), Runner!type = OperandType(op)
        PROVE  Runner!Readable(p, Runner!type) \/ (Runner!IsName(p) /\ p \notin DOMAIN ns)
    <2>1. PICK k \in DOMAIN args : p = args[k]
      BY <1>6, <1>7
    <2>2. p \in Place /\ Runner!IsOperand(p) /\ Known(ctx, p, OperandType(op), TRUE)
      BY <1>3, <1>4, <1>7, <2>1
    <2> QED BY <1>1, <1>7, <2>2, OperandRead
  <1>8. ASSUME 1 \in DOMAIN args, op \in ComputingOp \cup {"IINP", "RINP"}
        PROVE  /\ args[1] \in Place /\ Runner!IsName(args[1])
               /\ Known(ctx, args[1], ResultType(op), TRUE)
               /\ Runner!Writable(args[1], ResultType(op))
    <2>1. /\ args[1] \in Place /\ Known(ctx, args[1], ResultType(op), TRUE)
          /\ (~IsTemp(args[1]) => args[1].text \in Id) /\ Runner!IsOperand(args[1])
      BY <1>3, <1>4, <1>6, <1>8
    <2> QED BY <1>1, <2>1, TargetWritten
  <1>9. CASE op \in ComputingOp
    <2>1. /\ op \in DOMAIN Runner!Eval /\ Runner!do \in Runner!Stores
          /\ Runner!type = OperandType(op) /\ Runner!ResultType = ResultType(op)
          /\ Arity(op) \in {2, 3}
      BY <1>4, <1>9, StoringOps DEF Runner!ResultType
    <2>2. Runner!Reads = {args[k] : k \in 2 .. Arity(op)}
      BY <1>4, <1>5, <2>1 DEF Runner!Reads
    <2>3. op \notin {"IINP", "RINP"}
      BY <1>9 DEF ComputingOp
    <2>4. Runner!Reads \subseteq Sources(l)
      <3>1. \A k \in 2 .. Arity(op) : k \in DOMAIN args /\ k > 1
        BY <1>3, <2>1
      <3> QED BY <1>6, <2>2, <2>3, <3>1
    <2>5. 1 \in DOMAIN args /\ args[2] \in Runner!Reads /\ Runner!type \in AstType
      BY <1>3, <2>1, <2>2 DEF OperandType, AstType
    <2>6. Runner!do \notin {"INP", "JMPZ"}
      BY <2>1, OpsCovered
    <2> QED BY <1>4, <1>7, <1>8, <1>9, <2>1, <2>4, <2>5, <2>6
  <1>10. CASE op \in {"IPRT", "RPRT", "JMPZ"}
    <2>1. /\ op \in DOMAIN Runner!Eval /\ Runner!do \in {"PRT", "JMPZ"}
          /\ Runner!do = "JMPZ" => op = "JMPZ"
          /\ Runner!type = OperandType(op) /\ Arity(op) = 1
      BY <1>4, <1>10, OtherOps
    <2>2. Runner!do \notin Runner!Stores
      BY <2>1, OpsCovered
    <2>3. Runner!Reads = {args[1]}
      BY <1>4, <2>1, <2>2 DEF Runner!Reads
    <2>4. 1 \in DOMAIN args /\ ~Computes(l) /\ op \notin {"IINP", "RINP"}
      BY <1>3, <1>6, <1>10, <2>1 DEF ComputingOp, PlainOp
    <2>5. Runner!Reads \subseteq Sources(l)
      BY <1>6, <2>3, <2>4
    <2>6. op = "JMPZ" => Runner!IsName(args[1])
      BY <1>3 DEF IsTemp, Runner!IsName
    <2>7. Runner!do # "INP"
      BY <2>1
    <2> QED BY <1>4, <1>7, <2>1, <2>2, <2>5, <2>6, <2>7
  <1>11. CASE op \in {"IINP", "RINP"}
    <2>1. /\ op \in DOMAIN Runner!Eval /\ Runner!do = "INP"
          /\ Runner!type = ResultType(op) /\ Arity(op) = 1
      BY <1>4, <1>11, OtherOps
    <2>2. Runner!do \notin Runner!Stores /\ Runner!do # "JMPZ" /\ Runner!Reads = {}
      BY <2>1, OpsCovered DEF Runner!Reads
    <2>3. 1 \in DOMAIN args /\ Runner!type \in AstType
      BY <1>3, <2>1 DEF ResultType, AstType
    <2> QED BY <1>4, <1>8, <1>11, <2>1, <2>2, <2>3
  <1>12. CASE op \in {"JUMP", "HALT"}
    <2>1. op \in DOMAIN Runner!Eval /\ Runner!do \in {"JUMP", "HALT"}
      BY <1>4, <1>12, OtherOps
    <2>2. Runner!do \notin Runner!Stores \cup {"JMPZ", "INP"} /\ Runner!Reads = {}
      BY <2>1, OpsCovered DEF Runner!Reads
    <2> QED BY <1>4, <2>1, <2>2
  <1> QED BY <1>4, <1>9, <1>10, <1>11, <1>12, OpsCovered

\* What CodeNeverAtFault says of the instruction that raises an exception
Blameless ==
  /\ pc \in DOMAIN code /\ Runner!inst.op \in DOMAIN Runner!Eval
  /\ \A p \in Runner!Reads :
       Runner!Readable(p, Runner!type) \/ (Runner!IsName(p) /\ p \notin DOMAIN ns)
  /\ Runner!do \in Runner!Stores => Runner!Writable(Runner!inst.args[1], Runner!ResultType)
  /\ Runner!do = "INP"  => Runner!Writable(Runner!inst.args[1], Runner!type)
  /\ Runner!do = "JMPZ" => Runner!IsName(Runner!inst.args[1])

LEMMA NeverAtFault == ASSUME Runnable, NamesTyped PROVE Blameless
  BY NowExecuted, FitsItsTypes DEF Blameless

\* After an instruction that is neither a jump nor the HALT there is another one
LEMMA GoesOn ==
  ASSUME Runnable, Runner!do # "HALT"
  PROVE  pc + 1 \in 1 .. LastLine
  <1>1. /\ LastLine \in Nat \ {0} /\ pc \in 1 .. LastLine
        /\ Runner!inst.op = "HALT" <=> pc = LastLine
    BY NowExecuted DEF Runnable
  <1>2. Runner!inst.op # "HALT"
    BY OtherOps DEF Runner!do
  <1> QED BY <1>1, <1>2

\* The instruction stores a value of the type that its target has
LEMMA StoresItsType ==
  ASSUME Runnable, NamesTyped, ~Runner!Raises, Runner!do \in Runner!Stores
  PROVE  Runner!Result.type = Runner!ResultType
  <1>1. Runner!type \in AstType /\ Runner!inst.args[2] \in Runner!Reads
    BY FitsItsTypes
  <1>2. Runner!Readable(Runner!inst.args[2], Runner!type)
    BY <1>1 DEF Runner!Raises
  <1>3. Runner!val(Runner!inst.args[2]).type = Runner!type
    BY <1>2 DEF Runner!Readable
  <1>4. CASE Runner!do = "ASN"
    BY <1>3, <1>4 DEF Runner!Result, Runner!ResultType, Runner!Relation
  <1>5. CASE Runner!do \in {"TOR", "TOI"}
    BY <1>1, <1>5, ComputedType DEF Runner!Result, Runner!ResultType, Runner!Relation
  <1>6. CASE Runner!do \in Runner!Relation \cup Runner!Arithmetic
    <2>1. Runner!do \notin {"ASN", "TOR", "TOI"}
      BY <1>6 DEF Runner!Relation, Runner!Arithmetic
    <2>2. Runner!Result = Runner!Compute(Runner!do, Runner!type, Runner!val(Runner!inst.args[2]),
                                         Runner!val(Runner!inst.args[3]))
      BY <2>1 DEF Runner!Result
    <2>3. Runner!ResultType = IF Runner!do \in Runner!Relation THEN "INT" ELSE Runner!type
      BY <2>1 DEF Runner!ResultType
    <2> QED BY <1>1, <1>6, <2>2, <2>3, ComputedType
  <1> QED BY <1>4, <1>5, <1>6 DEF Runner!Stores

\* The types of values are kept by every instruction that is executed
LEMMA InstructionKeeps ==
  ASSUME Runnable, NamesTyped, UNCHANGED ctx,
         Runner!Store \/ Runner!Output \/ Runner!Input \/ Runner!InvalidInput
           \/ Runner!Jump \/ Runner!JumpIfZero
  PROVE  pc' \in 1 .. LastLine /\ NamesTyped'
  <1>1. ns' = ns => NamesTyped'
    BY DEF NamesTyped, Runner!IsName
  <1>2. /\ IsJump(Runner!inst) => Runner!inst.target \in 1 .. LastLine
        /\ Runner!inst.op \in CodeOp
    BY NowExecuted, FitsItsTypes
  <1>3. CASE Runner!Store
    <2>1. /\ ~Runner!Raises /\ Runner!do \in Runner!Stores /\ pc' = pc + 1
          /\ ns' = Runner!set(Runner!inst.args[1], Runner!Result)
      BY <1>3 DEF Runner!Store, Runner!Executes, Runner!GoOn
    <2>2. /\ Runner!inst.args[1] \in Place /\ Runner!IsName(Runner!inst.args[1])
          /\ Known(ctx, Runner!inst.args[1], Runner!Result.type, TRUE)
      BY <2>1, FitsItsTypes, StoresItsType
    <2>3. NamesTyped'
      BY <2>1, <2>2, SetKeepsTypes
    <2>4. Runner!do # "HALT"
      BY <2>1, OpsCovered
    <2> QED BY <2>1, <2>3, <2>4, GoesOn
  <1>4. CASE Runner!Output
    <2>1. Runner!do = "PRT" /\ pc' = pc + 1 /\ ns' = ns
      BY <1>4 DEF Runner!Output, Runner!Executes, Runner!GoOn
    <2> QED BY <1>1, <2>1, GoesOn
  <1>5. CASE Runner!Input
    <2> DEFINE v == Runner!Number(Runner!type, Head(stdin).n, Head(stdin).d)
    <2>1. Runner!do = "INP" /\ pc' = pc + 1 /\ ns' = Runner!set(Runner!inst.args[1], v)
      BY <1>5 DEF Runner!Input, Runner!Executes, Runner!GoOn
    <2>2. /\ Runner!type \in AstType /\ Runner!inst.args[1] \in Place
          /\ Runner!IsName(Runner!inst.args[1])
          /\ Known(ctx, Runner!inst.args[1], Runner!type, TRUE)
      BY <2>1, FitsItsTypes
    <2>3. v.type = Runner!type
      BY <2>2, ComputedType
    <2> HIDE DEF v
    <2>4. NamesTyped'
      BY <2>1, <2>2, <2>3, SetKeepsTypes
    <2> QED BY <2>1, <2>4, GoesOn
  <1>6. CASE Runner!InvalidInput
    BY <1>1, <1>6 DEF Runner!InvalidInput, Runnable
  <1>7. CASE Runner!Jump
    <2>1. Runner!do = "JUMP" /\ pc' = Runner!inst.target /\ ns' = ns
      BY <1>7 DEF Runner!Jump, Runner!Executes
    <2>2. Runner!inst.op = "JUMP"
      BY <1>2, <2>1, JumpOps DEF Runner!do
    <2> QED BY <1>1, <1>2, <2>1, <2>2 DEF IsJump
  <1>8. CASE Runner!JumpIfZero
    <2>1. Runner!do = "JMPZ" /\ pc' \in {Runner!inst.target, pc + 1} /\ ns' = ns
      BY <1>8 DEF Runner!JumpIfZero, Runner!Executes
    <2>2. Runner!inst.op = "JMPZ"
      BY <1>2, <2>1, JumpOps DEF Runner!do
    <2> QED BY <1>1, <1>2, <2>1, <2>2, GoesOn DEF IsJump
  <1> QED BY <1>3, <1>4, <1>5, <1>6, <1>7, <1>8

(***************************************************************************)
(* The steps of a run                                                      *)
(***************************************************************************)

\* While it is compiled, and afterwards, the file keeps what was emitted
LEMMA EmittedKept == Emitted /\ [GenerateNext]_generateVars => Emitted'
  <1> SUFFICES ASSUME Emitted, [GenerateNext]_generateVars PROVE Emitted'
    OBVIOUS
  <1>1. GInv'
    BY GenerateInductive DEF Emitted
  <1>2. CASE First
    <2>1. Step /\ TypeOK /\ LabelInv /\ TypedInFlight
      BY <1>2 DEF First, Emitted, GInv
    <2>2. TypedInFlight'
      BY <2>1, TypedKept DEF Next
    <2>3. HaltsOnce'
      <3>1. CASE Finish
        BY <2>1, <3>1, FinishHaltsOnce
      <3>2. CASE rc' = rc
        BY <2>1, <3>2, StepRuns DEF HaltsOnce, RUNNING
      <3> QED BY <2>1, <3>1, <3>2, OnlyFinishReturns
    <2> QED BY <1>1, <2>2, <2>3 DEF Emitted
  <1>3. CASE UNCHANGED emitVars
    <2>1. UNCHANGED vars /\ UNCHANGED <<rc, ctx>>
      BY <1>3 DEF emitVars, vars
    <2>2. TypedInFlight'
      BY <2>1, TypedKept DEF Emitted, GInv
    <2>3. HaltsOnce'
      BY <2>1 DEF Emitted, HaltsOnce
    <2> QED BY <1>1, <2>2, <2>3 DEF Emitted
  <1>4. CASE Second \/ Finalize \/ UNCHANGED generateVars
    BY <1>3, <1>4 DEF Second, Finalize, generateVars
  <1> QED BY <1>2, <1>4 DEF GenerateNext, GenerateStep

\* Nothing is compiled any more once the second stage has succeeded
LEMMA SuccessIsFinal == GInv /\ frc = 0 => ~GenerateStep
  <1> SUFFICES ASSUME GInv, frc = 0, GenerateStep PROVE FALSE
    OBVIOUS
  <1>1. pass # WAITING /\ rc = 0 /\ pass = "done"
    BY DEF GInv, Waits, Handed, Asm!RUNNING, Asm!A!RUNNING
  <1>2. CASE First
    BY <1>1, <1>2, StepRuns DEF First, GInv, RUNNING
  <1>3. CASE Second
    BY <1>1, <1>3 DEF Second
  <1>4. CASE Finalize
    <2>1. P!Step
      BY <1>4, StepSame DEF Finalize
    <2> QED BY <1>1, <2>1, StageRuns
  <1> QED BY <1>2, <1>3, <1>4 DEF GenerateStep

\* What is loaded and where it ends depends on what was compiled only
LEMMA SameLoaded ==
  ASSUME UNCHANGED <<final, ctx>>
  PROVE  /\ Runner!Loads' <=> Runner!Loads
         /\ Runner!UpToHalt' = Runner!UpToHalt /\ LastLine' = LastLine
  <1>1. Source' = Source
    BY DEF Source
  <1> QED BY <1>1 DEF Runner!Loads, Runner!Halts, Runner!UpToHalt,
                      Runner!IsOperand, Runner!IsName, LastLine, Code

LEMMA SameNames == UNCHANGED <<ctx, ns>> => (NamesTyped' <=> NamesTyped)
  BY DEF NamesTyped, Runner!IsName

LEMMA SameFault == UNCHANGED <<code, pc, ns>> => (Blameless' <=> Blameless)
  BY DEF Blameless, Runner!Reads, Runner!do, Runner!type, Runner!inst, Runner!ResultType,
         Runner!Readable, Runner!Writable, Runner!val, Runner!IsName

LEMMA FaultIsBlame == CodeNeverAtFault <=> (status = Runner!RAISED /\ LinesFit => Blameless)
  BY DEF CodeNeverAtFault, Blameless

LEMMA StatusDistinct ==
  /\ Runner!LOAD \notin {Runner!RUNNING, Runner!HALTED, Runner!REFUSED, Runner!RAISED}
  /\ Runner!RUNNING \notin {Runner!HALTED, Runner!REFUSED, Runner!RAISED}
  /\ Runner!HALTED \notin {Runner!REFUSED, Runner!RAISED} /\ Runner!REFUSED # Runner!RAISED
  BY DEF Runner!LOAD, Runner!RUNNING, Runner!HALTED, Runner!REFUSED, Runner!RAISED

LEMMA ExecutionInitially ==
  ASSUME TextsFit, \A p \in Program : WellTyped(p), ExecutionInit
  PROVE  EInv
  <1>1. GenerateInit /\ status = Runner!LOAD /\ ns = <<>> /\ pc = 1
    BY DEF ExecutionInit, Runner!Init
  <1>2. GInv
    BY <1>1, GenerateInitially
  <1>3. Init
    BY <1>1 DEF GenerateInit
  <1>4. HaltsOnce
    BY <1>3 DEF Init, HaltsOnce, RUNNING
  <1>5. TypedInFlight
    BY <1>3, TypedInitially
  <1> QED BY <1>1, <1>2, <1>4, <1>5, StatusDistinct, FaultIsBlame
      DEF EInv, Emitted, Started, Runs

\* What is compiled has not begun to run
LEMMA CompileKeeps == ASSUME EInv, Compile PROVE EInv'
  <1>1. GInv /\ GenerateStep /\ UNCHANGED <<code, pc, ns, stdin, output, status, given>>
    BY DEF EInv, Emitted, Compile, runnerVars
  <1>2. Emitted'
    BY <1>1, EmittedKept DEF EInv, GenerateNext
  <1>3. status = Runner!LOAD
    BY <1>1, SuccessIsFinal DEF EInv, Started
  <1>4. ns = <<>> /\ pc = 1
    BY <1>3 DEF EInv, Started
  <1>5. Started' /\ Runs' /\ CodeNeverAtFault'
    BY <1>1, <1>3, <1>4, StatusDistinct DEF Started, Runs, CodeNeverAtFault
  <1> QED BY <1>2, <1>5 DEF EInv

LEMMA StartKeeps == ASSUME EInv, Start PROVE EInv'
  <1>1. /\ status = Runner!RUNNING
        /\ UNCHANGED <<generateVars, code, pc, ns, output, status>>
    BY DEF Start
  <1>2. Emitted' /\ UNCHANGED <<final, frc, ctx>>
    BY <1>1, EmittedKept DEF EInv, generateVars, finalizeVars, emitVars, vars
  <1>3. Started' /\ CodeNeverAtFault'
    BY <1>1, <1>2, SameLoaded, StatusDistinct DEF EInv, Started, CodeNeverAtFault
  <1>4. LinesFit' => Runs'
    BY <1>1, <1>2, SameLoaded, SameNames, SameFits DEF EInv, Runs
  <1> QED BY <1>2, <1>3, <1>4 DEF EInv

LEMMA ExecuteKeeps == ASSUME EInv, Execute PROVE EInv'
  <1>1. frc = 0 /\ Runner!Step /\ UNCHANGED generateVars
    BY DEF Execute
  <1>2. /\ UNCHANGED <<final, frc, ctx, program>> /\ Emitted /\ Emitted'
    BY <1>1, EmittedKept DEF EInv, generateVars, finalizeVars, emitVars, vars
  <1>3. frc' = 0
    BY <1>1, <1>2
  <1>4. ASSUME status' # Runner!LOAD, status' = Runner!REFUSED => ~Runner!Loads,
               status' = Runner!RUNNING => Runner!Loads /\ code' = Runner!UpToHalt
        PROVE  Started'
    BY <1>2, <1>3, <1>4, SameLoaded DEF Started
  <1>5. CASE Runner!Load
    <2>1. /\ status = Runner!LOAD /\ status' = IF Runner!Loads THEN Runner!RUNNING ELSE Runner!REFUSED
          /\ Runner!Loads => code' = Runner!UpToHalt
          /\ UNCHANGED <<pc, ns>>
      BY <1>5 DEF Runner!Load
    <2>2. ns = <<>> /\ pc = 1
      BY <2>1 DEF EInv, Started
    <2>3. LinesFit => Runs'
      <3> SUFFICES ASSUME LinesFit, Runner!Loads PROVE pc' \in 1 .. LastLine' /\ NamesTyped'
        BY <2>1, StatusDistinct DEF Runs
      <3>1. LastLine \in Nat \ {0}
        BY <1>2, Loaded DEF Emitted, Runner!Loads
      <3>2. NamesTyped
        BY <2>2 DEF NamesTyped
      <3>3. 1 \in 1 .. LastLine
        BY <3>1
      <3> QED BY <1>2, <2>1, <2>2, <3>2, <3>3, SameLoaded, SameNames
    <2>4. status' # Runner!RAISED
      BY <2>1, StatusDistinct
    <2>5. Started'
      BY <1>4, <2>1, StatusDistinct
    <2> QED BY <1>2, <2>3, <2>4, <2>5, SameFits DEF EInv, CodeNeverAtFault
  <1>6. CASE status = Runner!RUNNING
    <2>1. Runner!Loads /\ code = Runner!UpToHalt
      BY <1>6 DEF EInv, Started
    <2>2. LinesFit => Runnable /\ NamesTyped
      BY <1>2, <1>6, <2>1 DEF EInv, Runs, Runnable
    <2>3. CASE Runner!Halt
      <3>1. status' = Runner!HALTED
        BY <2>3 DEF Runner!Halt
      <3>2. Started' /\ Runs' /\ CodeNeverAtFault'
        BY <1>4, <3>1, StatusDistinct DEF Runs, CodeNeverAtFault
      <3> QED BY <1>2, <3>2 DEF EInv
    <2>4. CASE Runner!Raise
      <3>1. status' = Runner!RAISED /\ UNCHANGED <<code, pc, ns, stdin>>
        BY <2>4 DEF Runner!Raise
      <3>2. LinesFit => Blameless
        BY <2>2, NeverAtFault
      <3>3. LinesFit' => Blameless'
        BY <1>2, <3>1, <3>2, SameFault, SameFits
      <3>4. CodeNeverAtFault'
        BY <3>3 DEF CodeNeverAtFault, Blameless
      <3>5. Started' /\ Runs'
        BY <1>4, <3>1, StatusDistinct DEF Runs
      <3> QED BY <1>2, <3>4, <3>5 DEF EInv
    <2>5. CASE Runner!Store \/ Runner!Output \/ Runner!Input \/ Runner!InvalidInput
                 \/ Runner!Jump \/ Runner!JumpIfZero
      <3>1. LinesFit => pc' \in 1 .. LastLine /\ NamesTyped'
        BY <1>2, <2>2, <2>5, InstructionKeeps
      <3>2. status' = status /\ code' = code
        BY <2>5 DEF Runner!Store, Runner!Output, Runner!Input, Runner!InvalidInput,
                    Runner!Jump, Runner!JumpIfZero
      <3>3. LinesFit' => Runs'
        BY <1>2, <3>1, SameLoaded, SameFits DEF Runs
      <3>4. Started' /\ CodeNeverAtFault'
        BY <1>4, <1>6, <2>1, <3>2, StatusDistinct DEF CodeNeverAtFault
      <3> QED BY <1>2, <3>3, <3>4 DEF EInv
    <2>6. ~Runner!Load
      BY <1>6, StatusDistinct DEF Runner!Load
    <2> QED BY <1>1, <2>3, <2>4, <2>5, <2>6 DEF Runner!Step
  <1>7. Runner!Load \/ status = Runner!RUNNING
    BY <1>1 DEF Runner!Step, Runner!Store, Runner!Output, Runner!Input, Runner!InvalidInput,
                Runner!Jump, Runner!JumpIfZero, Runner!Halt, Runner!Raise, Runner!Executes
  <1> QED BY <1>5, <1>6, <1>7

LEMMA OverKeeps == ASSUME EInv, UNCHANGED executionVars PROVE EInv'
  <1>1. UNCHANGED <<generateVars, code, pc, ns, stdin, output, status, given>>
    BY DEF executionVars, runnerVars
  <1>2. Emitted' /\ UNCHANGED <<final, frc, ctx>>
    BY <1>1, EmittedKept DEF EInv, generateVars, finalizeVars, emitVars, vars
  <1>3. Started'
    BY <1>1, <1>2, SameLoaded DEF EInv, Started
  <1>4. LinesFit' => Runs'
    BY <1>1, <1>2, SameLoaded, SameNames, SameFits DEF EInv, Runs
  <1>5. CodeNeverAtFault
    BY DEF EInv
  <1>6. CodeNeverAtFault'
    <2>1. status = Runner!RAISED /\ LinesFit => Blameless
      BY <1>5, FaultIsBlame
    <2>2. status' = Runner!RAISED /\ LinesFit' => Blameless'
      BY <1>1, <1>2, <2>1, SameFault, SameFits
    <2> QED BY <2>2 DEF CodeNeverAtFault, Blameless
  <1> QED BY <1>2, <1>3, <1>4, <1>6 DEF EInv

LEMMA ExecutionInductive == EInv /\ [ExecutionNext]_executionVars => EInv'
  BY CompileKeeps, StartKeeps, ExecuteKeeps, OverKeeps DEF ExecutionNext, ExecutionStep

\* Of a program that passed the semantic check, whose texts are not cut off, what
\* compiles and runs keeps its types: from the tree through both files to the
\* values of the interpreter.
THEOREM ExecutionInvariant ==
  ASSUME TextsFit, \A p \in Program : WellTyped(p)
  PROVE  ExecutionSpec => []EInv
  <1>1. ExecutionInit => EInv
    BY ExecutionInitially
  <1> QED BY <1>1, ExecutionInductive, PTL DEF ExecutionSpec

\* When every line fits into one call of fgets, the interpreter accepts every such
\* file that has its HALT, unless the program has a variable that the interpreter
\* does not take for one.
THEOREM RefusedOnlyForSpelling ==
  ASSUME TextsFit, \A p \in Program : WellTyped(p)
  PROVE  ExecutionSpec => [](LinesFit => RefusedForAReason)
  <1>1. EInv => (LinesFit => RefusedForAReason)
    BY EmittedRefused DEF EInv, Started, RefusedForAReason
  <1> QED BY <1>1, ExecutionInvariant, PTL

\* And what it accepts never goes wrong for a type, a place, an opcode or a jump:
\* when it raises an exception, that is for a value, or for want of one.  So for
\* programs of any size, as long as every line fits, and whatever failed on the way.
THEOREM NeverRaisesForAType ==
  ASSUME TextsFit, \A p \in Program : WellTyped(p)
  PROVE  ExecutionSpec => []CodeNeverAtFault
  <1>1. EInv => CodeNeverAtFault
    BY DEF EInv
  <1> QED BY <1>1, ExecutionInvariant, PTL
=============================================================================
