------------------------------ MODULE Generate ------------------------------
(***************************************************************************)
(* quad_generate (src/src/quad.c): the first stage (QuadEmit), and, when   *)
(* it succeeds, the second one (QuadFinalize) on the file that it leaves.  *)
(***************************************************************************)
EXTENDS QuadEmit

CONSTANTS
  Width,           \* the number of characters of a text
  MAX_LINE_LENGTH, \* the buffer of fgets
  Fault,           \* what may fail in the second stage, a set of QuadFinalize!FaultKind
  INITIAL_LABELS_CAP

VARIABLES
  tmp, final, frc, pass, pos, labels, cap, current_line \* of QuadFinalize

\* What fgets reads: a line, or a piece of one
TmpLine == [op : Op \cup {"REST", "BLANK"}, label : Nat, args : Seq(Place), ends : BOOLEAN]
\* A label is defined once
TmpFile == {file \in Seq(TmpLine) : DistinctLabels(file)}

Asm == INSTANCE QuadFinalize WITH in <- tmp, rc <- frc, Line <- TmpLine, File <- TmpFile
Sequence == INSTANCE SequencesExt

ASSUME WidthAssumption ==
  /\ Width \in [Text -> Nat] /\ \A t \in Text : Width[Prefix63[t]] <= 63
  /\ MAX_LINE_LENGTH \in Nat /\ MAX_LINE_LENGTH > 1
ASSUME FinalizeAssumption ==
  INITIAL_LABELS_CAP \in Nat \ {0} /\ Fault \subseteq Asm!FaultKind

----------------------------------------------------------------------------
(* How fgets reads the lines of the first stage: in pieces of              *)
(* MAX_LINE_LENGTH - 1 characters.                                         *)

\* A temporary is written as "_t%d", a label as "L%d", and both numbers are i32
Digits(n) == 1 + Cardinality({k \in 1 .. 9 : 10^k <= n})
PlaceLength(place) == IF "temp" \in DOMAIN place THEN 2 + Digits(place.temp) ELSE Width[place.text]
\* " %s", for an operand that the line has
Operand(line, k) == IF k \in DOMAIN line.args THEN 1 + PlaceLength(line.args[k]) ELSE 0

\* The characters of a line, with its newline (the SIGNATURE has none)
Length(line) ==
  CASE line.op = "SIGNATURE" -> 25
    [] line.op = "LABEL" -> 8 + Digits(line.label)
    [] line.op = "JUMP"  -> 7 + Digits(line.label)
    [] line.op = "JMPZ"  -> 7 + Digits(line.label) + Operand(line, 1)
    [] OTHER -> 5 + Operand(line, 1) + Operand(line, 2) + Operand(line, 3)

Fits(line) == Length(line) < MAX_LINE_LENGTH
LinesFit == \A i \in DOMAIN ctx.out : Fits(ctx.out[i])

\* The instruction is in the first piece.  Of the others, which are a part of its
\* operands, sscanf takes the first word for an opcode ("REST"; that the rest of a
\* name spells LABEL, JUMP or JMPZ is left out), or finds nothing but the newline
\* ("BLANK").
Pieces(line) ==
  LET room == MAX_LINE_LENGTH - 1
      n    == (Length(line) + room - 1) \div room
      rest(k) == IF k = n /\ Length(line) % room = 1 THEN "BLANK" ELSE "REST"
  IN  [k \in 1 .. n |->
         [op    |-> IF k = 1 THEN line.op ELSE rest(k),
          label |-> IF k = 1 THEN line.label ELSE 0,
          args  |-> IF k = 1 THEN line.args ELSE <<>>,
          ends  |-> k = n]]

\* One that fits is read at once
Whole(line) == [op |-> line.op, label |-> line.label, args |-> line.args, ends |-> TRUE]

AsRead(out) ==
  IF \A i \in DOMAIN out : Fits(out[i]) THEN [i \in DOMAIN out |-> Whole(out[i])]
  ELSE Sequence!FlattenSeq([i \in DOMAIN out |-> Pieces(out[i])])

----------------------------------------------------------------------------
emitVars == vars
finalizeVars == <<tmp, final, frc, pass, pos, labels, cap, current_line>>
generateVars == <<emitVars, finalizeVars>>

\* Between the stages
WAITING == "waiting"

GenerateInit ==
  /\ Init
  /\ tmp = <<>> /\ final = <<>> /\ frc = Asm!RUNNING /\ pass = WAITING /\ pos = 1
  /\ labels = <<>> /\ cap = 0 /\ current_line = 0

First == Step /\ UNCHANGED finalizeVars

\* quad_generate calls quad_finalize
Second ==
  /\ rc = 0 /\ pass = WAITING
  /\ tmp' = AsRead(ctx.out)
  /\ pass' = "alloc"
  /\ UNCHANGED <<emitVars, final, frc, pos, labels, cap, current_line>>
Finalize == pass # WAITING /\ Asm!Step /\ UNCHANGED emitVars

GenerateStep == First \/ Second \/ Finalize
Generated == rc = 1 \/ pass = "done"
GenerateNext == GenerateStep \/ (Generated /\ UNCHANGED generateVars)
GenerateSpec == GenerateInit /\ [][GenerateNext]_generateVars

----------------------------------------------------------------------------
\* The lines that the first stage wrote and that are not labels
Code == {i \in DOMAIN ctx.out : ~IsLabel(ctx.out[i])}

\* When its lines fit, the code never leaves itself, whatever failed while it was
\* generated: every jump goes to a line that the whole program has, and not behind
\* its HALT, which is followed by the signature only.  The stages count lines
\* separately: the first does not know of line numbers, the second of what the
\* labels are for.  (Nor does the first know of the second one's buffer: below a
\* longer line jumps go wrong, see JumpsLandOnTheirLabel.)
JumpsStayInCode ==
  LinesFit => \A n \in DOMAIN final :
    IsJump(final[n]) => final[n].target \in 1 .. Cardinality(Code) - 1
=============================================================================
