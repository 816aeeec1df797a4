------------------------------ MODULE Pipeline ------------------------------
(***************************************************************************)
(* From a syntax tree to what its code prints (Execution), compared with   *)
(* what the source means (Meaning).                                        *)
(***************************************************************************)
EXTENDS Execution

CONSTANT FUEL \* how often the loops of a program repeat, at most

Means == INSTANCE Meaning

\* What the program means, with one of the two readings of switch
Outcome(lines, fall_through) ==
  Means!Outcome(program.body, program.symbols, NumberOf, lines, fall_through, FUEL)

PipelineInit ==
  /\ ExecutionInit
  /\ \A lines \in Stdin : Outcome(lines, FALSE).mode # Means!LOST

PipelineSpec ==
  PipelineInit /\ [][ExecutionNext]_executionVars /\ WF_executionVars(ExecutionStep)

----------------------------------------------------------------------------
\* No label stands below a line that fgets reads in pieces, which pass 1 counts one
\* by one (quad.c:273-297)
LabelsCountedRight ==
  \A d \in DOMAIN ctx.out : IsLabel(ctx.out[d]) => \A i \in 1 .. d - 1 : Fits(ctx.out[i])

\* A program that runs to its end, or to an exception, prints what the source
\* means, and raises one only where the source does (division by zero, a variable
\* without a value, a number out of range, no more input), never for an operand of
\* the wrong type.  This is so whatever failed while it was compiled: a file that
\* lacks anything, which quad_finalize may report as success, does not get to run.
\* It is not so where the numbers of labels are wrong, see JumpsLandOnTheirLabel.
RunsAsWritten ==
  status \in {Runner!HALTED, Runner!RAISED} /\ LabelsCountedRight =>
    Outcome(given, FALSE) = [mode |-> IF status = Runner!HALTED THEN Means!GO ELSE Means!RAISED,
                              out |-> output]

\* Everything ends: the stages always, the program because it is one that does.
EverythingEnds == <>Over

\* "we need to run all cases until a break" (quad_utils.c:314): the case that
\* matches and all below it.
CasesFallThrough == status = Runner!HALTED => Outcome(given, TRUE).out = output
=============================================================================
