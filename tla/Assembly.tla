------------------------------ MODULE Assembly ------------------------------
(***************************************************************************)
(* What resolving the labels of a Quad file promises, whatever table and   *)
(* passes it takes: the instructions appear in the final file in order,    *)
(* with the number of a line in place of each label, and success is        *)
(* reported when they are all there.                                       *)
(*                                                                         *)
(* A file is a sequence of lines [op, label, args, ends]: "label" is the   *)
(* label that a LABEL defines or a JUMP or JMPZ names, 0 if there is none, *)
(* and "ends" says that the line ends in a newline.                        *)
(***************************************************************************)
EXTENDS Integers, Sequences, FiniteSets

VARIABLES
  in,    \* the temporary file
  final, \* the final file
  rc     \* the result, RUNNING before there is one

RUNNING == -1

Jumps == {"JUMP", "JMPZ"}
\* The lines of a file that are instructions
IsInstruction(line) == line.op \notin {"LABEL", "BLANK"}
Instructions(file) == {i \in DOMAIN file : IsInstruction(file[i])}

\* The number of instructions above line i
Before(file, i) == Cardinality({j \in 1 .. i - 1 : IsInstruction(file[j])})

DefinesAt(file, l) == {i \in DOMAIN file : file[i].op = "LABEL" /\ file[i].label = l}
\* The line number of the instruction that follows the definition of l
LineOf(file, l) == Before(file, CHOOSE i \in DefinesAt(file, l) : TRUE) + 1

IsSymbolic(line) == line.op \in Jumps /\ line.label # 0
Resolvable(file) ==
  \A i \in DOMAIN file : IsSymbolic(file[i]) => DefinesAt(file, file[i].label) # {}
Resolved(line, target) ==
  [op |-> line.op, target |-> target, args |-> line.args, ends |-> TRUE]
Copied(line) == [op |-> line.op, target |-> 0, args |-> line.args, ends |-> line.ends]
\* An instruction of the final file
Instruction(file, i) ==
  IF IsSymbolic(file[i]) THEN Resolved(file[i], LineOf(file, file[i].label))
  ELSE Copied(file[i])

Init == final = <<>> /\ rc = RUNNING

Emit ==
  /\ rc = RUNNING
  /\ \E i \in Instructions(in) :
       Before(in, i) = Len(final) /\ final' = Append(final, Instruction(in, i))
  /\ UNCHANGED <<in, rc>>

Succeed ==
  /\ rc = RUNNING /\ Len(final) = Cardinality(Instructions(in))
  /\ rc' = 0 /\ UNCHANGED <<in, final>>

\* It may give up at any point
Fail == rc = RUNNING /\ rc' = 1 /\ UNCHANGED <<in, final>>

Next == Emit \/ Succeed \/ Fail
Spec == Init /\ [][Next]_<<in, final, rc>>
=============================================================================
