---------------------------- MODULE QuadFinalize ----------------------------
(***************************************************************************)
(* The second stage of code generation (quad_finalize in src/src/quad.c    *)
(* and labels_grow in src/src/quad_utils.c): two passes over the temporary *)
(* file.  The first notes the line of every label in a table that grows,   *)
(* the second copies the instructions with line numbers for labels.        *)
(*                                                                         *)
(* A "line" here is what one call of fgets returns: a line of the file, or *)
(* a piece of 99 characters of a longer one, whose "ends" is FALSE.        *)
(* A step reads one of them.                                               *)
(***************************************************************************)
EXTENDS Integers, Sequences, FiniteSets, FiniteSetsExt

CONSTANTS
  Line,               \* the lines that may occur in the temporary file
  File,               \* the temporary files
  INITIAL_LABELS_CAP,
  Fault               \* what may go wrong: calls of calloc, realloc and
                      \* fprintf that fail, and reads that fail

FaultKind == {"calloc", "realloc", "print", "read"}

ASSUME LineAssumption ==
  \A line \in Line : line.label \in Nat /\ line.ends \in BOOLEAN
\* The first stage defines no label twice (QuadEmit!LabelsUnique)
ASSUME FileAssumption ==
  /\ File \subseteq Seq(Line)
  /\ \A file \in File : \A i, j \in DOMAIN file :
       (file[i].op = "LABEL" /\ file[j].op = "LABEL" /\ file[i].label = file[j].label) => i = j
ASSUME CapAssumption == INITIAL_LABELS_CAP \in Nat \ {0}
ASSUME FaultAssumption == Fault \subseteq FaultKind

VARIABLES
  in,           \* tmp_in
  final,        \* final_out
  rc,           \* the result, RUNNING before there is one
  pass,         \* where the function is: "alloc", "labels", "jumps" or "done"
  pos,          \* the line that fgets reads next
  labels,       \* the table of labels, a sequence of [name, line]
  cap,          \* and the number of entries there is room for
  current_line
vars == <<in, final, rc, pass, pos, labels, cap, current_line>>

A == INSTANCE Assembly
RUNNING == A!RUNNING

----------------------------------------------------------------------------
\* The first entry of a name
quad_find_label(table, name) ==
  IF \E k \in DOMAIN table : table[k].name = name
  THEN table[CHOOSE k \in DOMAIN table :
               table[k].name = name /\ \A m \in 1 .. k - 1 : table[m].name # name].line
  ELSE -1

\* Faulty: one entry late
labels_grow_Late(capacity, min_need) ==
  IF min_need <= capacity + 1 THEN capacity
  ELSE Min({capacity * 2^k : k \in {e \in 1 .. min_need : capacity * 2^e >= min_need}})

\* The capacity after labels_grow: doubled until there is room for min_need
labels_grow(capacity, min_need) ==
  IF min_need <= capacity THEN capacity
  ELSE Min({capacity * 2^k : k \in {e \in 1 .. min_need : capacity * 2^e >= min_need}})

AtEnd == pos > Len(in)
line == in[pos]
Reads(p, op) == pass = p /\ ~AtEnd /\ line.op = op
Next_line == pos' = pos + 1

Return(result) == rc' = result /\ pass' = "done"

Init ==
  /\ in \in File
  /\ final = <<>> /\ rc = RUNNING /\ pass = "alloc" /\ pos = 1
  /\ labels = <<>> /\ cap = 0 /\ current_line = 0

\* calloc, and the first rewind
Alloc ==
  /\ pass = "alloc"
  /\ cap' = INITIAL_LABELS_CAP /\ pass' = "labels"
  /\ UNCHANGED <<in, final, rc, pos, labels, current_line>>
AllocFails ==
  /\ pass = "alloc" /\ "calloc" \in Fault
  /\ Return(1)
  /\ UNCHANGED <<in, final, pos, labels, cap, current_line>>

\* Faulty: the lines are numbered from 0, which quad_find_label takes for no line
NoteLabel_FromZero ==
  /\ Reads("labels", "LABEL")
  /\ cap' = labels_grow(cap, Len(labels) + 1)
  /\ labels' = Append(labels, [name |-> line.label, line |-> current_line])
  /\ Next_line
  /\ UNCHANGED <<in, final, rc, pass, current_line>>

\* Faulty: the line of a label is counted, too
NoteLabel_Counted ==
  /\ Reads("labels", "LABEL")
  /\ cap' = labels_grow(cap, Len(labels) + 1)
  /\ labels' = Append(labels, [name |-> line.label, line |-> current_line + 1])
  /\ current_line' = current_line + 1
  /\ Next_line
  /\ UNCHANGED <<in, final, rc, pass>>

\* Faulty: a full table takes no label
NoteLabel_WhileRoom ==
  /\ Reads("labels", "LABEL")
  /\ labels' = IF Len(labels) = cap THEN labels
               ELSE Append(labels, [name |-> line.label, line |-> current_line + 1])
  /\ Next_line
  /\ UNCHANGED <<in, final, rc, pass, cap, current_line>>

\* Pass 1
NoteLabel ==
  /\ Reads("labels", "LABEL")
  /\ cap' = labels_grow(cap, Len(labels) + 1)
  /\ labels' = Append(labels, [name |-> line.label, line |-> current_line + 1])
  /\ Next_line
  /\ UNCHANGED <<in, final, rc, pass, current_line>>
GrowFails ==
  /\ Reads("labels", "LABEL") /\ Len(labels) + 1 > cap /\ "realloc" \in Fault
  /\ Return(1)
  /\ UNCHANGED <<in, final, pos, labels, cap, current_line>>
CountLine ==
  /\ pass = "labels" /\ ~AtEnd /\ line.op \notin {"LABEL", "BLANK"}
  /\ current_line' = current_line + 1
  /\ Next_line
  /\ UNCHANGED <<in, final, rc, pass, labels, cap>>


\* In both passes sscanf finds no word
SkipBlank ==
  /\ Reads("labels", "BLANK") \/ Reads("jumps", "BLANK")
  /\ Next_line
  /\ UNCHANGED <<in, final, rc, pass, labels, cap, current_line>>

\* fgets returns NULL at the end of the file, and also when it cannot read on
Ends == AtEnd \/ "read" \in Fault


Rewind ==
  /\ pass = "labels" /\ Ends
  /\ pass' = "jumps" /\ pos' = 1
  /\ UNCHANGED <<in, final, rc, labels, cap, current_line>>

\* Faulty: the label is read again and again
SkipLabel_Stays == Reads("jumps", "LABEL") /\ UNCHANGED vars

\* Pass 2
SkipLabel ==
  /\ Reads("jumps", "LABEL")
  /\ Next_line
  /\ UNCHANGED <<in, final, rc, pass, labels, cap, current_line>>

\* The jump to a label.  A numeric target (label 0) is not one.
ReadsJump == pass = "jumps" /\ ~AtEnd /\ A!IsSymbolic(line)
target_line == quad_find_label(labels, line.label)

ResolveJump ==
  /\ ReadsJump /\ target_line >= 1
  /\ final' = Append(final, A!Resolved(line, target_line))
  /\ Next_line
  /\ UNCHANGED <<in, rc, pass, labels, cap, current_line>>

CopyLine ==
  /\ pass = "jumps" /\ ~AtEnd /\ line.op \notin {"LABEL", "BLANK"} /\ ~A!IsSymbolic(line)
  /\ final' = Append(final, A!Copied(line))
  /\ Next_line
  /\ UNCHANGED <<in, rc, pass, labels, cap, current_line>>

\* The two ways to the label "fail", which returns 0
UnresolvedLabel ==
  /\ ReadsJump /\ target_line < 1
  /\ Return(0)
  /\ UNCHANGED <<in, final, pos, labels, cap, current_line>>
PrintFails ==
  /\ pass = "jumps" /\ ~AtEnd /\ line.op \notin {"LABEL", "BLANK"} /\ "print" \in Fault
  /\ A!IsSymbolic(line) => target_line >= 1
  /\ Return(0)
  /\ UNCHANGED <<in, final, pos, labels, cap, current_line>>

Finish ==
  /\ pass = "jumps" /\ Ends
  /\ Return(0)
  /\ UNCHANGED <<in, final, pos, labels, cap, current_line>>

Terminated == pass = "done" /\ UNCHANGED vars

Step ==
  \/ Alloc \/ AllocFails
  \/ NoteLabel \/ GrowFails \/ CountLine \/ SkipBlank \/ Rewind
  \/ SkipLabel \/ ResolveJump \/ CopyLine \/ UnresolvedLabel \/ PrintFails \/ Finish
Next == Step \/ Terminated
Spec == Init /\ [][Next]_vars
FairSpec == Spec /\ WF_vars(Step)

----------------------------------------------------------------------------
TypeOK ==
  /\ in \in Seq(Line)
  /\ pass \in {"alloc", "labels", "jumps", "done"}
  /\ pos \in 1 .. Len(in) + 1
  /\ labels \in Seq([name : Nat, line : Nat \ {0}])
  /\ cap \in Nat /\ current_line \in Nat
  /\ rc \in {RUNNING, 0, 1}

\* Every label is written into the part of the table that is allocated.
LabelsWithinCap == Len(labels) <= cap

\* What is in the final file are the pieces of the temporary file in their order,
\* also when something failed.  All but the jumps are copied as they are.  A jump
\* names the line of the instruction below its label, if every line above the label
\* was read at once.  (Below a longer line it does not, see JumpsLandOnTheirLabel.)
FinalIsPrefix ==
  /\ Len(final) <= Cardinality(A!Instructions(in))
  /\ \A i \in A!Instructions(in) : A!Before(in, i) < Len(final) =>
       LET copy == final[A!Before(in, i) + 1] IN
       IF A!IsSymbolic(in[i])
       THEN /\ copy.op = in[i].op /\ copy.args = in[i].args /\ copy.ends
            /\ \A d \in A!DefinesAt(in, in[i].label) :
                 (\A j \in 1 .. d - 1 : in[j].ends) => copy.target = A!Before(in, d) + 1
       ELSE copy = A!Copied(in[i])

\* Reading and writing apart, the two passes do what Assembly promises: success
\* means that every instruction was written.
Assembled == A!Spec

\* quad.h and compiler.h promise a nonzero result when the final file could not
\* be completed: "finalize jumps and remove the labels, generating the final Quad
\* code" (quad.h:45), "Returns 0 on success, non-zero when compilation errors were
\* found" (compiler.h:10).
SuccessMeansComplete == rc = 0 => Len(final) = Cardinality(A!Instructions(in))

\* The number of the line of a file on which the i-th piece begins
LineNumber(file, i) == Cardinality({j \in 1 .. i - 1 : file[j].ends}) + 1

\* "build a mapping of label to the instruction line" (quad.c:271): a jump in the
\* finished file names the line on which the instruction begins that its label
\* stands above in the temporary file.
JumpsLandOnTheirLabel ==
  rc = 0 => \A i \in A!Instructions(in), d \in DOMAIN in :
    (A!IsSymbolic(in[i]) /\ d \in A!DefinesAt(in, in[i].label) /\ A!Before(in, i) < Len(final)
       /\ A!Before(in, d) < Len(final))
    => final[A!Before(in, i) + 1].target = LineNumber(final, A!Before(in, d) + 1)

\* The two passes end.
Termination == <>(pass = "done")
=============================================================================
