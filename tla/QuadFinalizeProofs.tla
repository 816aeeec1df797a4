------------------------- MODULE QuadFinalizeProofs -------------------------
(***************************************************************************)
(* Proofs about QuadFinalize, for every set of files in which no label is  *)
(* defined twice.                                                          *)
(***************************************************************************)
EXTENDS QuadFinalize, FiniteSetTheorems, SequenceTheorems, WellFoundedInduction, TLAPS

(***************************************************************************)
(* Counting instructions                                                   *)
(***************************************************************************)

\* Assembly has a Cardinality of its own to the provers
LEMMA SameCardinality == \A S : A!Cardinality(S) = Cardinality(S)
  BY DEF A!Cardinality, Cardinality

LEMMA BeforeCounts ==
  \A file, i : A!Before(file, i) = Cardinality({j \in 1 .. i - 1 : A!IsInstruction(file[j])})
  BY SameCardinality DEF A!Before

LEMMA BeforeIsNat ==
  ASSUME NEW file \in Seq(Line), NEW i \in 1 .. Len(file) + 1
  PROVE  /\ IsFiniteSet({j \in 1 .. i - 1 : A!IsInstruction(file[j])})
         /\ A!Before(file, i) \in Nat
  <1>1. i - 1 \in Int /\ IsFiniteSet(1 .. i - 1)
    BY FS_Interval
  <1>2. {j \in 1 .. i - 1 : A!IsInstruction(file[j])} \in SUBSET (1 .. i - 1)
    OBVIOUS
  <1>3. IsFiniteSet({j \in 1 .. i - 1 : A!IsInstruction(file[j])})
    BY <1>1, <1>2, FS_Subset
  <1> QED BY <1>3, FS_CardinalityType, BeforeCounts

LEMMA BeforeFirst == \A file : A!Before(file, 1) = 0
  <1> SUFFICES ASSUME NEW file PROVE A!Before(file, 1) = 0
    OBVIOUS
  <1>1. {j \in 1 .. 1 - 1 : A!IsInstruction(file[j])} = {}
    OBVIOUS
  <1> QED BY <1>1, FS_EmptySet, BeforeCounts

LEMMA BeforeNext ==
  ASSUME NEW file \in Seq(Line), NEW i \in 1 .. Len(file)
  PROVE  A!Before(file, i + 1) =
           IF A!IsInstruction(file[i]) THEN A!Before(file, i) + 1 ELSE A!Before(file, i)
  <1> DEFINE S == {j \in 1 .. i - 1 : A!IsInstruction(file[j])}
             T == {j \in 1 .. i + 1 - 1 : A!IsInstruction(file[j])}
  <1>1. IsFiniteSet(S) /\ i \notin S
    BY BeforeIsNat
  <1>2. CASE A!IsInstruction(file[i])
    <2>1. T = S \cup {i}
      BY <1>2
    <2>2. Cardinality(T) = Cardinality(S) + 1
      BY <1>1, <2>1, FS_AddElement
    <2>3. A!Before(file, i + 1) = Cardinality(T) /\ A!Before(file, i) = Cardinality(S)
      BY BeforeCounts
    <2> QED BY <1>2, <2>2, <2>3
  <1>3. CASE ~A!IsInstruction(file[i])
    <2>1. T = S
      BY <1>3
    <2>2. A!Before(file, i + 1) = Cardinality(T) /\ A!Before(file, i) = Cardinality(S)
      BY BeforeCounts
    <2> QED BY <1>3, <2>1, <2>2
  <1> QED BY <1>2, <1>3

LEMMA BeforeMonotone ==
  ASSUME NEW file \in Seq(Line), NEW j \in 1 .. Len(file) + 1, NEW i \in 1 .. j
  PROVE  A!Before(file, i) <= A!Before(file, j)
  <1>1. IsFiniteSet({k \in 1 .. j - 1 : A!IsInstruction(file[k])})
    BY BeforeIsNat
  <1>2. {k \in 1 .. i - 1 : A!IsInstruction(file[k])}
          \in SUBSET {k \in 1 .. j - 1 : A!IsInstruction(file[k])}
    OBVIOUS
  <1> QED BY <1>1, <1>2, FS_Subset, BeforeCounts

\* An instruction is before everything below it
LEMMA BeforeInstruction ==
  ASSUME NEW file \in Seq(Line), NEW j \in 1 .. Len(file) + 1, NEW i \in 1 .. j - 1,
         A!IsInstruction(file[i])
  PROVE  A!Before(file, i) + 1 <= A!Before(file, j)
  <1>1. i \in 1 .. Len(file) /\ i + 1 \in 1 .. j
    OBVIOUS
  <1>2. A!Before(file, i + 1) = A!Before(file, i) + 1
    BY <1>1, BeforeNext
  <1> QED BY <1>1, <1>2, BeforeMonotone

LEMMA BeforeEnd ==
  ASSUME NEW file \in Seq(Line)
  PROVE  A!Before(file, Len(file) + 1) = Cardinality(A!Instructions(file))
  <1>1. {j \in 1 .. Len(file) + 1 - 1 : A!IsInstruction(file[j])} = A!Instructions(file)
    BY DEF A!Instructions
  <1> QED BY <1>1, BeforeCounts

(***************************************************************************)
(* The invariant                                                           *)
(***************************************************************************)

Types ==
  /\ in \in File /\ in \in Seq(Line)
  /\ pass \in {"alloc", "labels", "jumps", "done"}
  /\ pos \in 1 .. Len(in) + 1
  /\ labels \in Seq([name : Nat, line : Nat])
  /\ current_line \in Nat
  /\ final \in Seq({A!Instruction(in, i) : i \in A!Instructions(in)})

\* What pass 1 has read of the file is in the table, once
Noted(i) == pass = "labels" => i < pos
Table ==
  /\ pass = "alloc" => labels = <<>> /\ current_line = 0 /\ pos = 1
  /\ pass = "labels" => current_line = A!Before(in, pos)
  /\ \A k \in DOMAIN labels :
       \E i \in A!DefinesAt(in, labels[k].name) :
         Noted(i) /\ labels[k].line = A!Before(in, i) + 1
  /\ \A k, m \in DOMAIN labels : labels[k].name = labels[m].name => k = m
  /\ "read" \notin Fault /\ pass \in {"labels", "jumps"} =>
       \A i \in DOMAIN in : (in[i].op = "LABEL" /\ Noted(i)) =>
         \E k \in DOMAIN labels : labels[k].name = in[i].label

\* The final file holds what is above line p
Written(p) ==
  /\ Len(final) = A!Before(in, p)
  /\ \A i \in A!Instructions(in) : i < p => final[A!Before(in, i) + 1] = A!Instruction(in, i)
  /\ \A n \in DOMAIN final : \E i \in A!Instructions(in) : i < p /\ n = A!Before(in, i) + 1
Output ==
  /\ pass \in {"alloc", "labels"} => Len(final) = 0
  /\ pass = "jumps" => Written(pos)
  /\ \E p \in 1 .. Len(in) + 1 : Written(p)
  /\ pass # "done" => rc = RUNNING

IInv == Types /\ Table /\ Output

LEMMA NothingWritten ==
  ASSUME in \in Seq(Line), final = <<>>
  PROVE  Written(1)
  <1>1. \A i \in A!Instructions(in) : ~(i < 1)
    BY DEF A!Instructions
  <1>2. DOMAIN final = {}
    OBVIOUS
  <1> QED BY <1>1, <1>2, BeforeFirst DEF Written

LEMMA Initially == Init => IInv
  <1> SUFFICES ASSUME Init PROVE IInv
    OBVIOUS
  <1>1. /\ in \in File /\ in \in Seq(Line) /\ final = <<>> /\ rc = RUNNING /\ pass = "alloc"
        /\ pos = 1 /\ labels = <<>> /\ current_line = 0
    BY FileAssumption DEF Init
  <1>2. Types
    BY <1>1 DEF Types
  <1>3. Table
    BY <1>1 DEF Table
  <1>4. Written(1)
    BY <1>1, NothingWritten
  <1>5. Output
    <2>1. 1 \in 1 .. Len(in) + 1
      BY <1>1
    <2> QED BY <1>1, <1>4, <2>1 DEF Output
  <1> QED BY <1>2, <1>3, <1>5 DEF IInv

\* A label has one definition
LEMMA OneDefinition ==
  ASSUME Types, NEW l, NEW i \in A!DefinesAt(in, l)
  PROVE  A!LineOf(in, l) = A!Before(in, i) + 1
  <1>1. \A j \in A!DefinesAt(in, l) : j = i
    BY FileAssumption DEF Types, A!DefinesAt
  <1>2. (CHOOSE j \in A!DefinesAt(in, l) : TRUE) = i
    BY <1>1
  <1> QED BY <1>2 DEF A!LineOf

\* What quad_find_label finds is the number of the line below the definition
LEMMA Finds ==
  ASSUME Types, Table, NEW l \in Nat
  PROVE  /\ quad_find_label(labels, l) >= 1 => quad_find_label(labels, l) = A!LineOf(in, l)
         /\ (\E k \in DOMAIN labels : labels[k].name = l) => quad_find_label(labels, l) >= 1
         /\ quad_find_label(labels, l) \in Int
  <1>1. CASE \E k \in DOMAIN labels : labels[k].name = l
    <2>1. PICK k \in DOMAIN labels : labels[k].name = l
      BY <1>1
    <2>2. \A m \in DOMAIN labels : labels[m].name = l => m = k
      BY <2>1 DEF Table
    <2>3. k \in Nat /\ DOMAIN labels = 1 .. Len(labels)
      BY <2>1 DEF Types
    <2>4. \A m \in 1 .. k - 1 : labels[m].name # l
      BY <2>2, <2>3
    <2>5. (CHOOSE m \in DOMAIN labels :
             labels[m].name = l /\ \A n \in 1 .. m - 1 : labels[n].name # l) = k
      BY <2>1, <2>2, <2>4
    <2>6. quad_find_label(labels, l) = labels[k].line
      BY <1>1, <2>5 DEF quad_find_label
    <2>7. PICK i \in A!DefinesAt(in, l) : labels[k].line = A!Before(in, i) + 1
      BY <2>1 DEF Table
    <2>8. i \in 1 .. Len(in) + 1
      BY DEF A!DefinesAt, Types
    <2>9. A!Before(in, i) \in Nat
      BY <2>8, BeforeIsNat DEF Types
    <2> QED BY <2>6, <2>7, <2>9, OneDefinition
  <1>2. CASE ~\E k \in DOMAIN labels : labels[k].name = l
    BY <1>2 DEF quad_find_label
  <1> QED BY <1>1, <1>2

(***************************************************************************)
(* Every action keeps the invariant                                        *)
(***************************************************************************)

\* The line that is read
LEMMA Reading ==
  ASSUME Types, ~AtEnd
  PROVE  /\ pos \in 1 .. Len(in) /\ pos + 1 \in 1 .. Len(in) + 1
         /\ line \in Line /\ line.label \in Nat
         /\ in[pos] = line
  <1>1. pos \in 1 .. Len(in) /\ pos + 1 \in 1 .. Len(in) + 1
    BY DEF Types, AtEnd
  <1>2. in[pos] \in Line
    BY <1>1 DEF Types
  <1> QED BY <1>1, <1>2, LineAssumption DEF line

\* Stopping, for whatever reason
LEMMA Stops ==
  ASSUME IInv, pass' = "done", UNCHANGED <<in, final, pos, labels, current_line>>
  PROVE  IInv'
  <1>1. Types'
    BY DEF IInv, Types
  <1>2. Table'
    BY DEF IInv, Table, Noted
  <1>3. Output'
    <2>1. PICK p \in 1 .. Len(in) + 1 : Written(p)
      BY DEF IInv, Output
    <2>2. Written(p)'
      BY <2>1 DEF Written
    <2> QED BY <2>1, <2>2 DEF Output
  <1> QED BY <1>1, <1>2, <1>3 DEF IInv

LEMMA AllocInv == ASSUME IInv, Alloc PROVE IInv'
  <1> USE DEF IInv, Alloc
  <1>1. Types'
    BY DEF Types
  <1>2. Table'
    <2>1. labels' = <<>> /\ DOMAIN labels' = {} /\ pass' = "labels" /\ pos' = 1 /\ in' = in
          /\ current_line' = 0
      BY DEF Table
    <2>2. \A i \in DOMAIN in' : ~(i < pos')
      BY <2>1 DEF Types
    <2> QED BY <2>1, <2>2, BeforeFirst DEF Table, Noted
  <1>3. Output'
    <2>1. PICK p \in 1 .. Len(in) + 1 : Written(p)
      BY DEF Output
    <2>2. Written(p)'
      BY <2>1 DEF Written
    <2> QED BY <2>1, <2>2 DEF Output
  <1> QED BY <1>1, <1>2, <1>3

\* Pass 1 writes nothing
LEMMA WritesNothing ==
  ASSUME IInv, pass = "labels", pass' = "labels", UNCHANGED <<in, final, rc>>
  PROVE  Output'
  <1>1. PICK p \in 1 .. Len(in) + 1 : Written(p)
    BY DEF IInv, Output
  <1>2. Written(p)'
    BY <1>1 DEF Written
  <1> QED BY <1>1, <1>2 DEF IInv, Output

\* The label is not in the table yet, its definition having only been reached now
LEMMA NoteLabelInv == ASSUME IInv, NoteLabel PROVE IInv'
  <1> DEFINE entry == [name |-> line.label, line |-> current_line + 1]
  <1>1. /\ pass = "labels" /\ ~AtEnd /\ line.op = "LABEL"
        /\ labels' = Append(labels, entry) /\ pos' = pos + 1
        /\ UNCHANGED <<in, final, rc, pass, current_line>>
    BY DEF NoteLabel, Reads, Next_line
  <1>2. /\ pos \in 1 .. Len(in) /\ pos + 1 \in 1 .. Len(in) + 1
        /\ line.label \in Nat /\ in[pos] = line
    BY <1>1, Reading DEF IInv
  <1>3. entry \in [name : Nat, line : Nat]
    BY <1>2 DEF IInv, Types
  <1>4. Types'
    BY <1>1, <1>2, <1>3 DEF IInv, Types
  <1>5. /\ Len(labels') = Len(labels) + 1 /\ labels'[Len(labels) + 1] = entry
        /\ \A k \in DOMAIN labels : labels'[k] = labels[k]
        /\ DOMAIN labels = 1 .. Len(labels) /\ Len(labels) \in Nat
        /\ DOMAIN labels' = 1 .. Len(labels) + 1
    <2>1. labels \in Seq([name : Nat, line : Nat])
      BY DEF IInv, Types
    <2> HIDE DEF entry
    <2> QED BY <1>1, <1>3, <2>1, AppendProperties
  <1>6. pos \in A!DefinesAt(in, line.label)
    BY <1>1, <1>2 DEF A!DefinesAt, IInv, Types
  <1>7. current_line = A!Before(in, pos)
    BY <1>1 DEF IInv, Table
  <1>8. \A k \in DOMAIN labels : labels[k].name # line.label
    <2> SUFFICES ASSUME NEW k \in DOMAIN labels, labels[k].name = line.label PROVE FALSE
      OBVIOUS
    <2>1. PICK i \in A!DefinesAt(in, line.label) : i < pos
      BY <1>1 DEF IInv, Table, Noted
    <2>2. in[i].op = "LABEL" /\ in[i].label = line.label /\ i \in DOMAIN in
      BY DEF A!DefinesAt
    <2>3. i = pos
      <3>1. in \in File /\ in[pos].op = "LABEL" /\ pos \in DOMAIN in
        BY <1>1, <1>2, <2>2 DEF IInv, Types
      <3> QED BY <1>2, <2>2, <3>1, FileAssumption
    <2> QED BY <1>2, <2>1, <2>3
  <1>9. (current_line = A!Before(in, pos))'
    <2>1. ~A!IsInstruction(in[pos])
      BY <1>1, <1>2 DEF A!IsInstruction
    <2>2. A!Before(in, pos + 1) = A!Before(in, pos)
      BY <1>2, <2>1, BeforeNext DEF IInv, Types
    <2> QED BY <1>1, <1>7, <2>2
  <1>10. (\A k \in DOMAIN labels :
            \E i \in A!DefinesAt(in, labels[k].name) :
              Noted(i) /\ labels[k].line = A!Before(in, i) + 1)'
    <2> SUFFICES ASSUME NEW k \in 1 .. Len(labels) + 1
                 PROVE  \E i \in A!DefinesAt(in, labels'[k].name) :
                          Noted(i)' /\ labels'[k].line = A!Before(in, i) + 1
      BY <1>1, <1>5
    <2>1. CASE k = Len(labels) + 1
      <3> DEFINE i == pos
      <3>1. pass' = "labels" => i < pos'
        BY <1>1, <1>2
      <3>2. i \in A!DefinesAt(in, labels'[k].name) /\ labels'[k].line = A!Before(in, i) + 1
        BY <1>5, <1>6, <1>7, <2>1
      <3> QED BY <3>1, <3>2 DEF Noted
    <2>2. CASE k \in DOMAIN labels
      <3>1. PICK i \in A!DefinesAt(in, labels[k].name) :
              Noted(i) /\ labels[k].line = A!Before(in, i) + 1
        BY <2>2 DEF IInv, Table
      <3>2. i \in Nat
        BY <3>1 DEF A!DefinesAt, IInv, Types
      <3>3. Noted(i)'
        BY <1>1, <1>2, <3>1, <3>2 DEF Noted
      <3> QED BY <1>5, <2>2, <3>1, <3>3
    <2> QED BY <1>5, <2>1, <2>2
  <1>11. (\A k, m \in DOMAIN labels : labels[k].name = labels[m].name => k = m)'
    <2>1. \A k, m \in DOMAIN labels : labels[k].name = labels[m].name => k = m
      BY DEF IInv, Table
    <2> SUFFICES ASSUME NEW k \in 1 .. Len(labels) + 1, NEW m \in 1 .. Len(labels) + 1,
                        labels'[k].name = labels'[m].name
                 PROVE  k = m
      BY <1>5
    <2>2. entry.name = line.label
      OBVIOUS
    <2>3. CASE k = Len(labels) + 1 /\ m # k
      <3>1. m \in DOMAIN labels
        BY <1>5, <2>3
      <3> QED BY <1>5, <1>8, <2>2, <2>3, <3>1
    <2>4. CASE m = Len(labels) + 1 /\ m # k
      <3>1. k \in DOMAIN labels
        BY <1>5, <2>4
      <3> QED BY <1>5, <1>8, <2>2, <2>4, <3>1
    <2>5. CASE k \in DOMAIN labels /\ m \in DOMAIN labels
      BY <1>5, <2>1, <2>5
    <2> QED BY <1>5, <2>3, <2>4, <2>5
  <1>12. ("read" \notin Fault /\ pass \in {"labels", "jumps"} =>
            \A i \in DOMAIN in : (in[i].op = "LABEL" /\ Noted(i)) =>
              \E k \in DOMAIN labels : labels[k].name = in[i].label)'
    <2> SUFFICES ASSUME "read" \notin Fault, NEW i \in DOMAIN in, in[i].op = "LABEL", i < pos + 1
                 PROVE  \E k \in 1 .. Len(labels) + 1 : labels'[k].name = in[i].label
      BY <1>1, <1>5 DEF Noted
    <2>1. CASE i = pos
      <3>1. entry.name = line.label /\ Len(labels) + 1 \in 1 .. Len(labels) + 1
        BY <1>5
      <3> QED BY <1>2, <1>5, <2>1, <3>1
    <2>2. CASE i < pos
      <3>1. Noted(i)
        BY <2>2 DEF Noted
      <3>2. PICK k \in DOMAIN labels : labels[k].name = in[i].label
        BY <1>1, <3>1 DEF IInv, Table
      <3> QED BY <1>5, <3>2
    <2>3. i \in Nat
      BY DEF IInv, Types
    <2> QED BY <1>2, <2>1, <2>2, <2>3
  <1>13. Table'
    BY <1>1, <1>9, <1>10, <1>11, <1>12 DEF Table
  <1>14. Output'
    BY <1>1, WritesNothing
  <1> QED BY <1>4, <1>13, <1>14 DEF IInv

\* Pass 1 goes on over a line that is no label
LEMMA Passes ==
  ASSUME IInv, pass = "labels", ~AtEnd, line.op # "LABEL", pos' = pos + 1,
         UNCHANGED <<in, final, rc, pass, labels>>,
         current_line' = A!Before(in, pos + 1)
  PROVE  IInv'
  <1>1. /\ pos \in 1 .. Len(in) /\ pos + 1 \in 1 .. Len(in) + 1
        /\ in[pos] = line
    BY Reading DEF IInv
  <1>2. Types'
    BY <1>1, BeforeIsNat DEF IInv, Types
  <1>3. (\A k \in DOMAIN labels :
           \E i \in A!DefinesAt(in, labels[k].name) :
             Noted(i) /\ labels[k].line = A!Before(in, i) + 1)'
    <2> SUFFICES ASSUME NEW k \in DOMAIN labels
                 PROVE  \E i \in A!DefinesAt(in, labels[k].name) :
                          Noted(i)' /\ labels[k].line = A!Before(in, i) + 1
      OBVIOUS
    <2>1. PICK i \in A!DefinesAt(in, labels[k].name) :
            Noted(i) /\ labels[k].line = A!Before(in, i) + 1
      BY DEF IInv, Table
    <2>2. i \in Nat
      BY <2>1 DEF A!DefinesAt, IInv, Types
    <2> QED BY <1>1, <2>1, <2>2 DEF Noted
  <1>4. ("read" \notin Fault /\ pass \in {"labels", "jumps"} =>
           \A i \in DOMAIN in : (in[i].op = "LABEL" /\ Noted(i)) =>
             \E k \in DOMAIN labels : labels[k].name = in[i].label)'
    <2> SUFFICES ASSUME "read" \notin Fault, NEW i \in DOMAIN in, in[i].op = "LABEL", i < pos + 1
                 PROVE  \E k \in DOMAIN labels : labels[k].name = in[i].label
      BY DEF Noted
    <2>1. i \in Nat /\ i # pos
      BY <1>1 DEF IInv, Types
    <2>2. Noted(i)
      BY <1>1, <2>1 DEF Noted
    <2> QED BY <2>2 DEF IInv, Table
  <1>5. Table'
    BY <1>3, <1>4 DEF IInv, Table
  <1>6. Output'
    BY WritesNothing
  <1> QED BY <1>2, <1>5, <1>6 DEF IInv

LEMMA CountLineInv == ASSUME IInv, CountLine PROVE IInv'
  <1>1. /\ pass = "labels" /\ ~AtEnd /\ line.op \notin {"LABEL", "BLANK"}
        /\ pos' = pos + 1 /\ current_line' = current_line + 1
        /\ UNCHANGED <<in, final, rc, pass, labels>>
    BY DEF CountLine, Next_line
  <1>2. A!IsInstruction(in[pos]) /\ pos \in 1 .. Len(in)
    BY <1>1, Reading DEF A!IsInstruction, IInv
  <1>3. current_line' = A!Before(in, pos + 1)
    BY <1>1, <1>2, BeforeNext DEF IInv, Table, Types
  <1> QED BY <1>1, <1>3, Passes

\* Pass 2 goes on over a line that is no instruction
LEMMA WrittenOver ==
  ASSUME IInv, pass = "jumps", ~AtEnd, ~A!IsInstruction(in[pos]), pos' = pos + 1,
         UNCHANGED <<in, final, rc, pass, labels, current_line>>
  PROVE  IInv'
  <1>1. pos \in 1 .. Len(in) /\ pos + 1 \in 1 .. Len(in) + 1
    BY Reading DEF IInv
  <1>2. Types'
    BY <1>1 DEF IInv, Types
  <1>3. Table'
    BY DEF IInv, Table, Noted
  <1>4. A!Before(in, pos + 1) = A!Before(in, pos)
    BY <1>1, BeforeNext DEF IInv, Types
  <1>5. Written(pos)
    BY DEF IInv, Output
  <1>6. \A i \in A!Instructions(in) : i < pos + 1 => i < pos
    BY <1>1 DEF A!Instructions, IInv, Types
  <1>7. /\ Len(final) = A!Before(in, pos + 1)
        /\ \A i \in A!Instructions(in) : i < pos + 1 =>
             final[A!Before(in, i) + 1] = A!Instruction(in, i)
    BY <1>4, <1>5, <1>6 DEF Written
  <1>8. \A n \in DOMAIN final : \E i \in A!Instructions(in) :
          i < pos + 1 /\ n = A!Before(in, i) + 1
    <2>1. \A i \in A!Instructions(in) : i < pos => i < pos + 1
      BY <1>1 DEF A!Instructions, IInv, Types
    <2> QED BY <1>5, <2>1 DEF Written
  <1>9. Output'
    BY <1>1, <1>7, <1>8 DEF IInv, Output, Written
  <1> QED BY <1>2, <1>3, <1>9 DEF IInv

LEMMA SkipBlankInv == ASSUME IInv, SkipBlank PROVE IInv'
  <1>1. /\ pass \in {"labels", "jumps"} /\ ~AtEnd /\ line.op = "BLANK" /\ pos' = pos + 1
        /\ UNCHANGED <<in, final, rc, pass, labels, current_line>>
    BY DEF SkipBlank, Reads, Next_line
  <1>2. /\ pos \in 1 .. Len(in) /\ in[pos] = line
    BY <1>1, Reading DEF IInv
  <1>3. ~A!IsInstruction(in[pos])
    BY <1>1, <1>2 DEF A!IsInstruction
  <1>4. A!Before(in, pos + 1) = A!Before(in, pos)
    BY <1>2, <1>3, BeforeNext DEF IInv, Types
  <1>5. CASE pass = "labels"
    <2>1. current_line' = A!Before(in, pos + 1)
      BY <1>1, <1>4, <1>5 DEF IInv, Table
    <2> QED BY <1>1, <1>5, <2>1, Passes
  <1>6. CASE pass = "jumps"
    BY <1>1, <1>3, <1>6, WrittenOver
  <1> QED BY <1>1, <1>5, <1>6

LEMMA SkipLabelInv == ASSUME IInv, SkipLabel PROVE IInv'
  <1>1. /\ pass = "jumps" /\ ~AtEnd /\ line.op = "LABEL" /\ pos' = pos + 1
        /\ UNCHANGED <<in, final, rc, pass, labels, current_line>>
    BY DEF SkipLabel, Reads, Next_line
  <1>2. ~A!IsInstruction(in[pos])
    BY <1>1, Reading DEF A!IsInstruction, IInv
  <1> QED BY <1>1, <1>2, WrittenOver

LEMMA RewindInv == ASSUME IInv, Rewind PROVE IInv'
  <1>1. /\ pass = "labels" /\ (AtEnd \/ "read" \in Fault) /\ pass' = "jumps" /\ pos' = 1
        /\ UNCHANGED <<in, final, rc, labels, current_line>>
    BY DEF Rewind, Ends
  <1>2. Types'
    BY <1>1 DEF IInv, Types
  <1>3. "read" \notin Fault => \A i \in DOMAIN in : Noted(i)
    BY <1>1 DEF AtEnd, Noted, IInv, Types
  <1>4. Table'
    BY <1>1, <1>3 DEF IInv, Table, Noted
  <1>5. Written(1)'
    <2>1. in \in Seq(Line) /\ final = <<>>
      BY <1>1 DEF IInv, Types, Output
    <2>2. Written(1)
      BY <2>1, NothingWritten
    <2> QED BY <1>1, <2>2 DEF Written
  <1>6. Output'
    <2>1. 1 \in 1 .. Len(in) + 1
      BY DEF IInv, Types
    <2> QED BY <1>1, <1>5, <2>1 DEF IInv, Output
  <1> QED BY <1>2, <1>4, <1>6 DEF IInv

\* Pass 2 writes the instruction that it has read
LEMMA Writes ==
  ASSUME IInv, pass = "jumps", ~AtEnd, A!IsInstruction(in[pos]),
         final' = Append(final, A!Instruction(in, pos)), pos' = pos + 1,
         UNCHANGED <<in, rc, pass, labels, current_line>>
  PROVE  IInv'
  <1> DEFINE new == A!Instruction(in, pos)
             S == {A!Instruction(in, i) : i \in A!Instructions(in)}
  <1>1. pos \in 1 .. Len(in) /\ pos + 1 \in 1 .. Len(in) + 1
    BY Reading DEF IInv
  <1>2. pos \in A!Instructions(in) /\ new \in S /\ final \in Seq(S)
    BY <1>1 DEF IInv, Types, A!Instructions
  <1>3. /\ final' \in Seq(S) /\ Len(final') = Len(final) + 1
        /\ final'[Len(final) + 1] = new
        /\ \A n \in 1 .. Len(final) : final'[n] = final[n]
    <2>1. final' = Append(final, new)
      OBVIOUS
    <2> HIDE DEF S, new
    <2> QED BY <1>2, <2>1, AppendProperties
  <1>4. Types'
    BY <1>1, <1>3 DEF IInv, Types
  <1>5. Table'
    BY DEF IInv, Table, Noted
  <1>6. Written(pos)
    BY DEF IInv, Output
  <1>7. A!Before(in, pos + 1) = A!Before(in, pos) + 1
    BY <1>1, BeforeNext DEF IInv, Types
  <1>8. \A i \in A!Instructions(in) : i < pos + 1 =>
          final'[A!Before(in, i) + 1] = A!Instruction(in, i)
    <2> SUFFICES ASSUME NEW i \in A!Instructions(in), i < pos + 1
                 PROVE  final'[A!Before(in, i) + 1] = A!Instruction(in, i)
      OBVIOUS
    <2>1. CASE i = pos
      BY <1>3, <1>6, <2>1 DEF Written
    <2>2. CASE i < pos
      <3>1. i \in 1 .. pos - 1 /\ A!IsInstruction(in[i]) /\ pos \in 1 .. Len(in) + 1
        BY <1>1, <2>2 DEF A!Instructions, IInv, Types
      <3>2. A!Before(in, i) + 1 <= A!Before(in, pos)
        BY <3>1, BeforeInstruction DEF IInv, Types
      <3>3. A!Before(in, i) \in Nat
        <4>1. in \in Seq(Line) /\ i \in 1 .. Len(in) + 1
          BY <3>1 DEF IInv, Types
        <4> QED BY <4>1, BeforeIsNat
      <3>4. A!Before(in, i) + 1 \in 1 .. Len(final)
        BY <1>6, <3>2, <3>3 DEF Written
      <3>5. final[A!Before(in, i) + 1] = A!Instruction(in, i)
        BY <1>6, <2>2 DEF Written
      <3>6. final'[A!Before(in, i) + 1] = final[A!Before(in, i) + 1]
        BY <1>3, <3>4
      <3> QED BY <3>5, <3>6
    <2>3. i \in Nat
      BY DEF A!Instructions, IInv, Types
    <2>4. i = pos \/ i < pos
      BY <1>1, <2>3
    <2> QED BY <2>1, <2>2, <2>4
  <1>9. Len(final') = A!Before(in, pos + 1)
    BY <1>3, <1>6, <1>7 DEF Written
  <1>10. \A n \in DOMAIN final' : \E i \in A!Instructions(in) :
           i < pos + 1 /\ n = A!Before(in, i) + 1
    <2>1. \A i \in A!Instructions(in) : i < pos => i < pos + 1
      BY <1>1 DEF A!Instructions, IInv, Types
    <2>2. Len(final) \in Nat /\ DOMAIN final = 1 .. Len(final) /\ DOMAIN final' = 1 .. Len(final) + 1
      BY <1>2, <1>3
    <2>3. pos < pos + 1 /\ Len(final) + 1 = A!Before(in, pos) + 1
      BY <1>1, <1>6 DEF Written
    <2>4. ASSUME NEW n \in 1 .. Len(final)
          PROVE  \E i \in A!Instructions(in) : i < pos + 1 /\ n = A!Before(in, i) + 1
      BY <1>6, <2>1, <2>2 DEF Written
    <2> QED BY <1>2, <2>2, <2>3, <2>4
  <1>11. Output'
    <2>1. Written(pos)'
      BY <1>8, <1>9, <1>10 DEF Written
    <2>2. pos' \in 1 .. Len(in') + 1
      BY <1>1 DEF IInv, Types
    <2>3. \E p \in 1 .. Len(in') + 1 : Written(p)'
      BY <2>1, <2>2
    <2> QED BY <2>1, <2>3 DEF IInv, Output
  <1> QED BY <1>4, <1>5, <1>11 DEF IInv

\* What the two copying actions append is the instruction that they have read
LEMMA ResolveJumpWrites ==
  ASSUME IInv, ResolveJump
  PROVE  /\ pass = "jumps" /\ ~AtEnd /\ A!IsInstruction(in[pos]) /\ pos' = pos + 1
         /\ final' = Append(final, A!Instruction(in, pos))
         /\ UNCHANGED <<in, rc, pass, labels, current_line>>
  <1>1. /\ pass = "jumps" /\ ~AtEnd /\ A!IsSymbolic(line) /\ target_line >= 1 /\ pos' = pos + 1
        /\ final' = Append(final, A!Resolved(line, target_line))
        /\ UNCHANGED <<in, rc, pass, labels, current_line>>
    BY DEF ResolveJump, ReadsJump, Next_line
  <1>2. in[pos] = line /\ line.label \in Nat
    BY <1>1, Reading DEF IInv
  <1>3. A!IsInstruction(in[pos])
    BY <1>1, <1>2 DEF A!IsSymbolic, A!Jumps, A!IsInstruction
  <1>4. target_line = A!LineOf(in, line.label)
    BY <1>1, <1>2, Finds DEF target_line, IInv
  <1> QED BY <1>1, <1>2, <1>3, <1>4 DEF A!Instruction

LEMMA CopyLineWrites ==
  ASSUME IInv, CopyLine
  PROVE  /\ pass = "jumps" /\ ~AtEnd /\ A!IsInstruction(in[pos]) /\ pos' = pos + 1
         /\ final' = Append(final, A!Instruction(in, pos))
         /\ UNCHANGED <<in, rc, pass, labels, current_line>>
  <1>1. /\ pass = "jumps" /\ ~AtEnd /\ line.op \notin {"LABEL", "BLANK"} /\ ~A!IsSymbolic(line)
        /\ pos' = pos + 1 /\ final' = Append(final, A!Copied(line))
        /\ UNCHANGED <<in, rc, pass, labels, current_line>>
    BY DEF CopyLine, Next_line
  <1>2. in[pos] = line
    BY <1>1, Reading DEF IInv
  <1> QED BY <1>1, <1>2 DEF A!Instruction, A!IsInstruction

LEMMA Inductive == IInv /\ [Next]_vars => IInv'
  <1> SUFFICES ASSUME IInv, [Next]_vars PROVE IInv'
    OBVIOUS
  <1>1. CASE Alloc
    BY <1>1, AllocInv
  <1>2. CASE NoteLabel
    BY <1>2, NoteLabelInv
  <1>3. CASE CountLine
    BY <1>3, CountLineInv
  <1>4. CASE SkipBlank
    BY <1>4, SkipBlankInv
  <1>5. CASE Rewind
    BY <1>5, RewindInv
  <1>6. CASE SkipLabel
    BY <1>6, SkipLabelInv
  <1>7. CASE ResolveJump
    BY <1>7, ResolveJumpWrites, Writes
  <1>8. CASE CopyLine
    BY <1>8, CopyLineWrites, Writes
  <1>9. CASE AllocFails \/ GrowFails \/ UnresolvedLabel \/ PrintFails \/ Finish
    BY <1>9, Stops DEF AllocFails, GrowFails, UnresolvedLabel, PrintFails, Finish, Return
  <1>10. CASE UNCHANGED vars
    <2>1. Types' /\ Table'
      BY <1>10 DEF vars, IInv, Types, Table, Noted
    <2>2. \A p : Written(p) => Written(p)'
      BY <1>10 DEF vars, Written
    <2>3. Output'
      BY <1>10, <2>2 DEF vars, IInv, Output
    <2> QED BY <2>1, <2>3 DEF IInv
  <1> QED
    BY <1>1, <1>2, <1>3, <1>4, <1>5, <1>6, <1>7, <1>8, <1>9, <1>10 DEF Next, Step, Terminated

(***************************************************************************)
(* The theorems                                                            *)
(***************************************************************************)

\* What the invariant says holds in every state.
THEOREM Invariant == Spec => []IInv
  BY Initially, Inductive, PTL DEF Spec

\* What holds piece by piece, whatever a line number counts
CopiedInOrder ==
  /\ Len(final) <= Cardinality(A!Instructions(in))
  /\ \A i \in A!Instructions(in) :
       A!Before(in, i) < Len(final) => final[A!Before(in, i) + 1] = A!Instruction(in, i)

LEMMA IInvCopies == IInv => CopiedInOrder
  <1> SUFFICES ASSUME IInv PROVE CopiedInOrder
    OBVIOUS
  <1>1. PICK p \in 1 .. Len(in) + 1 : Written(p)
    BY DEF IInv, Output
  <1>2. in \in Seq(Line) /\ Len(in) \in Nat /\ A!Before(in, p) \in Nat
    <2>1. in \in Seq(Line)
      BY DEF IInv, Types
    <2>2. A!Before(in, p) \in Nat
      BY <2>1, BeforeIsNat
    <2> QED BY <2>1, <2>2
  <1>3. Len(final) <= Cardinality(A!Instructions(in))
    <2>1. Len(in) + 1 \in 1 .. Len(in) + 1 /\ p \in 1 .. Len(in) + 1
      BY <1>2
    <2>2. A!Before(in, p) <= A!Before(in, Len(in) + 1)
      BY <1>2, <2>1, BeforeMonotone
    <2> QED BY <1>1, <1>2, <2>2, BeforeEnd DEF Written
  <1>4. ASSUME NEW i \in A!Instructions(in), A!Before(in, i) < Len(final)
        PROVE  final[A!Before(in, i) + 1] = A!Instruction(in, i)
    <2>1. i \in 1 .. Len(in)
      BY <1>2 DEF A!Instructions
    <2>2. CASE i < p
      BY <1>1, <2>2 DEF Written
    <2>3. CASE p <= i
      <3>1. i \in 1 .. Len(in) + 1 /\ p \in 1 .. i
        BY <1>2, <2>1, <2>3
      <3>2. A!Before(in, p) <= A!Before(in, i)
        BY <1>2, <3>1, BeforeMonotone
      <3>3. A!Before(in, i) \in Nat
        BY <1>2, <3>1, BeforeIsNat
      <3> QED BY <1>1, <1>2, <1>4, <3>2, <3>3 DEF Written
    <2> QED BY <2>1, <2>2, <2>3
  <1> QED BY <1>3, <1>4 DEF CopiedInOrder

LEMMA IInvGivesPrefix == IInv => FinalIsPrefix
  <1> SUFFICES ASSUME IInv PROVE FinalIsPrefix
    OBVIOUS
  <1>1. CopiedInOrder /\ Types
    BY IInvCopies DEF IInv
  <1>2. Len(final) <= Cardinality(A!Instructions(in))
    BY <1>1 DEF CopiedInOrder
  <1>3. ASSUME NEW i \in A!Instructions(in), A!Before(in, i) < Len(final), A!IsSymbolic(in[i])
        PROVE  LET copy == final[A!Before(in, i) + 1] IN
               /\ copy.op = in[i].op /\ copy.args = in[i].args /\ copy.ends
               /\ \A d \in A!DefinesAt(in, in[i].label) : copy.target = A!Before(in, d) + 1
    <2>1. final[A!Before(in, i) + 1] = A!Resolved(in[i], A!LineOf(in, in[i].label))
      BY <1>1, <1>3 DEF CopiedInOrder, A!Instruction
    <2>2. \A d \in A!DefinesAt(in, in[i].label) : A!LineOf(in, in[i].label) = A!Before(in, d) + 1
      BY <1>1, OneDefinition
    <2> QED BY <2>1, <2>2 DEF A!Resolved
  <1>4. ASSUME NEW i \in A!Instructions(in), A!Before(in, i) < Len(final), ~A!IsSymbolic(in[i])
        PROVE  final[A!Before(in, i) + 1] = A!Copied(in[i])
    BY <1>1, <1>4 DEF CopiedInOrder, A!Instruction
  <1> QED BY <1>2, <1>3, <1>4 DEF FinalIsPrefix

\* Every line of the final file is that of an instruction
LEMMA LinesAreInstructions ==
  ASSUME IInv, NEW n \in DOMAIN final
  PROVE  \E i \in A!Instructions(in) :
           n = A!Before(in, i) + 1 /\ final[n] = A!Instruction(in, i)
  <1>1. PICK p \in 1 .. Len(in) + 1 : Written(p)
    BY DEF IInv, Output
  <1> QED BY <1>1 DEF Written

\* Whatever fails, what is in the final file are the instructions in their order, for
\* files of any length and tables that grow by any amount.  A jump that was written
\* names the line of the instruction below its label, unless there is a line above
\* the label that is longer than what fgets returns at once: then nothing is said of
\* where the jump goes.
THEOREM FinalCorrect == Spec => []FinalIsPrefix
  BY Invariant, IInvGivesPrefix, PTL

\* When only memory may run out, every step does something that Assembly allows
LEMMA StepsImplement ==
  ASSUME Fault \subseteq {"calloc", "realloc"}, A!Resolvable(in), IInv, [Next]_vars
  PROVE  [A!Next]_<<in, final, rc>>
  <1>1. rc = RUNNING \/ pass = "done"
    BY DEF IInv, Output
  <1>2. CASE AllocFails \/ GrowFails
    BY <1>1, <1>2 DEF AllocFails, GrowFails, Reads, Return, A!Next, A!Fail, RUNNING
  <1>3. ASSUME pass = "jumps", ~AtEnd, A!IsInstruction(in[pos]),
               final' = Append(final, A!Instruction(in, pos)), UNCHANGED <<in, rc>>
        PROVE  A!Emit
    <2>1. pos \in A!Instructions(in)
      BY <1>3, Reading DEF A!Instructions, IInv, Types
    <2>2. A!Before(in, pos) = Len(final)
      BY <1>3 DEF IInv, Output, Written
    <2> QED BY <1>1, <1>3, <2>1, <2>2 DEF A!Emit, RUNNING
  <1>4. CASE ResolveJump
    BY <1>3, <1>4, ResolveJumpWrites DEF A!Next
  <1>5. CASE CopyLine
    BY <1>3, <1>5, CopyLineWrites DEF A!Next
  <1>6. ~UnresolvedLabel
    <2> SUFFICES ASSUME UnresolvedLabel PROVE FALSE
      OBVIOUS
    <2>1. pass = "jumps" /\ ~AtEnd /\ A!IsSymbolic(line) /\ ~(target_line >= 1)
      <3>1. pass = "jumps" /\ ~AtEnd /\ A!IsSymbolic(line) /\ target_line < 1
        BY DEF UnresolvedLabel, ReadsJump
      <3>2. target_line \in Int
        BY Reading, <3>1, Finds DEF target_line, IInv
      <3> QED BY <3>1, <3>2
    <2>2. in[pos] = line /\ line.label \in Nat /\ pos \in DOMAIN in
      BY <2>1, Reading DEF IInv, Types
    <2>3. PICK i \in DOMAIN in : in[i].op = "LABEL" /\ in[i].label = line.label
      BY <2>1, <2>2 DEF IInv, Types, A!Resolvable, A!DefinesAt
    <2>4. PICK k \in DOMAIN labels : labels[k].name = line.label
      BY <2>1, <2>3 DEF IInv, Table, Noted
    <2> QED BY <2>1, <2>2, <2>4, Finds DEF target_line, IInv
  <1>7. ~PrintFails
    BY DEF PrintFails
  <1>8. CASE Finish
    <2>1. pass = "jumps" /\ AtEnd /\ rc' = 0 /\ UNCHANGED <<in, final>>
      BY <1>8 DEF Finish, Ends, Return
    <2>2. pos = Len(in) + 1
      BY <2>1 DEF AtEnd, IInv, Types
    <2>3. Len(final) = Cardinality(A!Instructions(in))
      BY <2>1, <2>2, BeforeEnd DEF IInv, Types, Output, Written
    <2>4. A!Succeed
      BY <1>1, <2>1, <2>3, SameCardinality DEF A!Succeed, RUNNING
    <2> QED BY <2>4 DEF A!Next
  <1>9. CASE Alloc \/ NoteLabel \/ CountLine \/ SkipBlank \/ Rewind \/ SkipLabel
    BY <1>9 DEF Alloc, NoteLabel, CountLine, SkipBlank, Rewind, SkipLabel
  <1>10. CASE UNCHANGED vars
    BY <1>10 DEF vars
  <1> QED
    BY <1>2, <1>4, <1>5, <1>6, <1>7, <1>8, <1>9, <1>10 DEF Next, Step, Terminated

\* When only memory may run out, quad_finalize does what Assembly promises: it
\* writes the instructions in order and reports success when they are all there.
THEOREM ImplementsAssembly ==
  ASSUME Fault \subseteq {"calloc", "realloc"}, \A file \in File : A!Resolvable(file)
  PROVE  Spec => Assembled
  <1>1. Init => A!Init
    BY DEF Init, A!Init, RUNNING
  <1>2. IInv => A!Resolvable(in)
    BY DEF IInv, Types
  <1>3. IInv /\ [Next]_vars => [A!Next]_<<in, final, rc>>
    BY <1>2, StepsImplement
  <1> QED BY <1>1, <1>3, Invariant, PTL DEF Spec, A!Spec, Assembled

(***************************************************************************)
(* The table of labels                                                     *)
(***************************************************************************)

LEMMA MinIsLeast ==
  ASSUME NEW S \in SUBSET Nat, S # {}
  PROVE  Min(S) \in S /\ \A x \in S : Min(S) <= x
  <1> DEFINE Less == OpToRel(<, Nat)
  <1>1. ASSUME NEW x \in Nat, NEW y \in Nat, x < y PROVE <<x, y>> \in Less
    <2>1. <<x, y>>[1] = x /\ <<x, y>>[2] = y /\ <<x, y>> \in Nat \X Nat
      OBVIOUS
    <2> QED BY <1>1, <2>1, Zenon DEF OpToRel
  <1>2. IsWellFoundedOn(Less, Nat)
    BY NatLessThanWellFounded
  <1> HIDE DEF Less
  <1>3. PICK m \in S : \A x \in S : ~(<<x, m>> \in Less)
    BY <1>2, WFMin
  <1>4. \A x \in S : m <= x
    <2> SUFFICES ASSUME NEW x \in S PROVE ~(x < m)
      OBVIOUS
    <2>1. x \in Nat /\ m \in Nat /\ ~(<<x, m>> \in Less)
      BY <1>3
    <2> QED BY <1>1, <2>1, Zenon
  <1> QED BY <1>4 DEF Min

\* Where there is room for n labels there is room for one more after labels_grow:
\* the capacity is not 0, so that doubling it is enough
LEMMA GrowsEnough ==
  ASSUME NEW n \in Nat, NEW c \in Nat \ {0}, n <= c
  PROVE  labels_grow(c, n + 1) \in Nat \ {0} /\ n + 1 <= labels_grow(c, n + 1)
  <1>1. CASE n + 1 <= c
    BY <1>1 DEF labels_grow
  <1>2. CASE ~(n + 1 <= c)
    <2> DEFINE D == {e \in 1 .. n + 1 : c * 2^e >= n + 1}
               S == {c * 2^k : k \in D}
    <2>1. 1 \in D
      <3>1. n = c /\ 2^1 = 2
        BY <1>2
      <3> QED BY <3>1
    <2>2. ASSUME NEW k \in D PROVE c * 2^k \in Nat /\ c * 2^k >= n + 1
      <3>1. k \in Nat
        OBVIOUS
      <3>2. 2^k \in Int
        BY <3>1
      <3>3. c * 2^k \in Int
        BY <3>2
      <3> QED BY <3>3
    <2>3. S \in SUBSET Nat /\ S # {} /\ \A x \in S : x >= n + 1
      BY <2>1, <2>2
    <2>4. labels_grow(c, n + 1) = Min(S)
      BY <1>2 DEF labels_grow
    <2> HIDE DEF S
    <2>5. Min(S) \in S
      BY <2>3, MinIsLeast
    <2>6. Min(S) \in Nat /\ Min(S) >= n + 1
      BY <2>3, <2>5
    <2> QED BY <2>4, <2>6
  <1> QED BY <1>1, <1>2

Room ==
  /\ cap \in Nat /\ Len(labels) <= cap
  /\ pass = "labels" => cap # 0

LEMMA RoomKept == IInv /\ Room /\ [Next]_vars => Room'
  <1> SUFFICES ASSUME IInv, Room, [Next]_vars PROVE Room'
    OBVIOUS
  <1>1. CASE Alloc
    BY <1>1, CapAssumption DEF Alloc, Room, IInv, Table
  <1>2. CASE NoteLabel
    <2>1. /\ pass = "labels" /\ UNCHANGED pass /\ cap' = labels_grow(cap, Len(labels) + 1)
          /\ labels' = Append(labels, [name |-> line.label, line |-> current_line + 1])
      BY <1>2 DEF NoteLabel, Reads
    <2>2. Len(labels) \in Nat /\ Len(labels') = Len(labels) + 1
      BY <2>1 DEF IInv, Types
    <2>3. cap \in Nat \ {0} /\ Len(labels) <= cap
      BY <2>1 DEF Room
    <2> QED BY <2>1, <2>2, <2>3, GrowsEnough DEF Room
  <1>3. CASE UNCHANGED <<labels, cap>> /\ (pass' = "labels" => pass = "labels")
    BY <1>3 DEF Room
  <1>4. CASE AllocFails \/ GrowFails \/ UnresolvedLabel \/ PrintFails \/ Finish
    BY <1>3, <1>4 DEF AllocFails, GrowFails, UnresolvedLabel, PrintFails, Finish, Return
  <1>5. CASE CountLine \/ SkipBlank \/ Rewind \/ SkipLabel \/ ResolveJump \/ CopyLine
    BY <1>3, <1>5 DEF CountLine, SkipBlank, Rewind, SkipLabel, ResolveJump, CopyLine
  <1>6. CASE UNCHANGED vars
    BY <1>3, <1>6 DEF vars
  <1> QED BY <1>1, <1>2, <1>4, <1>5, <1>6 DEF Next, Step, Terminated

\* Pass 1 never writes a label behind the end of the table, however many labels
\* there are and whatever fails: labels_grow makes room before each.
THEOREM LabelsFit == Spec => []LabelsWithinCap
  <1>1. Init => Room
    BY DEF Init, Room
  <1>2. Room => LabelsWithinCap
    BY DEF Room, LabelsWithinCap
  <1> QED BY <1>1, <1>2, RoomKept, Invariant, PTL DEF Spec

Result == rc \in {RUNNING, 0, 1}

LEMMA ResultKept == Result /\ [Next]_vars => Result'
  BY DEF Result, vars, Next, Step, Terminated, Alloc, AllocFails, NoteLabel, GrowFails, CountLine,
         SkipBlank, Rewind, SkipLabel, ResolveJump, CopyLine, UnresolvedLabel, PrintFails, Finish,
         Return

LEMMA MemberOf ==
  ASSUME NEW S, NEW s \in Seq(S), NEW k \in DOMAIN s PROVE s[k] \in S
  OBVIOUS

LEMMA SeqOf ==
  ASSUME NEW S, NEW T, NEW s \in Seq(S), \A k \in DOMAIN s : s[k] \in T
  PROVE  s \in Seq(T)
  OBVIOUS

\* The variables keep their types, for files of any length and whatever fails;
\* no label gets line 0, which quad_finalize takes for one that is not found.
THEOREM TypeCorrect == Spec => []TypeOK
  <1>1. IInv /\ Room /\ Result => TypeOK
    <2> SUFFICES ASSUME IInv, Room, Result PROVE TypeOK
      OBVIOUS
    <2>1. ASSUME NEW k \in DOMAIN labels PROVE labels[k] \in [name : Nat, line : Nat \ {0}]
      <3>1. labels[k] \in [name : Nat, line : Nat]
        <4>1. labels \in Seq([name : Nat, line : Nat])
          BY DEF IInv, Types
        <4> QED BY <4>1, MemberOf
      <3>2. PICK i \in A!DefinesAt(in, labels[k].name) : labels[k].line = A!Before(in, i) + 1
        BY DEF IInv, Table
      <3>3. in \in Seq(Line)
        BY DEF IInv, Types
      <3>4. i \in 1 .. Len(in) + 1
        BY <3>3 DEF A!DefinesAt
      <3>5. A!Before(in, i) \in Nat
        BY <3>3, <3>4, BeforeIsNat
      <3> QED BY <3>1, <3>2, <3>5
    <2>2. labels \in Seq([name : Nat, line : Nat \ {0}])
      <3>1. labels \in Seq([name : Nat, line : Nat])
        BY DEF IInv, Types
      <3> QED BY <2>1, <3>1, SeqOf
    <2> QED BY <2>2 DEF IInv, Types, Room, Result, TypeOK
  <1>2. Init => Room /\ Result
    BY DEF Init, Room, Result
  <1> QED BY <1>1, <1>2, RoomKept, ResultKept, Invariant, PTL DEF Spec

(***************************************************************************)
(* The numbers of the lines                                                *)
(***************************************************************************)

LEMMA LineNumberIs ==
  ASSUME NEW file, NEW i \in Nat \ {0}, \A j \in 1 .. i - 1 : file[j].ends
  PROVE  LineNumber(file, i) = i
  <1>1. {j \in 1 .. i - 1 : file[j].ends} = 1 .. i - 1
    OBVIOUS
  <1>2. Cardinality({j \in 1 .. i - 1 : file[j].ends}) = i - 1
    <2>1. Cardinality(1 .. i - 1) = i - 1
      BY FS_Interval
    <2> QED BY <1>1, <2>1, Zenon
  <1>3. LineNumber(file, i) = Cardinality({j \in 1 .. i - 1 : file[j].ends}) + 1
    BY DEF LineNumber
  <1> QED BY <1>2, <1>3

LEMMA JumpsLand ==
  ASSUME IInv, CopiedInOrder, \A l \in Line : l.ends
  PROVE  JumpsLandOnTheirLabel
  <1> SUFFICES ASSUME NEW i \in A!Instructions(in), NEW d \in DOMAIN in, A!IsSymbolic(in[i]),
                      d \in A!DefinesAt(in, in[i].label),
                      A!Before(in, i) < Len(final), A!Before(in, d) < Len(final)
               PROVE  final[A!Before(in, i) + 1].target = LineNumber(final, A!Before(in, d) + 1)
    BY DEF JumpsLandOnTheirLabel
  <1> DEFINE n == A!Before(in, d)
  <1>1. Types /\ in \in Seq(Line)
    BY DEF IInv, Types
  <1>2. n \in Nat
    <2>1. d \in 1 .. Len(in) + 1
      BY <1>1
    <2> QED BY <1>1, <2>1, BeforeIsNat
  <1>3. final[A!Before(in, i) + 1].target = n + 1
    <2>1. final[A!Before(in, i) + 1] = A!Instruction(in, i)
      BY DEF CopiedInOrder
    <2>2. A!Instruction(in, i).target = A!LineOf(in, in[i].label)
      BY DEF A!Instruction, A!Resolved
    <2> QED BY <1>1, <2>1, <2>2, OneDefinition
  <1> HIDE DEF n
  <1>4. ASSUME NEW j \in 1 .. n PROVE final[j].ends
    <2>1. j \in DOMAIN final
      <3>1. n < Len(final)
        BY DEF n
      <3>2. DOMAIN final = 1 .. Len(final) /\ Len(final) \in Nat
        BY <1>1 DEF Types
      <3> QED BY <1>2, <3>1, <3>2
    <2>2. PICK k \in A!Instructions(in) : final[j] = A!Instruction(in, k)
      BY <1>1, <2>1 DEF Types
    <2>3. in[k] \in Line
      BY <1>1 DEF A!Instructions
    <2> QED BY <2>2, <2>3 DEF A!Instruction, A!Resolved, A!Copied
  <1>5. LineNumber(final, n + 1) = n + 1
    BY <1>2, <1>4, LineNumberIs
  <1> QED BY <1>3, <1>5 DEF n

\* If no line of the temporary file is longer than what fgets returns at once, a
\* jump in a finished file names the line on which the instruction begins that
\* its label stands above.  With longer lines it need not.
THEOREM JumpsAlwaysLand ==
  ASSUME \A l \in Line : l.ends
  PROVE  Spec => []JumpsLandOnTheirLabel
  <1>1. IInv => JumpsLandOnTheirLabel
    BY IInvCopies, JumpsLand
  <1> QED BY <1>1, Invariant, PTL
=============================================================================
