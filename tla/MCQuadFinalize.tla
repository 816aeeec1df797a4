--------------------------- MODULE MCQuadFinalize ---------------------------
(***************************************************************************)
(* Instances of QuadFinalize: the temporary files are all those of a few   *)
(* lines that the first stage might write.                                 *)
(***************************************************************************)
EXTENDS QuadFinalize, SequencesExt

Of(op, label, args, ends) == [op |-> op, label |-> label, args |-> args, ends |-> ends]
LABEL(l) == Of("LABEL", l, <<>>, TRUE)
JUMP(l)  == Of("JUMP", l, <<>>, TRUE)
JMPZ(l)  == Of("JMPZ", l, <<"t">>, TRUE)
CODE     == Of("CODE", 0, <<"c">>, TRUE)
HALT     == Of("CODE", 0, <<"halt">>, TRUE)
\* A line of 100 characters or more begins with a piece that does not end it
Piece    == Of("CODE", 0, <<"p">>, FALSE)
\* and what remains of a line of 99 characters is its newline
Newline  == Of("BLANK", 0, <<>>, TRUE)

MCLine == {LABEL(l) : l \in 1 .. 3} \cup {JUMP(l) : l \in 0 .. 3} \cup {JMPZ(1), CODE, HALT, Piece, Newline}
NoFault == {}
MemoryFaults == {"calloc", "realloc"}
PrintFault == {"print"}

FirstStage(files) ==
  {file \in files :
     /\ A!Resolvable(file)
     /\ \A i, j \in DOMAIN file :
          (file[i].op = "LABEL" /\ file[j].op = "LABEL" /\ file[i].label = file[j].label) => i = j}
FilesOf(lines, n) ==
  {Append(file, HALT) : file \in FirstStage(UNION {[1 .. k -> lines] : k \in 0 .. n})}

\* Lines that fit, among them jumps whose target is a number already (label 0)
ShortFile ==
  FilesOf({LABEL(1), LABEL(2), JUMP(1), JUMP(2), JMPZ(1), CODE}, 5)
  \cup FilesOf({LABEL(1), LABEL(2), LABEL(3), JUMP(0), JUMP(3)}, 5)

\* Long lines at any place
LongLines == {<<LABEL(1)>>, <<JUMP(1)>>, <<CODE>>, <<Piece, CODE>>, <<Piece, Newline>>}
LongFile ==
  {Append(file, HALT) :
     file \in FirstStage({FlattenSeq(ls) : ls \in UNION {[1 .. k -> LongLines] : k \in 0 .. 4}})}
AllFaults == FaultKind
AnyFile == FilesOf({LABEL(1), LABEL(2), JUMP(1), JUMP(2), JMPZ(1), CODE}, 4) \cup LongFile
=============================================================================
