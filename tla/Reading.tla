------------------------------- MODULE Reading -------------------------------
(***************************************************************************)
(* What the parser hands on, compared with how programs are written.       *)
(***************************************************************************)
EXTENDS Parser, Source, Debug

CONSTANT Tree \* the trees of some programs

\* The words of the file, outside comments, and whether it has nothing else
InComment(k) ==
  \E j \in 1 .. k - 1 : file[j].is = "OPEN" /\ \A i \in j + 1 .. k - 1 : file[i].is # "CLOSE"
Tokens ==
  LET words == SelectSeq([k \in DOMAIN file |-> k],
                         LAMBDA k : file[k].is \in {"WORD", "TEXT"} /\ ~InComment(k))
  IN  [i \in DOMAIN words |-> [token |-> file[words[i]].token, text |-> file[words[i]].text]]
WellLexed == ~InComment(Len(file) + 1) /\ \A k \in DOMAIN file : file[k].is = "BAD" => InComment(k)

\* The tree that is handed on says, token by token, what the file says, the
\* operators as tightly as the grammar binds them and every "else" with the
\* nearest "if" (parser.y:191); so nothing outside the language is handed on.
HandedOnIsTheFile ==
  out_program # NIL =>
    /\ WellLexed
    /\ LET tree == Read(heap, out_program)
       IN  Tokens \in {WrittenProgram(tree, all) : all \in BOOLEAN}

Sentence == {WrittenProgram(t, all) : t \in Tree, all \in BOOLEAN}

\* A program of the language is refused, or complained about, only when memory ran
\* out: the automaton, its default reductions and the comments stand in no way.
AcceptsWhatIsWritten ==
  pc = RETURNED /\ WellLexed /\ Tokens \in Sentence => out_program # NIL \/ ranOut

\* What "--debug" prints of the tree that is handed on tells it from all others: an
\* "else" from the next "if"'s, a case from the one in front, each operator.
Dump == [t \in Tree |-> debug_print_ast(t)]
DumpTellsApart ==
  out_program # NIL =>
    LET tree == Read(heap, out_program)
        dump == debug_print_ast(tree)
    IN  \A t \in Tree : Dump[t] = dump => t = tree
=============================================================================
