------------------------------- MODULE Parser -------------------------------
(***************************************************************************)
(* parser_parse (src/src/parser.y): the parser that Bison makes of the     *)
(* grammar, with its error recovery and its destructors, the scanner that  *)
(* it calls, and the tree that the actions build in memory.                *)
(*                                                                         *)
(* An element of the parser's stack is [state, symbol, value]; a value is  *)
(* an address, or the name of a type or an operator.                       *)
(***************************************************************************)
EXTENDS Lexer, AstHeap

CONSTANTS
  Tables,   \* of the automaton, see Grammar
  Example   \* tests/test_parser_errors.ou

VARIABLES
  heap,              \* all blocks that malloc and calloc gave out
  freed,             \* the addresses that were freed, each as often as it was
  stack, yylval, yyerrstatus,
  pc,                \* PARSING, or one of the places below
  parse_error_count,
  parsed_program,
  out_program,       \* what parser_parse hands on
  out_error_count,   \* and reports
  lost,              \* the list that an action leaves behind when it aborts
  ranOut             \* whether an allocation has failed
memory  == <<heap, freed>>
outcome == <<parsed_program, out_program, out_error_count, lost, ranOut>>
parserVars == <<memory, stack, yylval, yyerrstatus, pc, parse_error_count, outcome>>
vars == <<lexerVars, parserVars>>

PARSING  == "parsing"
POPPING  == "popping"  \* yyerrlab1
ABORT    == "abort"
ACCEPT   == "accept"
FAILED   == "failed"   \* yyparse has returned 1
PARSED   == "parsed"   \* yyparse has returned 0
RETURNED == "returned"

----------------------------------------------------------------------------
depth == Len(stack)
state == stack[depth].state
Shifts(K, token) == token \in DOMAIN Tables.goto[K]
Reduces(K) == Tables.default[K] # 0

\* The symbol that $accept stands for
Goal == Tables.production[1].rhs[1]

\* What Bison's tables have, whatever the grammar.  A state is a set of items <<p, d>>;
\* what follows a symbol continues production p or begins it, and in the latter case
\* there is a way on for its left side; a complete production is reduced; the end is
\* shifted behind the goal only, which only actions of "program" produce.
ASSUME TablesAssumption ==
  LET production == Tables.production
      goto == Tables.goto
  IN  /\ Tables.start \in DOMAIN goto /\ END \notin DOMAIN goto[Tables.start]
      /\ \A item \in Tables.start : item[2] = 0
      /\ production[1].rhs = <<Goal, END>> /\ Goal \notin {END, "error"}
      /\ \A p \in DOMAIN production :
           production[p].lhs # END /\ (production[p].lhs = Goal => production[p].act.do = "program")
      /\ \A K \in DOMAIN goto : \A X \in DOMAIN goto[K] :
           /\ goto[K][X] \in DOMAIN goto
           /\ END \in DOMAIN goto[goto[K][X]] => X = Goal
           /\ \A item \in goto[K][X] :
                /\ item[2] \in Nat \ {0} /\ production[item[1]].rhs[item[2]] = X
                /\ IF item[2] > 1 THEN <<item[1], item[2] - 1>> \in K
                   ELSE item[1] = 1 \/ production[item[1]].lhs \in DOMAIN goto[K]
      /\ \A K \in DOMAIN goto : Reduces(K) =>
           LET p == Tables.default[K]
           IN  /\ p \in DOMAIN production /\ production[p].rhs \in Seq(STRING)
               /\ IF production[p].rhs = <<>> THEN production[p].lhs \in DOMAIN goto[K]
                  ELSE <<p, Len(production[p].rhs)>> \in K

\* What this grammar has besides: every pointer that a production matches goes into the
\* node, the list or the destructor that its action is about, or is passed on, and none
\* goes there twice; what can be in a list is made of such or of nodes that can be.  And the
\* whole program is behind the start only, where no error is caught, and nothing follows it.
UsesEachOnce(p) ==
  LET rhs  == p.rhs
      do   == p.act.do
      kids == p.act.kids
  IN  /\ IsInjective(kids) /\ kids \in Seq(DOMAIN rhs)
      /\ {k \in DOMAIN rhs : rhs[k] \in Tables.pointer}
           = IF do = "grow" THEN {1} \cup Range(kids) ELSE Range(kids)
      /\ do \in {"make", "grow", "append", "pass", "recover_block"} => p.lhs \in Tables.pointer
      /\ do \in {"program", "stand"} => p.lhs \notin Tables.pointer
      /\ do = "program" => p.lhs = Goal
      /\ do = "grow" => 1 \notin Range(kids)
      /\ do = "append" => kids = <<1, 2>>
      /\ do = "pass" => Len(kids) = 1
      /\ do \in {"null", "stand", "recover_block"} => kids = <<>>
      /\ p.lhs \in Tables.listed =>
           /\ do \in {"make", "grow", "recover_block"} => p.act.kind \in Listed
           /\ do \in {"pass", "append"} => \A k \in Range(kids) : rhs[k] \in Tables.listed
           /\ do = "grow" => rhs[1] \in Tables.listed
      /\ do \in {"append", "grow"} => p.lhs \in Tables.listed
ASSUME ActionAssumption ==
  LET goto == Tables.goto
  IN  /\ Tables.listed \subseteq Tables.pointer
      /\ {EMPTY, END, "", "error"} \cap Tables.pointer = {}
      /\ \A n \in DOMAIN Tables.production : UsesEachOnce(Tables.production[n])
      /\ "error" \notin DOMAIN goto[Tables.start]
      /\ \A K \in DOMAIN goto :
           /\ \A X \in DOMAIN goto[K] : goto[K][X] # Tables.start
           /\ Goal \in DOMAIN goto[K] =>
                /\ K = Tables.start
                /\ DOMAIN goto[goto[K][Goal]] = {END} /\ ~Reduces(goto[K][Goal])

\* The scanner copies the text of the tokens that have a destructor, which are not nodes, and
\* has no name for what the grammar calls a program.
ASSUME TokenAssumption ==
  \A f \in File : \A k \in DOMAIN f :
    /\ f[k].token # Goal /\ f[k].token \notin Tables.listed
    /\ f[k].is = "TEXT" <=> f[k].token \in Tables.pointer

\* The value of an element that has a destructor
Destructed(element) == IF element.symbol \in Tables.pointer THEN element.value ELSE NIL
Pointers(elements) == [i \in DOMAIN elements |-> Destructed(elements[i])]
\* What free_ast_... does to trees (bound, so that TLC computes the list once)
Free(pointers) == \E list \in {pointers} : freed' = freed \o Owned(heap, list)
Lookahead == [state |-> {}, symbol |-> yychar, value |-> yylval]

Init ==
  /\ LexerInit
  /\ heap = <<>> /\ freed = <<>> /\ yylval = NIL /\ yyerrstatus = 0 /\ pc = PARSING
  /\ stack = <<[state |-> Tables.start, symbol |-> "", value |-> NIL]>>
  /\ parse_error_count = 0 /\ parsed_program = NIL
  /\ out_program = NIL /\ out_error_count = 0 /\ lost = NIL /\ ranOut = FALSE

----------------------------------------------------------------------------
(* The scanner is called for a token when there is none and the state does *)
(* not reduce without one.                                                 *)

Asks == pc = PARSING /\ state \notin Tables.consistent

ScanText ==
  /\ Asks /\ Text
  /\ heap' = New(heap, "TEXT", piece.text, <<>>) /\ yylval' = Fresh(heap)
  /\ UNCHANGED <<freed, stack, yyerrstatus, pc, parse_error_count, outcome>>
ScanTextFails ==
  /\ Asks /\ TextFails
  /\ yylval' = NIL /\ ranOut' = TRUE
  /\ UNCHANGED <<memory, stack, yyerrstatus, pc, parse_error_count, parsed_program, out_program, out_error_count, lost>>
ScanOther == Asks /\ Scan /\ UNCHANGED parserVars

----------------------------------------------------------------------------
(* Shift and reduce                                                        *)

HasToken == yychar # EMPTY
Shift ==
  /\ Asks /\ HasToken /\ Shifts(state, yychar) /\ yychar # END
  /\ stack' = Append(stack, [Lookahead EXCEPT !.state = Tables.goto[state][yychar]])
  /\ yychar' = EMPTY
  /\ yyerrstatus' = IF yyerrstatus = 0 THEN 0 ELSE yyerrstatus - 1
  /\ UNCHANGED <<scanner, messages, memory, yylval, pc, parse_error_count, outcome>>

Accept ==
  /\ Asks /\ yychar = END /\ Shifts(state, END)
  /\ pc' = ACCEPT /\ yychar' = EMPTY
  /\ UNCHANGED <<scanner, messages, memory, stack, yylval, yyerrstatus, parse_error_count, outcome>>

\* The production to reduce now, if its action is one of these
Ready(dos) ==
  IF pc = PARSING /\ Reduces(state) /\ (Asks => HasToken /\ ~Shifts(state, yychar))
  THEN {p \in {Tables.production[Tables.default[state]]} : p.act.do \in dos} ELSE {}

\* $k, what goes into a node, and its tag
Dollar(p, k) == stack[depth - Len(p.rhs) + k].value
Dollars(p) == [k \in DOMAIN p.act.kids |-> Dollar(p, p.act.kids[k])]
Tag(p) == IF p.act.from = 0 THEN p.act.tag ELSE Dollar(p, p.act.from)

Rest(p) == SubSeq(stack, 1, depth - Len(p.rhs))
Reduced(p, value) ==
  stack' = Append(Rest(p), [state  |-> Tables.goto[stack[depth - Len(p.rhs)].state][p.lhs],
                            symbol |-> p.lhs, value |-> value])

ReduceOnly ==
  \E p \in Ready({"pass", "null", "stand"}) :
    /\ Reduced(p, CASE p.act.do = "pass" -> Dollar(p, p.act.kids[1])
                    [] p.act.do = "null" -> NIL [] p.act.do = "stand" -> p.act.tag)
    /\ UNCHANGED <<lexerVars, memory, yylval, yyerrstatus, pc, parse_error_count, outcome>>

ReduceAppend ==
  \E p \in Ready({"append"}) :
    /\ heap' = Appended(heap, Dollar(p, 1), Dollar(p, 2))
    /\ Reduced(p, AppendedList(Dollar(p, 1), Dollar(p, 2)))
    /\ UNCHANGED <<lexerVars, freed, yylval, yyerrstatus, pc, parse_error_count, outcome>>

MakesNode == {"make", "grow", "program", "recover_block"}
\* A new node; "grow" also appends it to the list $1
ReduceMake ==
  \E p \in Ready(MakesNode) :
    LET do   == p.act.do
        made == New(heap, p.act.kind, Tag(p), IF do = "recover_block" THEN <<NIL>> ELSE Dollars(p))
        node == Fresh(heap)
    IN  /\ heap' = IF do = "grow" THEN Appended(made, Dollar(p, 1), node) ELSE made
        /\ Reduced(p, IF do = "grow" THEN AppendedList(Dollar(p, 1), node) ELSE node)
        /\ parsed_program' = IF do = "program" THEN node ELSE parsed_program
        /\ yyerrstatus' = IF do = "recover_block" THEN 0 ELSE yyerrstatus
        /\ UNCHANGED <<lexerVars, freed, yylval, pc, parse_error_count, out_program, out_error_count,
                       lost, ranOut>>

\* calloc returns NULL: the constructor frees what it was given, and YYABORT pops
\* the symbols of the production without destructors.
ReduceFails ==
  /\ MayFail
  /\ \E p \in Ready(MakesNode) :
       /\ Free(Dollars(p))
       /\ stack' = Rest(p)
       /\ lost' = IF p.act.do = "grow" THEN Dollar(p, 1) ELSE NIL
  /\ pc' = ABORT /\ ranOut' = TRUE
  /\ UNCHANGED <<lexerVars, heap, yylval, yyerrstatus, parse_error_count, parsed_program,
                 out_program, out_error_count>>

\* Faulty: the identifier in front of the error is forgotten
ReduceRecover_Forgets ==
  \E p \in Ready({"recover"}) :
    /\ yyerrstatus' = 0
    /\ Reduced(p, NIL)
    /\ UNCHANGED <<lexerVars, memory, yylval, pc, parse_error_count, outcome>>

\* What an error production matched is freed and stands for nothing.
ReduceRecover ==
  \E p \in Ready({"recover"}) :
    /\ yyerrstatus' = 0
    /\ Free(Dollars(p)) /\ Reduced(p, NIL)
    /\ UNCHANGED <<lexerVars, heap, yylval, pc, parse_error_count, outcome>>

----------------------------------------------------------------------------
(* Errors                                                                  *)

\* Faulty: the column behind the token
Report_Behind ==
  /\ messages' = Append(messages, Message(yylineno, current_col, yytext, "syntax"))
  /\ parse_error_count' = parse_error_count + 1

\* yyerror
Report ==
  /\ messages' = Append(messages, Message(yylineno, token_col, yytext, "syntax"))
  /\ parse_error_count' = parse_error_count + 1

IsError == Asks /\ HasToken /\ ~Shifts(state, yychar) /\ ~Reduces(state)

\* Less than three tokens after an error the next one is not reported.
SyntaxError ==
  /\ IsError /\ yyerrstatus < 3
  /\ UNCHANGED scanner
  /\ IF yyerrstatus = 0 THEN Report ELSE UNCHANGED <<messages, parse_error_count>>
  /\ yyerrstatus' = 3 /\ pc' = POPPING
  /\ UNCHANGED <<yychar, memory, stack, yylval, outcome>>

\* The token that cannot follow "error" either is dropped.
Discard ==
  /\ IsError /\ yyerrstatus = 3 /\ yychar # END
  /\ Free(Pointers(<<Lookahead>>))
  /\ yychar' = EMPTY /\ pc' = POPPING
  /\ UNCHANGED <<scanner, messages, heap, stack, yylval, yyerrstatus, parse_error_count, outcome>>
GiveUp ==
  /\ \/ IsError /\ yyerrstatus = 3 /\ yychar = END
     \/ pc = POPPING /\ ~Shifts(state, "error") /\ depth = 1
  /\ pc' = ABORT
  /\ UNCHANGED <<lexerVars, memory, stack, yylval, yyerrstatus, parse_error_count, outcome>>

Pop ==
  /\ pc = POPPING /\ ~Shifts(state, "error") /\ depth > 1
  /\ Free(Pointers(<<stack[depth]>>))
  /\ stack' = SubSeq(stack, 1, depth - 1)
  /\ UNCHANGED <<lexerVars, heap, yylval, yyerrstatus, pc, parse_error_count, outcome>>

ShiftError ==
  /\ pc = POPPING /\ Shifts(state, "error")
  /\ stack' = Append(stack, [state |-> Tables.goto[state]["error"], symbol |-> "error", value |-> yylval])
  /\ pc' = PARSING
  /\ UNCHANGED <<lexerVars, memory, yylval, yyerrstatus, parse_error_count, outcome>>

\* yyreturn: the token and the whole stack are destroyed.
Clean ==
  /\ pc \in {ACCEPT, ABORT}
  /\ Free(Pointers(<<Lookahead>> \o Reverse(stack)))
  /\ stack' = <<>> /\ yychar' = EMPTY
  /\ pc' = IF pc = ACCEPT THEN PARSED ELSE FAILED
  /\ UNCHANGED <<scanner, messages, heap, yylval, yyerrstatus, parse_error_count, outcome>>

\* Faulty: the program is forgotten when there were errors besides
Return_Forgets ==
  /\ pc \in {PARSED, FAILED}
  /\ out_error_count' = parse_error_count + error_count
       + (IF pc = FAILED /\ parse_error_count = 0 THEN 1 ELSE 0)
  /\ out_program' = IF out_error_count' > 0 THEN NIL ELSE parsed_program
  /\ parsed_program' = NIL /\ pc' = RETURNED
  /\ UNCHANGED <<lexerVars, memory, stack, yylval, yyerrstatus, parse_error_count, lost, ranOut>>

\* Faulty: only the errors of the parser count
Return_ParserOnly ==
  /\ pc \in {PARSED, FAILED}
  /\ out_error_count' = IF pc = FAILED THEN Max({parse_error_count, 1}) ELSE parse_error_count
  /\ IF out_error_count' > 0
     THEN Free(<<parsed_program>>) /\ out_program' = NIL
     ELSE out_program' = parsed_program /\ UNCHANGED freed
  /\ parsed_program' = NIL /\ pc' = RETURNED
  /\ UNCHANGED <<lexerVars, heap, stack, yylval, yyerrstatus, parse_error_count, lost, ranOut>>

\* The end of parser_parse.  (What parsed_program still points to when the tree
\* was handed on is no longer used.)
Return ==
  /\ pc \in {PARSED, FAILED}
  /\ out_error_count' = parse_error_count + error_count
       + (IF pc = FAILED /\ parse_error_count = 0 THEN 1 ELSE 0)
  /\ IF out_error_count' > 0
     THEN Free(<<parsed_program>>) /\ out_program' = NIL
     ELSE out_program' = parsed_program /\ UNCHANGED freed
  /\ parsed_program' = NIL /\ pc' = RETURNED
  /\ UNCHANGED <<lexerVars, heap, stack, yylval, yyerrstatus, parse_error_count, lost, ranOut>>

Step ==
  \/ ScanText \/ ScanTextFails \/ ScanOther
  \/ Shift \/ Accept \/ ReduceOnly \/ ReduceAppend \/ ReduceMake \/ ReduceFails \/ ReduceRecover
  \/ SyntaxError \/ Discard \/ GiveUp \/ Pop \/ ShiftError
  \/ Clean \/ Return
Next == Step \/ (pc = RETURNED /\ UNCHANGED vars)
Spec == Init /\ [][Next]_vars /\ WF_vars(Step)

----------------------------------------------------------------------------
(* Properties                                                              *)

Live == DOMAIN heap \ Range(freed)
\* The pointers: <<0, i>> is one of the parser, <<a, k>> one in the block at a
Root == -3 .. depth
Location == ({0} \X Root) \cup UNION {{a} \X (0 .. Len(heap[a].kids)) : a \in Live}
Rooted(i) ==
  CASE i > 0 -> Destructed(stack[i])
    [] i = 0 -> Destructed(Lookahead)
    [] i = -1 -> parsed_program
    [] i = -2 -> out_program
    [] i = -3 -> lost
PointsTo(location) ==
  IF location[1] = 0 THEN Rooted(location[2])
  ELSE IF location[2] = 0 THEN heap[location[1]].next ELSE heap[location[1]].kids[location[2]]
Reference == {location \in Location : PointsTo(location) # NIL}

\* Every block that is not freed has exactly one owner, and nothing that is left
\* points to a freed one: whatever is reduced, discarded, popped or destroyed, in
\* whatever order errors and failures come, no block is freed twice, used after
\* that, or forgotten.  (Only "lost" has none to free it: parser.y:106-112.)
OwnedOnce ==
  /\ {PointsTo(location) : location \in Reference} = Live
  /\ Cardinality(Reference) = Cardinality(Live)
  /\ Cardinality(Range(freed)) = Len(freed)

\* When parser_parse hands on nothing, all memory that was ever allocated is freed
\* again: no owner is out of reach either, as in a list that was tied to itself.
NothingForgotten == pc = RETURNED /\ out_program = NIL /\ lost = NIL => Live = {}

\* The pieces in front of piece k on its line, and their characters
LineBefore(k) == {j \in 1 .. k - 1 : \A i \in j .. k - 1 : file[i].is # "NEWLINE"}
Characters(pieces) == UNION {{j} \X (1 .. file[j].width) : j \in pieces}
\* Where a piece of the file is, counted from the file alone
LineOf(k) == 1 + Cardinality({j \in 1 .. k - 1 : file[j].is = "NEWLINE"})
ColumnOf(k) == 1 + Cardinality(Characters(LineBefore(k)))
\* The preview is the line up to the end of piece k, or as much of it as there is
\* room for.
Shows(preview, k) ==
  /\ Len(preview) = Least(ColumnOf(k + 1) - 1, PREVIEW_CAP - 1)
  /\ \A c \in DOMAIN preview :
       LET j == preview[c]
       IN  j \in LineBefore(k + 1) /\ c \in ColumnOf(j) .. ColumnOf(j) + file[j].width - 1

\* A message that is about something in the file names its line and column,
\* comments, newlines and errors before it notwithstanding, and (an open comment
\* aside) shows its line up to the end of it.
LocatedRight ==
  \A i \in DOMAIN messages :
    LET m == messages[i]
    IN  m.about # 0 =>
          /\ m.line = LineOf(m.about) /\ m.col = ColumnOf(m.about)
          /\ m.kind # "comment" => Shows(m.preview, m.about)

\* README.md item 3: the stages after the parser never see a program about which
\* the scanner or the parser reported anything, however it recovered; and the
\* number of errors it reports is no less than the messages there were.
NothingAfterErrors ==
  pc = RETURNED =>
    /\ out_program # NIL <=> out_error_count = 0
    /\ out_error_count >= Len(messages)

\* README.md:16-27, the messages for tests/test_parser_errors.ou: the recovery
\* finds these three errors, at these places, and no artifacts of them.  (Each is
\* [line, col, characters of the line shown, characters underlined].)
ReportsAsDocumented ==
  pc = RETURNED /\ file = Example /\ ~ranOut =>
    /\ out_error_count = 3
    /\ [i \in DOMAIN messages |-> <<messages[i].line, messages[i].col, Len(messages[i].preview),
                                    file[messages[i].about].width>>]
       = << <<1, 6, 8, 3>>, <<3, 9, 9, 1>>, <<5, 9, 14, 6>> >>

\* The scanner gets to the end of every file, and the recovery, which drops tokens
\* and pops states, out of every error: parser_parse returns.
Ends == <>(pc = RETURNED)
=============================================================================
