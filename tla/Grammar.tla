------------------------------ MODULE Grammar ------------------------------
(***************************************************************************)
(* The grammar of CPL as src/src/parser.y has it, and the automaton that   *)
(* Bison makes of it.                                                      *)
(*                                                                         *)
(* A state of the automaton is the kernel of a set of items <<p, d>>:      *)
(* production p with the dot behind d symbols.  Bison's tables are LALR    *)
(* with default reductions: a state shifts the tokens it can and reduces   *)
(* its only complete production on any other.  (The one conflict that      *)
(* "%expect 1" announces is on the token "error" below "{", where Bison    *)
(* shifts; the other, on "else", is resolved by precedence, to a shift.)   *)
(***************************************************************************)
EXTENDS Integers, Sequences, FiniteSets, Functions

----------------------------------------------------------------------------
(* Semantic actions.  "kids" are the indices of the symbols $1, $2, ...    *)
(* that go into a node.                                                    *)

Action(do, kind, tag, from, kids) ==
  [do |-> do, kind |-> kind, tag |-> tag, from |-> from, kids |-> kids]
Make(kind, kids)           == Action("make", kind, "", 0, kids)
MakeWith(kind, tag, kids)  == Action("make", kind, tag, 0, kids)
\* tagged with the type or the operator that symbol "from" stands for
MakeFrom(kind, from, kids) == Action("make", kind, "", from, kids)
MakeProgram                == Action("program", "PROGRAM", "", 0, <<1, 2>>)
Grow          == Action("grow", "IDENTIFIER", "", 0, <<3>>) \* a node, appended to $1
AppendIt      == Action("append", "", "", 0, <<1, 2>>)
Pass(k)       == Action("pass", "", "", 0, <<k>>)
Null          == Action("null", "", "", 0, <<>>)
Stand(tag)    == Action("stand", "", tag, 0, <<>>)          \* for a type or an operator
Recover(kids) == Action("recover", "", "", 0, kids)         \* yyerrok; frees kids; NULL
RecoverBlock  == Action("recover_block", "BLOCK", "", 0, <<>>)

P(lhs, rhs, act) == [lhs |-> lhs, rhs |-> rhs, act |-> act]

Production == <<
  P("$accept", <<"program", "$end">>, Null),
  P("program", <<"declarations", "stmt_block">>, MakeProgram),
  P("declarations", <<"declarations", "declaration">>, AppendIt),
  P("declarations", <<>>, Null),
  P("declaration", <<"idlist", ":", "type", ";">>, MakeFrom("DECLARATION", 3, <<1>>)),
  P("declaration", <<"error", ";">>, Recover(<<>>)),
  P("type", <<"int">>, Stand("INT")),
  P("type", <<"float">>, Stand("FLOAT")),
  P("idlist", <<"idlist", ",", "ID">>, Grow),
  P("idlist", <<"ID">>, Make("IDENTIFIER", <<1>>)),
  P("stmt", <<"assignment_stmt">>, Pass(1)),
  P("stmt", <<"input_stmt">>, Pass(1)),
  P("stmt", <<"output_stmt">>, Pass(1)),
  P("stmt", <<"if_stmt">>, Pass(1)),
  P("stmt", <<"while_stmt">>, Pass(1)),
  P("stmt", <<"switch_stmt">>, Pass(1)),
  P("stmt", <<"break_stmt">>, Pass(1)),
  P("stmt", <<"stmt_block">>, Pass(1)),
  P("stmt", <<"error", ";">>, Recover(<<>>)),
  P("assignment_stmt", <<"ID", "=", "expression", ";">>, Make("ASSIGN", <<1, 3>>)),
  P("assignment_stmt", <<"ID", "=", "error", ";">>, Recover(<<1>>)),
  P("input_stmt", <<"input", "(", "ID", ")", ";">>, Make("INPUT", <<3>>)),
  P("input_stmt", <<"input", "(", "error", ")", ";">>, Recover(<<>>)),
  P("output_stmt", <<"output", "(", "expression", ")", ";">>, Make("OUTPUT", <<3>>)),
  P("output_stmt", <<"output", "(", "error", ")", ";">>, Recover(<<>>)),
  P("if_stmt", <<"if", "(", "boolexpr", ")", "stmt">>, Make("IF", <<3, 5>>)),
  P("if_stmt", <<"if", "(", "boolexpr", ")", "stmt", "else", "stmt">>, Make("IF", <<3, 5, 7>>)),
  P("while_stmt", <<"while", "(", "boolexpr", ")", "stmt">>, Make("WHILE", <<3, 5>>)),
  P("switch_stmt", <<"switch", "(", "expression", ")", "{", "caselist",
                     "default", ":", "stmtlist", "}">>, Make("SWITCH", <<3, 6, 9>>)),
  P("switch_stmt", <<"switch", "(", "expression", ")", "{", "error", "}">>, Recover(<<3>>)),
  P("caselist", <<"caselist", "case_item">>, AppendIt),
  P("caselist", <<>>, Null),
  P("case_item", <<"case", "NUM_INT", ":", "stmtlist">>, Make("CASE", <<2, 4>>)),
  P("break_stmt", <<"break", ";">>, Make("BREAK", <<>>)),
  P("break_stmt", <<"break", "error", ";">>, Recover(<<>>)),
  P("stmt_block", <<"{", "stmtlist", "}">>, Make("BLOCK", <<2>>)),
  P("stmt_block", <<"{", "error", "}">>, RecoverBlock),
  P("stmtlist", <<"stmtlist", "stmt">>, AppendIt),
  P("stmtlist", <<>>, Null),
  P("boolexpr", <<"boolexpr", "||", "boolterm">>, MakeWith("BINARY", "OR", <<1, 3>>)),
  P("boolexpr", <<"boolterm">>, Pass(1)),
  P("boolterm", <<"boolterm", "&&", "boolfactor">>, MakeWith("BINARY", "AND", <<1, 3>>)),
  P("boolterm", <<"boolfactor">>, Pass(1)),
  P("boolfactor", <<"!", "(", "boolexpr", ")">>, Make("NOT", <<3>>)),
  P("boolfactor", <<"expression", "relop", "expression">>, MakeFrom("BINARY", 2, <<1, 3>>)),
  P("relop", <<"==">>, Stand("EQ")),
  P("relop", <<"!=">>, Stand("NE")),
  P("relop", <<"<">>, Stand("LT")),
  P("relop", <<">">>, Stand("GT")),
  P("relop", <<">=">>, Stand("GE")),
  P("relop", <<"<=">>, Stand("LE")),
  P("expression", <<"expression", "+", "term">>, MakeWith("BINARY", "ADD", <<1, 3>>)),
  P("expression", <<"expression", "-", "term">>, MakeWith("BINARY", "SUB", <<1, 3>>)),
  P("expression", <<"term">>, Pass(1)),
  P("term", <<"term", "*", "factor">>, MakeWith("BINARY", "MUL", <<1, 3>>)),
  P("term", <<"term", "/", "factor">>, MakeWith("BINARY", "DIV", <<1, 3>>)),
  P("term", <<"factor">>, Pass(1)),
  P("factor", <<"(", "expression", ")">>, Pass(2)),
  P("factor", <<"cast<<int>>", "(", "expression", ")">>, Make("CAST_INT", <<3>>)),
  P("factor", <<"cast<<float>>", "(", "expression", ")">>, Make("CAST_FLOAT", <<3>>)),
  P("factor", <<"ID">>, Make("ID", <<1>>)),
  P("factor", <<"NUM_INT">>, Make("INT_LITERAL", <<1>>)),
  P("factor", <<"NUM_FLOAT">>, Make("FLOAT_LITERAL", <<1>>)) >>

Nonterminal == {Production[p].lhs : p \in DOMAIN Production}

\* The symbols of a type with a %destructor; their values are pointers.
TextToken == {"ID", "NUM_INT", "NUM_FLOAT"}
Pointer == TextToken \cup (Nonterminal \ {"$accept", "program", "type", "relop"})
\* The symbols with a type whose nodes can be in lists: all but text and expressions
ListSymbol == Pointer \ (TextToken \cup {"boolexpr", "boolterm", "boolfactor", "expression", "term", "factor"})

----------------------------------------------------------------------------
(* The automaton                                                           *)

\* Upper bounds: how deep nonterminals begin with nonterminals, and the states
MaxNesting == 5
MaxDepth == 24

\* Everything that the parser looks up.  It looks at no token in a consistent state.
Automaton(prods, nonterminals, pointer, listed) ==
  LET rhs(item)      == prods[item[1]].rhs
      atEnd(item)    == item[2] = Len(rhs(item))
      expected(item) == rhs(item)[item[2] + 1]
      \* <<N, M>>: what N stands for may begin with an M
      begins[n \in 0 .. MaxNesting] ==
        IF n = 0 THEN {<<N, N>> : N \in nonterminals}
                      \cup {<<prods[p].lhs, prods[p].rhs[1]>> : p \in {q \in DOMAIN prods :
                              prods[q].rhs # <<>> /\ prods[q].rhs[1] \in nonterminals}}
        ELSE LET b == begins[n - 1]
             IN  {<<x[1][1], x[2][2]>> : x \in {y \in b \X b : y[1][2] = y[2][1]}}
      begin == begins[MaxNesting]
      closure(kernel) ==
        LET wanted == {expected(item) : item \in {i \in kernel : ~atEnd(i)}}
            found  == {b[2] : b \in {c \in begin : c[1] \in wanted}}
        IN  kernel \cup {<<p, 0>> : p \in {q \in DOMAIN prods : prods[q].lhs \in found}}
      successors(kernel) ==
        LET open == {item \in closure(kernel) : ~atEnd(item)}
        IN  [X \in {expected(item) : item \in open} |->
               {<<item[1], item[2] + 1>> : item \in {i \in open : expected(i) = X}}]
      \* the states that n steps lead to
      states[n \in 0 .. MaxDepth] ==
        IF n = 0 THEN [found |-> {{<<1, 0>>}}, new |-> {{<<1, 0>>}}]
        ELSE LET S == states[n - 1]
                 next == UNION {Range(successors(K)) : K \in S.new}
             IN  [found |-> S.found \cup next, new |-> next \ S.found]
      all == states[MaxDepth]
      complete(K) == {item[1] : item \in {i \in closure(K) : atEnd(i)}}
  IN  [production |-> prods,
       pointer    |-> pointer,
       listed     |-> listed,
       start      |-> {<<1, 0>>},
       goto       |-> [K \in all.found |-> successors(K)],
       default    |-> [K \in all.found |-> IF complete(K) = {} THEN 0
                                           ELSE CHOOSE p \in complete(K) : TRUE],
       consistent |-> {K \in all.found : DOMAIN successors(K) \subseteq nonterminals},
       missing    |-> all.new,
       choices    |-> {K \in all.found : Cardinality(complete(K)) > 1}]
BisonTables == Automaton(Production, Nonterminal, Pointer, ListSymbol)

\* All states are there, and none has a choice of productions.
ASSUME AutomatonAssumption == BisonTables.missing = {} /\ BisonTables.choices = {}
=============================================================================
