------------------------------ MODULE Execution ------------------------------
(***************************************************************************)
(* From a syntax tree to the run of its code: quad_generate (Generate),    *)
(* and quad_runner.py (QuadRunner) on the file that it leaves.  The        *)
(* interpreter only sees the file.                                         *)
(***************************************************************************)
EXTENDS Generate

CONSTANTS
  Variable, \* the texts that the interpreter takes for variables
  NumberOf, \* and those that it takes for numbers
  Stdin,    \* what it may be given to read
  MAX_FLOAT, MAX_TEXT \* of Numbers

VARIABLES
  code, pc, ns, stdin, output, status, \* of QuadRunner
  given                                \* what stdin was at first

\* The final file is read line by line.  quad_finalize has put most lines together
\* again that fgets had split: what follows the first piece is more text.  But where
\* it skipped the newline of a line of 99 characters, the next instruction follows
\* on the same line, its opcode glued to the last operand: small letters or digits
\* and then capitals, which is no operand.
GLUED == Txt("aHALT")
LineFrom(file, n) ==
  LET more  == {m \in DOMAIN file : m > n /\ \A k \in n .. m - 1 : ~file[k].ends}
      glued == {m \in more : file[m].op # "REST"}
  IN  [file[n] EXCEPT !.ends = TRUE, !.args = IF glued = {} THEN @ ELSE <<GLUED>>]
Joined(file) ==
  LET begins(n) == n = 1 \/ file[n - 1].ends
      firsts == SelectSeq([n \in DOMAIN file |-> n], begins)
  IN  [i \in DOMAIN firsts |-> LineFrom(file, firsts[i])]
Source == IF \A n \in DOMAIN final : final[n].ends THEN final ELSE Joined(final)

Runner == INSTANCE QuadRunner WITH file <- Source

ASSUME LimitAssumption == MAX_FLOAT \in Nat \ {0} /\ MAX_TEXT \in Nat \ {0}
\* A literal of the lexer (lexer.l:94-95) is a number of its type to the
\* interpreter (INT_RE, FLOAT_RE; no int has more digits than int() takes), an
\* identifier (lexer.l:93) is none, and nothing is both a number and a variable
\* (ID_RE).
ASSUME SpellingAssumption ==
  /\ (Id \cup Variable) \cap DOMAIN NumberOf = {}
  /\ \A t \in NumInt \cup {"0"} : t \in DOMAIN NumberOf /\ NumberOf[t].type = "INT"
  /\ \A t \in NumFloat \cup {"0.0"} : t \in DOMAIN NumberOf /\ NumberOf[t].type = "FLOAT"

runnerVars == <<code, pc, ns, stdin, output, status, given>>
executionVars == <<generateVars, runnerVars>>

ExecutionInit == GenerateInit /\ Runner!Init /\ stdin = <<>> /\ given = <<>>

Compile == GenerateStep /\ UNCHANGED runnerVars

\* The interpreter takes input only after it has loaded the file
Start ==
  /\ status = Runner!RUNNING /\ given = <<>>
  /\ stdin' \in Stdin /\ given' = stdin'
  /\ UNCHANGED <<generateVars, code, pc, ns, output, status>>
\* cpq removes the output of a compilation that failed: nothing can be run
Execute ==
  /\ UNCHANGED <<generateVars, given>>
  /\ frc = 0 /\ (status = Runner!RUNNING => given # <<>>) /\ Runner!Step

Over ==
  \/ rc = 1
  \/ frc = 1
  \/ status \in {Runner!HALTED, Runner!REFUSED, Runner!RAISED}
ExecutionStep == Compile \/ Start \/ Execute
ExecutionNext == ExecutionStep \/ (Over /\ UNCHANGED executionVars)
ExecutionSpec == ExecutionInit /\ [][ExecutionNext]_executionVars

----------------------------------------------------------------------------
\* A line whose newline is a piece of its own (99 characters of text, or 198 ...)
NewlineAlone(line) == ~Fits(line) /\ Length(line) % (MAX_LINE_LENGTH - 1) = 1

\* The interpreter refuses a file that was written to its end only for the spelling
\* of a variable, or for a line that was glued to the one before.
RefusedForAReason ==
  status = Runner!REFUSED =>
    \/ \A i \in DOMAIN final : final[i].op # "HALT"
    \/ \E id \in DOMAIN program.symbols : id \notin Variable
    \/ \E i \in DOMAIN ctx.out : NewlineAlone(ctx.out[i])

\* When its lines fit, the code is never at fault for an exception of the
\* interpreter: that is raised at an instruction of the code, with an opcode that
\* the interpreter knows, all of whose operands have the types that the opcode asks
\* for (or are variables that have no value), and whose target may be written to.
\* What remains are the values: a variable without one, a division by zero, numbers
\* that int(), float() or print() do not take, and the end of the input.
CodeNeverAtFault ==
  status = Runner!RAISED /\ LinesFit =>
    /\ pc \in DOMAIN code /\ Runner!inst.op \in DOMAIN Runner!Eval
    /\ \A p \in Runner!Reads :
         Runner!Readable(p, Runner!type) \/ (Runner!IsName(p) /\ p \notin DOMAIN ns)
    /\ Runner!do \in Runner!Stores => Runner!Writable(Runner!inst.args[1], Runner!ResultType)
    /\ Runner!do = "INP"  => Runner!Writable(Runner!inst.args[1], Runner!type)
    /\ Runner!do = "JMPZ" => Runner!IsName(Runner!inst.args[1])
=============================================================================
