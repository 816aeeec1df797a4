----------------------------- MODULE QuadRunner -----------------------------
(***************************************************************************)
(* The interpreter of Quad code (src/quad_runner.py).  A step executes one *)
(* instruction, or reads one line for an instruction that asks until it    *)
(* gets a number.                                                          *)
(*                                                                         *)
(* A line of the file is [op, target, args, ends] as QuadFinalize writes   *)
(* it, and ends.  An operand in "args" is [temp |-> n], a variable, or     *)
(* [text |-> t] with a text of the source program.  Prompts are left out.  *)
(***************************************************************************)
EXTENDS Numbers, Sequences

CONSTANTS
  Variable, \* the texts that match ID_RE
  NumberOf  \* the numbers of those that match INT_RE or FLOAT_RE, and that int()
            \* or float() takes

VARIABLES
  file,   \* the source file
  code,   \* its instructions, once it is loaded
  pc,     \* the line of the next instruction
  ns,     \* the Namespace: the values of the variables that have one
  stdin,  \* the lines to be read, each a number or JUNK
  output, \* the numbers that were printed
  status  \* one of the following
vars == <<file, code, pc, ns, stdin, output, status>>

LOAD    == "load"    \* the file is not read yet
RUNNING == "running"
HALTED  == "halted"
REFUSED == "refused" \* the file was not accepted, nothing was executed
RAISED  == "raised"  \* an instruction raised an exception

JUNK == [type |-> "JUNK", n |-> 0, d |-> 1]

----------------------------------------------------------------------------
\* What an opcode does, and with operands of which type
Eval ==
  [ IASN |-> <<"ASN", "INT">>, RASN |-> <<"ASN", "FLOAT">>,
    IPRT |-> <<"PRT", "INT">>, RPRT |-> <<"PRT", "FLOAT">>,
    IINP |-> <<"INP", "INT">>, RINP |-> <<"INP", "FLOAT">>,
    IEQL |-> <<"EQL", "INT">>, REQL |-> <<"EQL", "FLOAT">>,
    INQL |-> <<"NQL", "INT">>, RNQL |-> <<"NQL", "FLOAT">>,
    ILSS |-> <<"LSS", "INT">>, RLSS |-> <<"LSS", "FLOAT">>,
    IGRT |-> <<"GRT", "INT">>, RGRT |-> <<"GRT", "FLOAT">>,
    IADD |-> <<"ADD", "INT">>, RADD |-> <<"ADD", "FLOAT">>,
    ISUB |-> <<"SUB", "INT">>, RSUB |-> <<"SUB", "FLOAT">>,
    IMLT |-> <<"MLT", "INT">>, RMLT |-> <<"MLT", "FLOAT">>,
    IDIV |-> <<"DIV", "INT">>, RDIV |-> <<"DIV", "FLOAT">>,
    ITOR |-> <<"TOR", "INT">>, RTOI |-> <<"TOI", "FLOAT">>,
    JUMP |-> <<"JUMP", "INT">>, JMPZ |-> <<"JMPZ", "INT">>, HALT |-> <<"HALT", "INT">> ]

IsName(oper) == "temp" \in DOMAIN oper \/ oper.text \in Variable
IsOperand(oper) == IsName(oper) \/ oper.text \in DOMAIN NumberOf

\* QuadProgram reads up to the first HALT, and refuses a file without one
Halts == {i \in DOMAIN file : file[i].op = "HALT"}
UpToHalt == SubSeq(file, 1, CHOOSE i \in Halts : \A k \in Halts : i <= k)
Loads ==
  /\ Halts # {}
  /\ LET prog == UpToHalt
     IN  \A i \in DOMAIN prog : \A k \in DOMAIN prog[i].args : IsOperand(prog[i].args[k])

\* self.code[self.pc - 1], where -1 is the last one
inst == code[IF pc = 0 THEN Len(code) ELSE pc]
do   == Eval[inst.op][1]
type == Eval[inst.op][2]

val(oper) == IF IsName(oper) THEN ns[oper] ELSE NumberOf[oper.text]
Readable(oper, t) == (IsName(oper) => oper \in DOMAIN ns) /\ val(oper).type = t
Writable(oper, t) == IsName(oper) /\ (oper \in DOMAIN ns => ns[oper].type = t)
set(name, value) ==
  [x \in DOMAIN ns \cup {name} |-> IF x = name THEN value ELSE ns[x]]

Stores == {"ASN", "TOR", "TOI"} \cup Relation \cup Arithmetic
\* The operands that are read, and the type of the one that is written
Reads ==
  IF do \in Stores THEN {inst.args[k] : k \in 2 .. Len(inst.args)}
  ELSE IF do \in {"PRT", "JMPZ"} THEN {inst.args[1]} ELSE {}
ResultType ==
  IF do \in Relation \cup {"TOI"} THEN "INT" ELSE IF do = "TOR" THEN "FLOAT" ELSE type
Result ==
  CASE do = "ASN" -> val(inst.args[2])
    [] do = "TOR" -> ToFloat(val(inst.args[2]))
    [] do = "TOI" -> ToInt(val(inst.args[2]))
    [] OTHER -> Compute(do, type, val(inst.args[2]), val(inst.args[3]))

\* type_(input(...)): float() takes the text of an int, of any length
Converts(line, t) ==
  \/ line.type = t /\ HasText(line)
  \/ line.type = "INT" /\ t = "FLOAT"

\* What no except clause of the interpreter catches (KeyError, IndexError,
\* ZeroDivisionError, OverflowError, ValueError, EOFError), and its own QuadError: a
\* place behind the end, an unknown opcode, a variable without value or of another
\* type, a division by zero, int() of an infinity or nan, float() of an int that is
\* too large, print() of one that is too long, the end of the input
Raises ==
  IF pc > Len(code) \/ inst.op \notin DOMAIN Eval \/ \E oper \in Reads : ~Readable(oper, type)
  THEN TRUE
  ELSE \/ do \in Stores /\ ~Writable(inst.args[1], ResultType)
       \/ do = "DIV" /\ IsZero(val(inst.args[3]))
       \/ do = "TOI" /\ ~IsFinite(val(inst.args[2]))
       \/ do = "TOR" /\ ~FitsFloat(val(inst.args[2]))
       \/ do = "PRT" /\ ~HasText(val(inst.args[1]))
       \/ do = "JMPZ" /\ ~IsName(inst.args[1])
       \/ do = "INP" /\ IF stdin = <<>> THEN TRUE
                        ELSE Converts(Head(stdin), type) /\ ~Writable(inst.args[1], type)

Executes(dos) == status = RUNNING /\ ~Raises /\ do \in dos
GoOn == pc' = pc + 1

----------------------------------------------------------------------------
Init ==
  /\ code = <<>> /\ pc = 1 /\ ns = <<>> /\ output = <<>> /\ status = LOAD

Load ==
  /\ status = LOAD
  /\ IF Loads THEN code' = UpToHalt /\ status' = RUNNING
     ELSE code' = code /\ status' = REFUSED
  /\ UNCHANGED <<file, pc, ns, stdin, output>>

Store ==
  /\ Executes(Stores)
  /\ ns' = set(inst.args[1], Result) /\ GoOn
  /\ UNCHANGED <<file, code, stdin, output, status>>

Output ==
  /\ Executes({"PRT"})
  /\ output' = Append(output, val(inst.args[1])) /\ GoOn
  /\ UNCHANGED <<file, code, ns, stdin, status>>

Input ==
  /\ Executes({"INP"}) /\ Converts(Head(stdin), type)
  /\ ns' = set(inst.args[1], Number(type, Head(stdin).n, Head(stdin).d))
  /\ stdin' = Tail(stdin) /\ GoOn
  /\ UNCHANGED <<file, code, output, status>>

\* Faulty: the same line is looked at again
InvalidInput_SameLine ==
  /\ Executes({"INP"}) /\ ~Converts(Head(stdin), type)
  /\ UNCHANGED <<file, code, pc, ns, stdin, output, status>>

\* "Invalid input!", and the question again
InvalidInput ==
  /\ Executes({"INP"}) /\ ~Converts(Head(stdin), type)
  /\ stdin' = Tail(stdin)
  /\ UNCHANGED <<file, code, pc, ns, output, status>>

Jump ==
  /\ Executes({"JUMP"})
  /\ pc' = inst.target
  /\ UNCHANGED <<file, code, ns, stdin, output, status>>

\* Faulty: jumps when the condition holds
JumpIfZero_NotZero ==
  /\ Executes({"JMPZ"})
  /\ pc' = IF val(inst.args[1]).n # 0 THEN inst.target ELSE pc + 1
  /\ UNCHANGED <<file, code, ns, stdin, output, status>>

JumpIfZero ==
  /\ Executes({"JMPZ"})
  /\ pc' = IF val(inst.args[1]).n = 0 THEN inst.target ELSE pc + 1
  /\ UNCHANGED <<file, code, ns, stdin, output, status>>

Halt ==
  /\ Executes({"HALT"})
  /\ status' = HALTED
  /\ UNCHANGED <<file, code, pc, ns, stdin, output>>

Raise ==
  /\ status = RUNNING /\ Raises
  /\ status' = RAISED
  /\ UNCHANGED <<file, code, pc, ns, stdin, output>>

Step ==
  \/ Load \/ Store \/ Output \/ Input \/ InvalidInput
  \/ Jump \/ JumpIfZero \/ Halt \/ Raise
=============================================================================
