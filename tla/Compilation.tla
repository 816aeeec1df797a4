---------------------------- MODULE Compilation ----------------------------
(***************************************************************************)
(* What cpq promises to whoever runs it: a run is one step, however many   *)
(* files it opens in between.  It succeeds with the whole compiled program *)
(* in the output, or it fails and leaves no output of its own.  Only a run *)
(* that is killed may leave a part of one, and whatever it left, the next  *)
(* run makes the same promise.                                             *)
(***************************************************************************)
EXTENDS Integers

CONSTANTS
  Source,   \* what the input file may hold
  NoSource, \* there is no such file
  Verdict,  \* of each source: "good", or what is wrong with it
  Length    \* how many lines of Quad code a source becomes

NoExit == -1
Killed == 137  \* what the shell reports of a process killed by SIGKILL

\* An output file is as many lines of the code of a source as were written
Absent == [of |-> NoSource, lines |-> 0]
Part(s, n) == [of |-> s, lines |-> n]
Whole(s) == Part(s, Length[s])

VARIABLES input, output, exit_code

Init ==
  /\ input \in Source \cup {NoSource}
  /\ output = Absent
  /\ exit_code = NoExit

Edit ==
  /\ input' \in Source \cup {NoSource}
  /\ exit_code' = NoExit
  /\ UNCHANGED output

Succeed ==
  /\ input \in Source
  /\ Verdict[input] = "good"
  /\ output' = Whole(input)
  /\ exit_code' = 0
  /\ UNCHANGED input

Fail ==
  /\ output' \in {Absent, output}
  /\ exit_code' = 1
  /\ UNCHANGED input

Die ==
  /\ \/ output' \in {Absent, output}
     \/ input \in Source /\ \E n \in 0 .. Length[input] : output' = Part(input, n)
  /\ exit_code' = Killed
  /\ UNCHANGED input

Next == Edit \/ Succeed \/ Fail \/ Die

Spec == Init /\ [][Next]_<<input, output, exit_code>>
=============================================================================
