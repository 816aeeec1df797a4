-------------------------------- MODULE Cpq --------------------------------
(***************************************************************************)
(* The driver: main (src/src/cpq.c), compile_file (src/src/compiler.c) and *)
(* quad_generate (src/src/quad.c), run again and again on one input file   *)
(* that is edited in between.  One action is a call that may fail, or the  *)
(* part of a cleanup up to the next effect on the disk, so that a run can  *)
(* be killed between any two.                                              *)
(*                                                                         *)
(* What the parser and the semantic check find in a source is its Verdict; *)
(* the code of a source is reduced to the number of its lines (QuadEmit    *)
(* and QuadFinalize say which).  Output streams are buffered: a line that  *)
(* was printed reaches the disk when the buffer is written out.            *)
(***************************************************************************)
EXTENDS Integers

CONSTANTS
  Source,
  NoSource,
  Verdict,
  Length,
  Fault     \* what may go wrong, a subset of FaultKind

VerdictKind == {"good", "syntax", "semantic", "ir"}
FaultKind ==
  {"open",    \* fopen
   "memory",  \* an allocation
   "scanner", \* the scanner gives up
   "write",   \* a print to the temporary file
   "flush",   \* writing out its buffer when it is rewound
   "print",   \* a print to the output
   "close",   \* writing out the buffer of the output when it is closed
   "remove",  \* remove
   "kill"}    \* the process is killed

ASSUME SourceAssumption ==
  /\ NoSource \notin Source
  /\ Verdict \in [Source -> VerdictKind]
  /\ Length \in [Source -> Nat]
ASSUME FaultAssumption == Fault \subseteq FaultKind

VARIABLES
  disk,           \* the files: the input as a source, the others as Files
  buf,            \* lines of "output" and "tmp" that are still in a buffer
  readable,       \* how many lines of the temporary file can be read back
  pc,             \* the next call; "shell" between two runs
  debug_progress,
  delete, rc,     \* locals of main and quad_generate
  ptr,            \* the pointers that are not NULL ...
  held,           \* ... and how often what they point to is held
  exit_code,
  last            \* output, temporary file and exit code before the run

vars == <<disk, buf, readable, pc, debug_progress, delete, rc, ptr, held, exit_code, last>>

C == INSTANCE Compilation WITH
       input <- disk.input,
       output <- IF pc = "shell" THEN disk.output ELSE last.output,
       exit_code <- IF pc = "shell" THEN exit_code ELSE last.exit_code

Absent == C!Absent
Part(s, n) == C!Part(s, n)
Whole(s) == C!Whole(s)
NoExit == C!NoExit
Killed == C!Killed
Fatal == 2  \* exit code of a scanner that gives up
ExitCode == {NoExit, 0, 1, Fatal, Killed}

\* A file never has more lines than its source gives
File ==
  {file \in [of : Source \cup {NoSource}, lines : Nat] :
     IF file.of = NoSource THEN file.lines = 0 ELSE file.lines <= Length[file.of]}
Disk == [input : Source \cup {NoSource}, output : File, tmp : File]
\* Streams of main and quad_generate, and blocks of memory
Stream == {"in", "out", "tmp_file"}
Resource == Stream \cup {"output_path", "program", "symbols", "gen_output_path", "tmp_path"}
Label == {"shell", "open_in", "output_path", "open_out", "parse", "check", "gen_output_path",
          "tmp_path", "open_tmp", "first_stage", "pass_1", "pass_2", "gen_cleanup",
          "gen_remove", "close_out", "cleanup", "remove"}

Goto(from, to) == pc = from /\ pc' = to
files == <<disk, buf, readable>>
memory == <<ptr, held>>
locals == <<delete, rc>>
invocation == <<debug_progress, exit_code, last>>

Acquire(r) ==
  /\ ptr' = ptr \cup {r}
  /\ held' = [held EXCEPT ![r] = @ + 1]
\* fclose or free of those that are not NULL
Release(rs) ==
  /\ ptr' = ptr \ rs
  /\ held' = [r \in Resource |-> IF r \in rs \cap ptr THEN held[r] - 1 ELSE held[r]]

\* A line goes to the buffer, which may then be written out
PrintLine(f) ==
  \/ /\ buf' = [buf EXCEPT ![f] = @ + 1]
     /\ UNCHANGED disk
  \/ /\ buf' = [buf EXCEPT ![f] = 0]
     /\ disk' = [disk EXCEPT ![f] = Part(@.of, @.lines + buf[f] + 1)]
\* Faulty: a buffer that was written out is written out again
WriteOut_Twice(f) ==
  /\ disk' = [disk EXCEPT ![f] = Part(@.of, @.lines + buf[f])]
  /\ UNCHANGED buf
\* What becomes of a buffer in the end: it is written out, or it is lost
WriteOut(f) ==
  /\ buf' = [buf EXCEPT ![f] = 0]
  /\ disk' = [disk EXCEPT ![f] = Part(@.of, @.lines + buf[f])]
Lose(f) ==
  /\ buf' = [buf EXCEPT ![f] = 0]
  /\ UNCHANGED disk
Printed(f) == disk[f].lines + buf[f]

Init ==
  /\ disk \in [input : Source \cup {NoSource}, output : {Absent}, tmp : {Absent}]
  /\ buf = [output |-> 0, tmp |-> 0]
  /\ readable = 0
  /\ pc = "shell"
  /\ debug_progress \in BOOLEAN
  /\ delete = TRUE /\ rc = 1
  /\ ptr = {} /\ held = [r \in Resource |-> 0]
  /\ exit_code = NoExit
  /\ last = [output |-> disk.output, tmp |-> disk.tmp, exit_code |-> NoExit]

(***************************************************************************)
(* Between two runs                                                        *)
(***************************************************************************)

Edit ==
  /\ pc = "shell"
  /\ \E s \in Source \cup {NoSource} : disk' = [disk EXCEPT !.input = s]
  /\ exit_code' = NoExit
  /\ UNCHANGED <<buf, readable, pc, debug_progress, last, locals, memory>>

\* parse_args has set debug_progress when it returns, on success or not
Start ==
  /\ Goto("shell", "open_in")
  /\ debug_progress' \in BOOLEAN
  /\ delete' = TRUE /\ rc' = 1
  /\ exit_code' = NoExit
  /\ last' = [output |-> disk.output, tmp |-> disk.tmp, exit_code |-> exit_code]
  /\ UNCHANGED <<files, memory>>

\* Not one file name, or not one that ends in .ou
Refuse ==
  /\ pc = "shell"
  /\ debug_progress' \in BOOLEAN
  /\ exit_code' = 1
  /\ last' = [output |-> disk.output, tmp |-> disk.tmp, exit_code |-> exit_code]
  /\ UNCHANGED <<files, pc, memory, locals>>

(***************************************************************************)
(* main                                                                    *)
(***************************************************************************)

OpenIn ==
  /\ Goto("open_in", "output_path")
  /\ disk.input # NoSource
  /\ Acquire("in")
  /\ UNCHANGED <<files, locals, invocation>>
OpenInFails ==
  /\ Goto("open_in", "cleanup")
  /\ disk.input = NoSource \/ "open" \in Fault
  /\ UNCHANGED <<files, memory, locals, invocation>>

MakeOutputPath ==
  /\ Goto("output_path", "open_out")
  /\ Acquire("output_path")
  /\ UNCHANGED <<files, locals, invocation>>
MakeOutputPathFails ==
  /\ Goto("output_path", "cleanup")
  /\ "memory" \in Fault
  /\ UNCHANGED <<files, memory, locals, invocation>>

\* Faulty: what the file held stays
OpenOut_Append ==
  /\ Goto("open_out", "parse")
  /\ disk' = IF disk.output = Absent THEN [disk EXCEPT !.output = Part(disk.input, 0)] ELSE disk
  /\ Acquire("out")
  /\ UNCHANGED <<buf, readable, locals, invocation>>
\* fopen with "wb" empties the file
OpenOut ==
  /\ Goto("open_out", "parse")
  /\ disk' = [disk EXCEPT !.output = Part(disk.input, 0)]
  /\ Acquire("out")
  /\ UNCHANGED <<buf, readable, locals, invocation>>
OpenOutFails ==
  /\ Goto("open_out", "cleanup")
  /\ "open" \in Fault
  /\ UNCHANGED <<files, memory, locals, invocation>>

\* Faulty: a failing fclose leaves the pointer as it is
CloseOutFails_NotNull ==
  /\ Goto("close_out", "cleanup")
  /\ "close" \in Fault
  /\ WriteOut("output") \/ Lose("output")
  /\ held' = [held EXCEPT !["out"] = @ - 1]
  /\ UNCHANGED <<ptr, readable, locals, invocation>>
\* A stream is gone also when fclose fails
CloseOutFails ==
  /\ Goto("close_out", "cleanup")
  /\ "close" \in Fault
  /\ WriteOut("output") \/ Lose("output")
  /\ Release({"out"})
  /\ UNCHANGED <<readable, locals, invocation>>
\* Faulty: what fclose returns is not looked at
CloseOut_Unchecked ==
  /\ Goto("close_out", "cleanup")
  /\ WriteOut("output") \/ ("close" \in Fault /\ Lose("output"))
  /\ Release({"out"})
  /\ delete' = FALSE
  /\ UNCHANGED <<readable, rc, invocation>>
CloseOut ==
  /\ Goto("close_out", "cleanup")
  /\ WriteOut("output")
  /\ Release({"out"})
  /\ delete' = FALSE
  /\ UNCHANGED <<readable, rc, invocation>>

\* The cleanup ignores what fclose returns
CloseStreams ==
  /\ Goto("cleanup", "remove")
  /\ \/ "out" \in ptr /\ WriteOut("output")
     \/ "out" \in ptr /\ Lose("output")
     \/ "out" \notin ptr /\ UNCHANGED <<buf, disk>>
  /\ Release({"out", "in"})
  /\ UNCHANGED <<readable, locals, invocation>>

\* Faulty: the output stays when compile_file failed
RemoveOutput_OnlyClosed ==
  /\ Goto("remove", "shell")
  /\ disk' = IF delete /\ rc = 0 THEN [disk EXCEPT !.output = Absent] ELSE disk
  /\ Release({"output_path"})
  /\ exit_code' = IF delete THEN 1 ELSE 0
  /\ UNCHANGED <<buf, readable, locals, debug_progress, last>>
RemoveOutput ==
  /\ Goto("remove", "shell")
  /\ \/ disk' = IF delete /\ "output_path" \in ptr THEN [disk EXCEPT !.output = Absent] ELSE disk
     \/ "remove" \in Fault /\ UNCHANGED disk
  /\ Release({"output_path"})
  /\ exit_code' = IF delete THEN 1 ELSE 0
  /\ UNCHANGED <<buf, readable, locals, debug_progress, last>>

(***************************************************************************)
(* compile_file                                                            *)
(***************************************************************************)

\* parser_parse hands on a tree if it found no error, and frees it otherwise
Parse ==
  /\ Goto("parse", "check")
  /\ Verdict[disk.input] # "syntax"
  /\ Acquire("program")
  /\ UNCHANGED <<files, locals, invocation>>
ParseFails ==
  /\ Goto("parse", "cleanup")
  /\ Verdict[disk.input] = "syntax" \/ "memory" \in Fault
  /\ UNCHANGED <<files, memory, locals, invocation>>

\* The generated scanner calls exit when it cannot read or has no memory
YY_FATAL_ERROR ==
  /\ Goto("parse", "shell")
  /\ "scanner" \in Fault
  /\ ptr' = {} /\ held' = [r \in Resource |-> 0]
  /\ exit_code' = Fatal
  /\ UNCHANGED <<files, locals, debug_progress, last>>

Check ==
  /\ Goto("check", "gen_output_path")
  /\ Verdict[disk.input] # "semantic"
  /\ Acquire("symbols")
  /\ UNCHANGED <<files, locals, invocation>>
CheckFails ==
  /\ Goto("check", "cleanup")
  /\ Verdict[disk.input] = "semantic" \/ "memory" \in Fault
  /\ Release({"program"})
  /\ UNCHANGED <<files, locals, invocation>>

(***************************************************************************)
(* quad_generate                                                           *)
(***************************************************************************)

MakeGeneratorPath ==
  /\ Goto("gen_output_path", "tmp_path")
  /\ Acquire("gen_output_path")
  /\ UNCHANGED <<files, locals, invocation>>
MakeTmpPath ==
  /\ Goto("tmp_path", "open_tmp")
  /\ Acquire("tmp_path")
  /\ UNCHANGED <<files, locals, invocation>>
MakePathFails ==
  /\ Goto("gen_output_path", "gen_cleanup") \/ Goto("tmp_path", "gen_cleanup")
  /\ "memory" \in Fault
  /\ UNCHANGED <<files, memory, locals, invocation>>

\* fopen with "wb+" empties the file
OpenTmp ==
  /\ Goto("open_tmp", "first_stage")
  /\ disk' = [disk EXCEPT !.tmp = Part(disk.input, 0)]
  /\ Acquire("tmp_file")
  /\ UNCHANGED <<buf, readable, locals, invocation>>
OpenTmpFails ==
  /\ Goto("open_tmp", "gen_cleanup")
  /\ "open" \in Fault
  /\ UNCHANGED <<files, memory, locals, invocation>>

Emit ==
  /\ Goto("first_stage", "first_stage")
  /\ Printed("tmp") < Length[disk.input]
  /\ PrintLine("tmp")
  /\ UNCHANGED <<readable, memory, locals, invocation>>
\* A line cannot be printed, or a BREAK has nothing to leave
EmitFails ==
  /\ Goto("first_stage", "gen_cleanup")
  /\ "write" \in Fault \/ Verdict[disk.input] = "ir"
  /\ UNCHANGED <<files, memory, locals, invocation>>

\* The first rewind writes the buffer out ...
Rewind ==
  /\ Goto("first_stage", "pass_1")
  /\ Verdict[disk.input] = "good"
  /\ Printed("tmp") = Length[disk.input]
  /\ WriteOut("tmp")
  /\ readable' = Length[disk.input]
  /\ UNCHANGED <<memory, locals, invocation>>
\* ... and does not tell when it cannot: what is read then is some part
RewindFails ==
  /\ Goto("first_stage", "pass_1")
  /\ Verdict[disk.input] = "good"
  /\ Printed("tmp") = Length[disk.input] /\ buf.tmp > 0
  /\ "flush" \in Fault
  /\ Lose("tmp")
  /\ readable' \in 0 .. disk.tmp.lines
  /\ UNCHANGED <<memory, locals, invocation>>

MapLabels ==
  /\ Goto("pass_1", "pass_2")
  /\ UNCHANGED <<files, memory, locals, invocation>>
MapLabelsFails ==
  /\ Goto("pass_1", "gen_cleanup")
  /\ "memory" \in Fault
  /\ UNCHANGED <<files, memory, locals, invocation>>

\* Faulty: the same line again
Copy_SameAgain ==
  /\ Goto("pass_2", "pass_2")
  /\ Printed("output") < readable
  /\ \/ buf' = [buf EXCEPT !.output = 1 - @]
     \/ buf' = [buf EXCEPT !.output = 0]
  /\ UNCHANGED <<disk, readable, memory, locals, invocation>>
Copy ==
  /\ Goto("pass_2", "pass_2")
  /\ Printed("output") < readable
  /\ PrintLine("output")
  /\ UNCHANGED <<readable, memory, locals, invocation>>
\* A print fails, or a label that is lost is not found: quad_finalize returns 0
CopyFails ==
  /\ Goto("pass_2", "gen_cleanup")
  /\ Printed("output") < readable
  /\ "print" \in Fault \/ readable < Length[disk.input]
  /\ rc' = 0
  /\ UNCHANGED <<files, memory, delete, invocation>>
Finalized ==
  /\ Goto("pass_2", "gen_cleanup")
  /\ Printed("output") = readable
  /\ rc' = 0
  /\ UNCHANGED <<files, memory, delete, invocation>>

CloseTmp ==
  /\ Goto("gen_cleanup", "gen_remove")
  /\ \/ "tmp_file" \in ptr /\ WriteOut("tmp")
     \/ "tmp_file" \in ptr /\ Lose("tmp")
     \/ "tmp_file" \notin ptr /\ UNCHANGED <<buf, disk>>
  /\ Release({"tmp_file"})
  /\ UNCHANGED <<readable, locals, invocation>>
\* Faulty: the temporary file stays when a stage failed
RemoveTmp_WhenDone ==
  /\ Goto("gen_remove", IF rc = 0 THEN "close_out" ELSE "cleanup")
  /\ disk' = IF rc = 0 /\ ~debug_progress THEN [disk EXCEPT !.tmp = Absent] ELSE disk
  /\ Release({"tmp_path", "gen_output_path", "symbols", "program"})
  /\ UNCHANGED <<buf, readable, locals, invocation>>
\* and compile_file frees what it was handed before it returns to main
RemoveTmp ==
  /\ Goto("gen_remove", IF rc = 0 THEN "close_out" ELSE "cleanup")
  /\ \/ disk' = IF "tmp_path" \in ptr /\ ~debug_progress THEN [disk EXCEPT !.tmp = Absent] ELSE disk
     \/ "remove" \in Fault /\ UNCHANGED disk
  /\ Release({"tmp_path", "gen_output_path", "symbols", "program"})
  /\ UNCHANGED <<buf, readable, locals, invocation>>

(***************************************************************************)
(* The process is killed at any point; the system closes its streams       *)
(***************************************************************************)

Kill ==
  /\ pc # "shell" /\ pc' = "shell"
  /\ "kill" \in Fault
  /\ ptr' = {} /\ held' = [r \in Resource |-> 0]
  /\ buf' = [output |-> 0, tmp |-> 0]
  /\ exit_code' = Killed
  /\ UNCHANGED <<disk, readable, locals, debug_progress, last>>

main ==
  \/ OpenIn \/ OpenInFails \/ MakeOutputPath \/ MakeOutputPathFails \/ OpenOut \/ OpenOutFails
  \/ CloseOut \/ CloseOutFails \/ CloseStreams \/ RemoveOutput
compile_file == Parse \/ ParseFails \/ YY_FATAL_ERROR \/ Check \/ CheckFails
quad_generate ==
  \/ MakeGeneratorPath \/ MakeTmpPath \/ MakePathFails \/ OpenTmp \/ OpenTmpFails
  \/ Emit \/ EmitFails \/ Rewind \/ RewindFails
  \/ MapLabels \/ MapLabelsFails \/ Copy \/ CopyFails \/ Finalized
  \/ CloseTmp \/ RemoveTmp
Step == main \/ compile_file \/ quad_generate
Next == Edit \/ Start \/ Refuse \/ Step \/ Kill

Spec == Init /\ [][Next]_vars /\ WF_vars(Step)

(***************************************************************************)
(* Properties                                                              *)
(***************************************************************************)

\* The disk and the process have their types.
TypeOK ==
  /\ disk \in Disk
  /\ buf \in [output : Nat, tmp : Nat]
  /\ readable \in Nat
  /\ pc \in Label
  /\ debug_progress \in BOOLEAN /\ delete \in BOOLEAN /\ rc \in {0, 1}
  /\ ptr \subseteq Resource /\ held \in [Resource -> Int]
  /\ exit_code \in ExitCode
  /\ last \in [output : File, tmp : File, exit_code : ExitCode]

\* Whatever fails, every stream is closed and every block freed once: no
\* second fclose after one that failed, nothing left when main returns.
ReleasedOnce ==
  \A r \in Resource : held[r] \in 0 .. 1 /\ (pc = "shell" => held[r] = 0)

\* Exit code 0 means that the output is the whole code of the input, also when
\* earlier runs failed or were killed and left something.
SuccessMeansComplete ==
  pc = "shell" /\ exit_code = 0 => disk.output = Whole(disk.input)

\* Whatever fails, an output that is reported is one of this run: none that an
\* earlier version of the input left, and no more lines than the input has.
OutputIsOfInput ==
  pc = "shell" /\ exit_code = 0 =>
    \E n \in 0 .. Length[disk.input] : disk.output = Part(disk.input, n)

\* The temporary file goes when the run ends, unless --debug asks for it, and
\* then it is whole (src/README.md:13 and 52).
TmpAsAsked ==
  pc = "shell" =>
    /\ exit_code = 0 => disk.tmp = IF debug_progress THEN Whole(disk.input) ELSE Absent
    /\ exit_code = 1 /\ ~debug_progress => disk.tmp \in {Absent, last.tmp}

\* Whatever is noticed, and however runs are killed and repeated, a run of main
\* looks like one step of Compilation.
KeepsPromise == C!Spec

\* main returns, whatever fails.
Termination == pc # "shell" ~> pc = "shell"
=============================================================================
