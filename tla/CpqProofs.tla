----------------------------- MODULE CpqProofs -----------------------------
(***************************************************************************)
(* Proofs about Cpq, for every set of sources and every set of faults that *)
(* a theorem does not exclude.                                             *)
(***************************************************************************)
EXTENDS Cpq, TLAPS

\* Faults that pass unnoticed
Unnoticed == {"scanner", "flush", "print", "remove"}

(***************************************************************************)
(* The invariants                                                          *)
(***************************************************************************)

\* What the functions that are active at a label hold
MainHolds == {"in", "output_path", "out"}
Pointers ==
  /\ pc \in {"shell", "open_in"} => ptr = {}
  /\ pc = "output_path" => ptr = {"in"}
  /\ pc = "open_out" => ptr = {"in", "output_path"}
  /\ pc \in {"parse", "close_out"} => ptr = MainHolds
  /\ pc = "check" => ptr = MainHolds \cup {"program"}
  /\ pc = "gen_output_path" => ptr = MainHolds \cup {"program", "symbols"}
  /\ pc = "tmp_path" => ptr = Resource \ {"tmp_path", "tmp_file"}
  /\ pc = "open_tmp" => ptr = Resource \ {"tmp_file"}
  /\ pc \in {"first_stage", "pass_1", "pass_2"} => ptr = Resource
  /\ pc = "gen_cleanup" => MainHolds \subseteq ptr /\ ("tmp_file" \in ptr => "tmp_path" \in ptr)
  /\ pc = "gen_remove" => MainHolds \subseteq ptr /\ "tmp_file" \notin ptr
  /\ pc = "cleanup" => ptr \subseteq MainHolds
  /\ pc = "remove" => ptr \subseteq {"output_path"}

\* What is held is what a pointer says
Owned == \A r \in Resource : held[r] = IF r \in ptr THEN 1 ELSE 0

\* Ownership does not depend on the files
OwnInv == pc \in Label /\ ptr \subseteq Resource /\ held \in [Resource -> Int] /\ Owned /\ Pointers

\* Lines in a buffer belong to the file they are going to
Buffered(f) ==
  /\ disk[f].of = NoSource => buf[f] = 0
  /\ disk[f].of # NoSource => Printed(f) <= Length[disk[f].of]
Buffers ==
  /\ Buffered("output") /\ Buffered("tmp")
  /\ pc \notin {"pass_2", "gen_cleanup", "gen_remove", "close_out", "cleanup"} => buf.output = 0
  /\ pc \notin {"first_stage", "gen_cleanup"} => buf.tmp = 0

Opening == {"open_in", "output_path", "open_out"}
Stages == {"first_stage", "pass_1", "pass_2"}
Generating == {"gen_output_path", "tmp_path", "open_tmp", "gen_cleanup", "gen_remove"} \cup Stages
Compiling == {"parse", "check", "close_out"} \cup Generating
\* Before the output is written
Unwritten == {"parse", "check", "gen_output_path", "tmp_path", "open_tmp", "first_stage", "pass_1"}
Ending == {"cleanup", "remove"}

IsOfInput(f) == disk.input \in Source /\ disk[f].of = disk.input

\* Which files are this run's, and how far it is
Files ==
  /\ pc \in Opening => disk.output = last.output
  /\ pc = "output_path" \/ pc = "open_out" => disk.input \in Source
  /\ pc \in Compiling => IsOfInput("output")
  /\ pc \in Ending =>
       /\ disk.output = last.output \/ IsOfInput("output")
       /\ "out" \in ptr \/ ~delete => IsOfInput("output") /\ "output_path" \in ptr
       /\ "out" \notin ptr => buf.output = 0
       /\ "output_path" \notin ptr => disk.output = last.output
       /\ ~delete => "out" \notin ptr
  /\ pc \in Opening \cup Compiling => delete
  /\ pc \in Opening \cup Unwritten \cup {"pass_2"} => rc = 1
  /\ pc \in Unwritten => disk.output.lines = 0
  /\ pc \in Stages => IsOfInput("tmp")
  /\ pc \in {"gen_cleanup"} => buf.tmp = 0 \/ "tmp_file" \in ptr
  /\ pc \in {"pass_1", "pass_2"} => readable <= Length[disk.input]
  /\ pc = "pass_2" => Printed("output") <= readable
  /\ pc = "shell" /\ exit_code = 0 => IsOfInput("output")

\* The program was accepted
Accepted ==
  \/ pc \in {"pass_1", "pass_2", "close_out"}
  \/ pc \in {"gen_cleanup", "gen_remove"} /\ rc = 0
  \/ pc \in Ending /\ ~delete
  \/ pc = "shell" /\ exit_code = 0

\* When every fault is noticed
Complete ==
  /\ Accepted => Verdict[disk.input] = "good"
  /\ pc \in {"pass_1", "pass_2"} => readable = Length[disk.input] /\ disk.tmp = Whole(disk.input)
  /\ Accepted /\ pc \notin {"pass_1", "pass_2"} => Printed("output") = Length[disk.input]

\* and what becomes of the temporary file
Temporary ==
  /\ pc \in Opening \cup {"parse", "check", "gen_output_path", "tmp_path"} => disk.tmp = last.tmp
  /\ pc \in {"gen_cleanup", "gen_remove"} =>
       /\ "tmp_path" \notin ptr => disk.tmp = last.tmp
       /\ rc = 0 => disk.tmp = Whole(disk.input) /\ "tmp_path" \in ptr
  /\ pc \in Ending \cup {"close_out"} => debug_progress \/ disk.tmp \in {Absent, last.tmp}
  /\ pc = "close_out" \/ (pc \in Ending /\ ~delete) =>
       disk.tmp = IF debug_progress THEN Whole(disk.input) ELSE Absent

FilesInv == TypeOK /\ OwnInv /\ Buffers /\ Files
CompleteInv == FilesInv /\ Complete /\ Temporary

(***************************************************************************)
(* Files and printing                                                      *)
(***************************************************************************)

LEMMA Constants ==
  /\ NoExit = -1 /\ Killed = 137 /\ Fatal = 2
  /\ ExitCode = {-1, 0, 1, 2, 137}
  BY DEF NoExit, C!NoExit, Killed, C!Killed, Fatal, ExitCode

LEMMA FileNames ==
  /\ Absent = [of |-> NoSource, lines |-> 0]
  /\ \A s, n : Part(s, n) = [of |-> s, lines |-> n]
  /\ \A s : Whole(s) = Part(s, Length[s])
  BY DEF Absent, C!Absent, Part, C!Part, Whole, C!Whole

LEMMA FilesAre ==
  /\ Absent \in File
  /\ \A s \in Source : \A n \in 0 .. Length[s] : Part(s, n) \in File
  /\ \A s \in Source : Length[s] \in Nat /\ s # NoSource
  <1>1. \A s \in Source : Length[s] \in Nat /\ s # NoSource
    BY SourceAssumption
  <1>2. [of |-> NoSource, lines |-> 0] \in File
    BY DEF File
  <1>3. ASSUME NEW s \in Source, NEW n \in 0 .. Length[s]
        PROVE  [of |-> s, lines |-> n] \in File
    BY <1>1 DEF File
  <1> QED BY <1>1, <1>2, <1>3, FileNames

\* The typed part of the state, for a step that changes a file or its buffer
LEMMA PrintType ==
  ASSUME TypeOK, NEW f \in {"output", "tmp"}, PrintLine(f), Buffered(f), disk[f].of # NoSource,
         Printed(f) < Length[disk[f].of]
  PROVE  /\ disk' \in Disk /\ buf' \in [output : Nat, tmp : Nat]
         /\ disk'.input = disk.input
         /\ disk'[f].of = disk[f].of
         /\ Printed(f)' = Printed(f) + 1
         /\ \A g \in {"output", "tmp"} \ {f} : disk'[g] = disk[g] /\ buf'[g] = buf[g]
  <1> DEFINE written == [of |-> disk[f].of, lines |-> disk[f].lines + buf[f] + 1]
  <1>1. disk[f] \in File /\ disk[f].of \in Source /\ disk[f].lines \in Nat /\ buf[f] \in Nat
    BY DEF TypeOK, Disk, File
  <1>2. written \in File
    BY <1>1, SourceAssumption DEF Printed, File
  <1> HIDE DEF written
  <1>3. CASE buf' = [buf EXCEPT ![f] = @ + 1] /\ UNCHANGED disk
    BY <1>1, <1>3 DEF TypeOK, Printed
  <1>4. CASE buf' = [buf EXCEPT ![f] = 0] /\ disk' = [disk EXCEPT ![f] = written]
    <2>1. disk' \in Disk /\ buf' \in [output : Nat, tmp : Nat]
      BY <1>2, <1>4 DEF TypeOK, Disk
    <2>2. disk'[f] = written /\ buf'[f] = 0 /\ disk'.input = disk.input
      BY <1>4 DEF TypeOK, Disk
    <2>3. \A g \in {"output", "tmp"} \ {f} : disk'[g] = disk[g] /\ buf'[g] = buf[g]
      BY <1>4 DEF TypeOK, Disk
    <2> QED BY <1>1, <2>1, <2>2, <2>3 DEF Printed, written
  <1> QED BY <1>3, <1>4, FileNames DEF PrintLine, written

LEMMA WriteOutType ==
  ASSUME TypeOK, NEW f \in {"output", "tmp"}, WriteOut(f) \/ Lose(f), Buffered(f)
  PROVE  /\ disk' \in Disk /\ buf' \in [output : Nat, tmp : Nat]
         /\ disk'.input = disk.input
         /\ disk'[f].of = disk[f].of
         /\ buf'[f] = 0
         /\ Printed(f)' <= Printed(f)
         /\ WriteOut(f) => Printed(f)' = Printed(f)
         /\ \A g \in {"output", "tmp"} \ {f} : disk'[g] = disk[g] /\ buf'[g] = buf[g]
  BY SourceAssumption, FileNames DEF TypeOK, WriteOut, Lose, Buffered, Printed, Disk, File

(***************************************************************************)
(* What each label holds: IInv                                             *)
(***************************************************************************)

LEMMA AcquireOwns ==
  ASSUME Owned, ptr \subseteq Resource, held \in [Resource -> Int],
         NEW r \in Resource, r \notin ptr, Acquire(r)
  PROVE  Owned' /\ ptr' \subseteq Resource /\ held' \in [Resource -> Int]
  BY DEF Owned, Acquire

LEMMA ReleaseOwns ==
  ASSUME Owned, ptr \subseteq Resource, held \in [Resource -> Int],
         NEW rs, rs \subseteq Resource, Release(rs)
  PROVE  Owned' /\ ptr' \subseteq Resource /\ held' \in [Resource -> Int]
  BY DEF Owned, Release

LEMMA KeepsOwned ==
  ASSUME Owned, ptr \subseteq Resource, held \in [Resource -> Int], UNCHANGED memory
  PROVE  Owned' /\ ptr' \subseteq Resource /\ held' \in [Resource -> Int]
  BY DEF Owned, memory

LEMMA ExitOwns ==
  ASSUME ptr' = {}, held' = [r \in Resource |-> 0]
  PROVE  Owned' /\ ptr' \subseteq Resource /\ held' \in [Resource -> Int]
  BY DEF Owned

LEMMA OwnStep == OwnInv /\ [Next]_vars => OwnInv'
  <1> SUFFICES ASSUME OwnInv, [Next]_vars PROVE OwnInv'
    OBVIOUS
  <1> USE DEF OwnInv
  <1>1. CASE main
    <2> USE DEF Goto, Label, Pointers, MainHolds, Resource, Stream
    <2>1. CASE OpenIn
      BY <2>1, AcquireOwns DEF OpenIn, Acquire
    <2>2. CASE OpenInFails
      BY <2>2, KeepsOwned DEF OpenInFails, memory
    <2>3. CASE MakeOutputPath
      BY <2>3, AcquireOwns DEF MakeOutputPath, Acquire
    <2>4. CASE MakeOutputPathFails
      BY <2>4, KeepsOwned DEF MakeOutputPathFails, memory
    <2>5. CASE OpenOut
      BY <2>5, AcquireOwns DEF OpenOut, Acquire
    <2>6. CASE OpenOutFails
      BY <2>6, KeepsOwned DEF OpenOutFails, memory
    <2>7. CASE CloseOut
      BY <2>7, ReleaseOwns DEF CloseOut, Release
    <2>8. CASE CloseOutFails
      BY <2>8, ReleaseOwns DEF CloseOutFails, Release
    <2>9. CASE CloseStreams
      BY <2>9, ReleaseOwns DEF CloseStreams, Release
    <2>10. CASE RemoveOutput
      BY <2>10, ReleaseOwns DEF RemoveOutput, Release
    <2> QED BY <1>1, <2>1, <2>2, <2>3, <2>4, <2>5, <2>6, <2>7, <2>8, <2>9, <2>10 DEF main
  <1>2. CASE compile_file
    <2> USE DEF Goto, Label, Pointers, MainHolds, Resource, Stream
    <2>1. CASE Parse
      BY <2>1, AcquireOwns DEF Parse, Acquire
    <2>2. CASE ParseFails
      BY <2>2, KeepsOwned DEF ParseFails, memory
    <2>3. CASE YY_FATAL_ERROR
      BY <2>3, ExitOwns DEF YY_FATAL_ERROR
    <2>4. CASE Check
      BY <2>4, AcquireOwns DEF Check, Acquire
    <2>5. CASE CheckFails
      BY <2>5, ReleaseOwns DEF CheckFails, Release
    <2> QED BY <1>2, <2>1, <2>2, <2>3, <2>4, <2>5 DEF compile_file
  <1>3. CASE quad_generate
    <2> USE DEF Goto, Label, Pointers, MainHolds, Resource, Stream
    <2>1. CASE MakeGeneratorPath
      BY <2>1, AcquireOwns DEF MakeGeneratorPath, Acquire
    <2>2. CASE MakeTmpPath
      BY <2>2, AcquireOwns DEF MakeTmpPath, Acquire
    <2>3. CASE MakePathFails
      BY <2>3, KeepsOwned DEF MakePathFails, memory
    <2>4. CASE OpenTmp
      BY <2>4, AcquireOwns DEF OpenTmp, Acquire
    <2>5. CASE OpenTmpFails
      BY <2>5, KeepsOwned DEF OpenTmpFails, memory
    <2>6. CASE Emit \/ EmitFails \/ Rewind \/ RewindFails
      BY <2>6, KeepsOwned DEF Emit, EmitFails, Rewind, RewindFails, memory
    <2>7. CASE MapLabels \/ MapLabelsFails \/ Copy \/ CopyFails \/ Finalized
      BY <2>7, KeepsOwned DEF MapLabels, MapLabelsFails, Copy, CopyFails, Finalized, memory
    <2>8. CASE CloseTmp
      BY <2>8, ReleaseOwns DEF CloseTmp, Release
    <2>9. CASE RemoveTmp
      <3>1. Release({"tmp_path", "gen_output_path", "symbols", "program"})
        BY <2>9 DEF RemoveTmp
      <3>2. {"tmp_path", "gen_output_path", "symbols", "program"} \subseteq Resource
        OBVIOUS
      <3>3. Owned' /\ ptr' \subseteq Resource /\ held' \in [Resource -> Int]
        BY <3>1, <3>2, ReleaseOwns
      <3> QED BY <2>9, <3>1, <3>3 DEF RemoveTmp, Release
    <2> QED BY <1>3, <2>1, <2>2, <2>3, <2>4, <2>5, <2>6, <2>7, <2>8, <2>9 DEF quad_generate
  <1>4. CASE Edit \/ Start \/ Refuse
    BY <1>4, KeepsOwned DEF Edit, Start, Refuse, Goto, memory, Label, Pointers
  <1>5. CASE Kill
    BY <1>5, ExitOwns DEF Kill, Label, Pointers
  <1>6. CASE UNCHANGED vars
    BY <1>6 DEF vars, Owned, Pointers
  <1> QED BY <1>1, <1>2, <1>3, <1>4, <1>5, <1>6 DEF Next, Step

THEOREM OwnInvariant == Spec => []OwnInv
  <1>1. Init => OwnInv
    BY DEF Init, OwnInv, Owned, Pointers, Label, Resource
  <1> QED BY <1>1, OwnStep, PTL DEF Spec

\* Every stream is closed and every block freed exactly once, whatever fails.
THEOREM AllReleasedOnce == Spec => []ReleasedOnce
  <1>1. OwnInv => ReleasedOnce
    BY DEF OwnInv, Owned, Pointers, ReleasedOnce
  <1> QED BY <1>1, OwnInvariant, PTL

(***************************************************************************)
(* Which files are this run's: FilesInv                                    *)
(***************************************************************************)

LEMMA SetFile ==
  ASSUME disk \in Disk, NEW f \in {"output", "tmp"}, NEW file \in File, disk' = [disk EXCEPT ![f] = file]
  PROVE  /\ disk' \in Disk /\ disk'.input = disk.input /\ disk'[f] = file
         /\ \A g \in {"output", "tmp"} \ {f} : disk'[g] = disk[g]
  BY DEF Disk

\* The files and buffers after any step
LEMMA DiskType ==
  FilesInv /\ [Next]_vars =>
    /\ disk' \in Disk /\ buf' \in [output : Nat, tmp : Nat]
    /\ disk'.input = disk.input \/ Edit
  <1> SUFFICES ASSUME FilesInv, [Next]_vars
               PROVE  /\ disk' \in Disk /\ buf' \in [output : Nat, tmp : Nat]
                      /\ disk'.input = disk.input \/ Edit
    OBVIOUS
  <1>0. /\ TypeOK /\ Buffers /\ Files /\ Buffered("output") /\ Buffered("tmp")
        /\ disk \in Disk /\ buf \in [output : Nat, tmp : Nat]
    BY DEF FilesInv, Buffers, TypeOK
  <1>1. CASE UNCHANGED <<disk, buf>>
    BY <1>0, <1>1
  <1>2. CASE Edit
    BY <1>0, <1>2 DEF Edit, Disk
  <1>3. CASE OpenOut \/ OpenTmp
    <2>1. disk.input \in Source
      BY <1>0, <1>3 DEF OpenOut, OpenTmp, Goto, Files, Opening, Compiling, Generating, IsOfInput
    <2>2. Part(disk.input, 0) \in File
      BY <2>1, FilesAre
    <2> QED BY <1>0, <1>3, <2>2, SetFile DEF OpenOut, OpenTmp
  <1>4. CASE RemoveOutput \/ RemoveTmp
    BY <1>0, <1>4, SetFile, FilesAre DEF RemoveOutput, RemoveTmp
  <1>5. CASE CloseOut \/ CloseOutFails \/ CloseStreams \/ CloseTmp \/ Rewind \/ RewindFails
    BY <1>0, <1>5, WriteOutType DEF CloseOut, CloseOutFails, CloseStreams, CloseTmp, Rewind,
       RewindFails
  <1>6. CASE Emit
    <2>1. IsOfInput("tmp") /\ PrintLine("tmp") /\ Printed("tmp") < Length[disk.input]
      BY <1>0, <1>6 DEF Emit, Goto, Files, Stages
    <2> QED BY <1>0, <2>1, PrintType, FilesAre DEF IsOfInput
  <1>7. CASE Copy
    <2>1. IsOfInput("output") /\ PrintLine("output") /\ Printed("output") < Length[disk.input]
      BY <1>0, <1>7, FilesAre DEF Copy, Goto, Files, Stages, Compiling, Generating, TypeOK,
         Printed, IsOfInput, Disk, File
    <2> QED BY <1>0, <2>1, PrintType, FilesAre DEF IsOfInput
  <1>8. CASE Kill
    BY <1>0, <1>8 DEF Kill
  <1> QED BY <1>1, <1>2, <1>3, <1>4, <1>5, <1>6, <1>7, <1>8 DEF Next, Step, main, compile_file,
          quad_generate, vars, files, Start, Refuse, OpenIn, OpenInFails, MakeOutputPath,
          MakeOutputPathFails, OpenOutFails, Parse, ParseFails, YY_FATAL_ERROR, Check, CheckFails,
          MakeGeneratorPath, MakeTmpPath, MakePathFails, OpenTmpFails, EmitFails, MapLabels,
          MapLabelsFails, CopyFails, Finalized

\* Which actions change what
LEMMA Frame ==
  [Next]_vars =>
    /\ Start \/ Refuse \/ UNCHANGED <<debug_progress, last>>
    /\ Rewind \/ RewindFails \/ UNCHANGED readable
    /\ Start \/ CloseOut \/ UNCHANGED delete
    /\ Start \/ CopyFails \/ Finalized \/ UNCHANGED rc
    /\ Edit \/ Start \/ Refuse \/ Kill \/ RemoveOutput \/ YY_FATAL_ERROR \/ UNCHANGED exit_code
  BY DEF Next, Step, main, compile_file, quad_generate, vars, files, locals, invocation, Edit,
         Start, Refuse, Kill, OpenIn, OpenInFails, MakeOutputPath, MakeOutputPathFails,
         OpenOut, OpenOutFails, CloseOut, CloseOutFails, CloseStreams, RemoveOutput,
         Parse, ParseFails, YY_FATAL_ERROR, Check, CheckFails, MakeGeneratorPath,
         MakeTmpPath, MakePathFails, OpenTmp, OpenTmpFails, Emit, EmitFails, Rewind,
         RewindFails, MapLabels, MapLabelsFails, Copy, CopyFails, Finalized, CloseTmp,
         RemoveTmp

LEMMA TypeStep == FilesInv /\ [Next]_vars => TypeOK'
  <1> SUFFICES ASSUME FilesInv, [Next]_vars PROVE TypeOK'
    OBVIOUS
  <1>0. TypeOK /\ OwnInv' /\ disk' \in Disk /\ buf' \in [output : Nat, tmp : Nat]
    BY OwnStep, DiskType DEF FilesInv
  <1>1. readable' \in Nat
    <2>1. CASE Rewind
      BY <1>0, <2>1, FilesAre DEF Rewind, Goto, FilesInv, Files, Stages, IsOfInput
    <2>2. CASE RewindFails
      BY <1>0, <2>2 DEF RewindFails, TypeOK, Disk, File
    <2> QED BY <1>0, <2>1, <2>2, Frame DEF TypeOK
  <1>2. debug_progress' \in BOOLEAN /\ last' \in [output : File, tmp : File, exit_code : ExitCode]
    <2>1. disk.output \in File /\ disk.tmp \in File /\ exit_code \in ExitCode
      BY <1>0 DEF TypeOK, Disk
    <2> QED BY <1>0, <2>1, Frame DEF TypeOK, Start, Refuse
  <1>3. delete' \in BOOLEAN /\ rc' \in {0, 1}
    BY <1>0, Frame DEF TypeOK, Start, CloseOut, CopyFails, Finalized
  <1>4. exit_code' \in ExitCode
    BY <1>0, Frame, Constants DEF TypeOK, Edit, Start, Refuse, Kill, RemoveOutput,
       YY_FATAL_ERROR
  <1> QED BY <1>0, <1>1, <1>2, <1>3, <1>4 DEF TypeOK, OwnInv

LEMMA BufferedStep ==
  ASSUME FilesInv, [Next]_vars, NEW f \in {"output", "tmp"}
  PROVE  Buffered(f)'
  <1>0. /\ TypeOK /\ Buffers /\ Files /\ Buffered(f)
        /\ disk \in Disk /\ buf \in [output : Nat, tmp : Nat]
        /\ disk[f] \in File /\ buf[f] \in Nat /\ disk[f].of \in Source \cup {NoSource} /\ disk[f].lines \in Nat
    BY DEF FilesInv, Buffers, TypeOK, Disk, File
  <1>1. CASE UNCHANGED <<disk[f], buf[f]>>
    BY <1>0, <1>1 DEF Buffered, Printed
  <1>2. CASE Edit
    <2>1. UNCHANGED <<disk[f], buf[f]>>
      BY <1>0, <1>2 DEF Edit, Disk
    <2> QED BY <1>1, <2>1
  <1>3. CASE OpenOut \/ OpenTmp
    <2>1. disk.input \in Source
      BY <1>0, <1>3 DEF OpenOut, OpenTmp, Goto, Files, Opening, Compiling, Generating, IsOfInput
    <2>2. Part(disk.input, 0) \in File
      BY <2>1, FilesAre
    <2>3. UNCHANGED buf /\ (disk'[f] = Part(disk.input, 0) \/ UNCHANGED disk[f])
      BY <1>0, <1>3, <2>2, SetFile DEF OpenOut, OpenTmp, files
    <2>4. (OpenOut /\ f = "output") \/ (OpenTmp /\ f = "tmp") => buf[f] = 0
      BY <1>0 DEF OpenOut, OpenTmp, Goto, Buffers
    <2>5. UNCHANGED disk[f] \/ (OpenOut /\ f = "output") \/ (OpenTmp /\ f = "tmp")
      BY <1>0, <1>3, <2>2, SetFile DEF OpenOut, OpenTmp
    <2> QED BY <1>1, <2>1, <2>3, <2>4, <2>5, FilesAre, FileNames DEF Buffered, Printed
  <1>4. CASE RemoveOutput \/ RemoveTmp
    <2>1. UNCHANGED buf /\ (disk'[f] = Absent \/ UNCHANGED disk[f])
      BY <1>0, <1>4, SetFile, FilesAre DEF RemoveOutput, RemoveTmp, files
    <2>2. (RemoveOutput /\ f = "output") \/ (RemoveTmp /\ f = "tmp") => buf[f] = 0
      BY <1>0 DEF RemoveOutput, RemoveTmp, Goto, Buffers
    <2>3. UNCHANGED disk[f] \/ (RemoveOutput /\ f = "output") \/ (RemoveTmp /\ f = "tmp")
      BY <1>0, <1>4, SetFile, FilesAre DEF RemoveOutput, RemoveTmp
    <2> QED BY <1>1, <2>1, <2>2, <2>3, FileNames DEF Buffered, Printed
  <1>5. CASE CloseOut \/ CloseOutFails \/ CloseStreams \/ CloseTmp \/ Rewind \/ RewindFails
    <2>1. UNCHANGED <<disk, buf>> \/ \E g \in {"output", "tmp"} : WriteOut(g) \/ Lose(g)
      BY <1>5 DEF CloseOut, CloseOutFails, CloseStreams, CloseTmp, Rewind, RewindFails
    <2>2. ASSUME NEW g \in {"output", "tmp"}, WriteOut(g) \/ Lose(g)
          PROVE  Buffered(f)'
      <3>1. CASE g = f
        <4>1. disk'[f].of = disk[f].of /\ buf'[f] = 0 /\ Printed(f)' <= Printed(f) /\ disk' \in Disk
          BY <1>0, <2>2, <3>1, WriteOutType
        <4>2. disk'[f].lines \in Nat
          BY <4>1 DEF Disk, File
        <4> QED BY <1>0, <4>1, <4>2, FilesAre DEF Buffered, Printed
      <3>2. CASE g # f
        <4>1. Buffered(g)
          BY <1>0 DEF Buffers
        <4> QED BY <1>0, <1>1, <2>2, <3>2, <4>1, WriteOutType
      <3> QED BY <3>1, <3>2
    <2> QED BY <1>1, <2>1, <2>2
  <1>6. CASE Emit \/ Copy
    <2>1. PICK g \in {"output", "tmp"} : IsOfInput(g) /\ PrintLine(g) /\ Printed(g) < Length[disk.input]
      BY <1>0, <1>6, FilesAre DEF Emit, Copy, Goto, Files, Stages, Compiling, Generating,
         TypeOK, Printed, IsOfInput, Disk, File
    <2>2. Buffered(g)
      BY <1>0 DEF Buffers
    <2>3. /\ disk'[g].of = disk[g].of /\ Printed(g)' = Printed(g) + 1
          /\ \A h \in {"output", "tmp"} \ {g} : disk'[h] = disk[h] /\ buf'[h] = buf[h]
      BY <1>0, <2>1, <2>2, PrintType, FilesAre DEF IsOfInput
    <2>4. CASE f = g
      BY <1>0, <2>1, <2>3, <2>4, FilesAre DEF IsOfInput, Buffered, Printed
    <2> QED BY <1>1, <2>3, <2>4
  <1>7. CASE Kill
    BY <1>0, <1>7, FilesAre DEF Kill, Buffered, Printed, File
  <1> QED BY <1>1, <1>2, <1>3, <1>4, <1>5, <1>6, <1>7 DEF Next, Step, main, compile_file,
     quad_generate, vars, files, Start, Refuse, OpenIn, OpenInFails, MakeOutputPath,
     MakeOutputPathFails, OpenOutFails, Parse, ParseFails, YY_FATAL_ERROR, Check, CheckFails,
     MakeGeneratorPath, MakeTmpPath, MakePathFails, OpenTmpFails, EmitFails, MapLabels,
     MapLabelsFails, CopyFails, Finalized

LEMMA BuffersStep == FilesInv /\ [Next]_vars => Buffers'
  <1> SUFFICES ASSUME FilesInv, [Next]_vars PROVE Buffers'
    OBVIOUS
  <1>0. /\ TypeOK /\ Buffers /\ Files /\ Pointers
        /\ Buffered("output") /\ Buffered("tmp") /\ buf \in [output : Nat, tmp : Nat]
    BY DEF FilesInv, OwnInv, Buffers, TypeOK
  <1>1. Buffered("output")' /\ Buffered("tmp")'
    BY BufferedStep
  <1> DEFINE Output == {"pass_2", "gen_cleanup", "gen_remove", "close_out", "cleanup"}
             Tmp == {"first_stage", "gen_cleanup"}
  <1>2. pc' \notin Output => buf'.output = 0
    BY <1>0, WriteOutType DEF Buffers, Goto, Files, Ending, Pointers, PrintLine, WriteOut, Lose,
       Next, Step, main, compile_file, quad_generate, vars, files, Start, Refuse, OpenIn,
       OpenInFails, MakeOutputPath, MakeOutputPathFails, OpenOutFails, Parse, ParseFails,
       YY_FATAL_ERROR, Check, CheckFails, MakeGeneratorPath, MakeTmpPath, MakePathFails,
       OpenTmpFails, EmitFails, MapLabels, MapLabelsFails, CopyFails, Finalized, Edit, Kill,
       OpenOut, CloseOut, CloseOutFails, CloseStreams, RemoveOutput, OpenTmp, Emit, Rewind,
       RewindFails, Copy, CloseTmp, RemoveTmp
  <1>3. pc' \notin Tmp => buf'.tmp = 0
    BY <1>0, WriteOutType DEF Buffers, Goto, Files, Ending, Pointers, PrintLine, WriteOut, Lose,
       Next, Step, main, compile_file, quad_generate, vars, files, Start, Refuse, OpenIn,
       OpenInFails, MakeOutputPath, MakeOutputPathFails, OpenOutFails, Parse, ParseFails,
       YY_FATAL_ERROR, Check, CheckFails, MakeGeneratorPath, MakeTmpPath, MakePathFails,
       OpenTmpFails, EmitFails, MapLabels, MapLabelsFails, CopyFails, Finalized, Edit, Kill,
       OpenOut, CloseOut, CloseOutFails, CloseStreams, RemoveOutput, OpenTmp, Emit, Rewind,
       RewindFails, Copy, CloseTmp, RemoveTmp
  <1> QED BY <1>1, <1>2, <1>3 DEF Buffers

LEMMA FilesStep == FilesInv /\ [Next]_vars => Files'
  <1> SUFFICES ASSUME FilesInv, [Next]_vars PROVE Files'
    OBVIOUS
  <1>0. /\ Files /\ Pointers /\ TypeOK
        /\ Buffered("output") /\ Buffered("tmp")
        /\ disk.input \in Source \cup {NoSource} /\ disk \in Disk /\ buf \in [output : Nat, tmp : Nat]
        /\ delete \in BOOLEAN
        /\ pc \notin {"pass_2", "gen_cleanup", "gen_remove", "close_out", "cleanup"} => buf.output = 0
        /\ pc \notin {"first_stage", "gen_cleanup"} => buf.tmp = 0
    BY DEF FilesInv, OwnInv, Buffers, TypeOK, Disk
  <1> USE <1>0 DEF Goto, files, memory, locals, invocation
  <1>1. CASE main
    <2> USE DEF Unwritten, Files, Opening, Compiling, Generating, Stages, Ending, IsOfInput
    <2>1. CASE OpenIn
      BY <2>1 DEF OpenIn, Acquire, Pointers, MainHolds
    <2>2. CASE OpenInFails
      BY <2>2 DEF OpenInFails, Pointers, MainHolds
    <2>3. CASE MakeOutputPath
      BY <2>3 DEF MakeOutputPath, Acquire, Pointers, MainHolds
    <2>4. CASE MakeOutputPathFails
      BY <2>4 DEF MakeOutputPathFails, Pointers, MainHolds
    <2>5. CASE OpenOut
      BY <2>5, SetFile, FilesAre, FileNames DEF OpenOut, Acquire, Pointers, MainHolds
    <2>6. CASE OpenOutFails
      BY <2>6 DEF OpenOutFails, Pointers, MainHolds
    <2>7. CASE CloseOut
      BY <2>7, WriteOutType, FilesAre DEF CloseOut, Release, Pointers, MainHolds
    <2>8. CASE CloseOutFails
      BY <2>8, WriteOutType, FilesAre DEF CloseOutFails, Release, Pointers, MainHolds
    <2>9. CASE CloseStreams
      <3>1. CASE "out" \in ptr
        <4>1. disk'.input = disk.input /\ disk'.output.of = disk.output.of /\ buf'.output = 0
          BY <2>9, <3>1, WriteOutType DEF CloseStreams
        <4> QED BY <2>9, <3>1, <4>1 DEF CloseStreams, Release
      <3>2. CASE "out" \notin ptr
        BY <2>9, <3>2 DEF CloseStreams, Release
      <3> QED BY <3>1, <3>2
    <2>10. CASE RemoveOutput
      BY <2>10, SetFile, FilesAre DEF RemoveOutput, Pointers, MainHolds
    <2> QED BY <1>1, <2>1, <2>2, <2>3, <2>4, <2>5, <2>6, <2>7, <2>8, <2>9, <2>10 DEF main
  <1>2. CASE compile_file
    <2> USE DEF Unwritten, Files, Opening, Compiling, Generating, Stages, Ending, IsOfInput
    <2>1. CASE Parse
      BY <2>1 DEF Parse
    <2>2. CASE ParseFails
      BY <2>2 DEF ParseFails, Pointers, MainHolds
    <2>3. CASE YY_FATAL_ERROR
      BY <2>3 DEF YY_FATAL_ERROR
    <2>4. CASE Check
      BY <2>4 DEF Check
    <2>5. CASE CheckFails
      BY <2>5 DEF CheckFails, Release, Pointers, MainHolds
    <2> QED BY <1>2, <2>1, <2>2, <2>3, <2>4, <2>5 DEF compile_file
  <1>3. CASE quad_generate
    <2> USE DEF Unwritten, Files, Opening, Compiling, Generating, Stages, Ending, IsOfInput
    <2>1. CASE MakeGeneratorPath
      BY <2>1 DEF MakeGeneratorPath
    <2>2. CASE MakeTmpPath
      BY <2>2 DEF MakeTmpPath
    <2>3. CASE MakePathFails
      BY <2>3 DEF MakePathFails, Pointers, MainHolds
    <2>4. CASE OpenTmp
      BY <2>4, SetFile, FilesAre, FileNames DEF OpenTmp
    <2>5. CASE OpenTmpFails
      BY <2>5 DEF OpenTmpFails, Pointers, MainHolds
    <2>6. CASE Emit
      BY <2>6, PrintType, FilesAre DEF Emit
    <2>7. CASE EmitFails
      BY <2>7 DEF EmitFails, Pointers, MainHolds, Resource, Stream
    <2>8. CASE Rewind
      BY <2>8, WriteOutType, FilesAre DEF Rewind, Printed, Buffered, Disk, File
    <2>9. CASE RewindFails
      BY <2>9, WriteOutType, FilesAre DEF RewindFails, Printed, Buffered, Disk, File
    <2>10. CASE MapLabels
      BY <2>10 DEF MapLabels, Printed, Buffered, Disk, File, TypeOK
    <2>11. CASE MapLabelsFails
      BY <2>11 DEF MapLabelsFails, Pointers, MainHolds
    <2>12. CASE Copy
      <3>1. IsOfInput("output") /\ Printed("output") < readable /\ readable <= Length[disk.input] /\ PrintLine("output")
        BY <2>12 DEF Copy
      <3>2. Printed("output") < Length[disk.input] /\ Printed("output") \in Nat /\ readable \in Nat
        BY <3>1, FilesAre DEF Printed, TypeOK, Disk, File
      <3>3. /\ disk'.input = disk.input /\ disk'.output.of = disk.output.of /\ disk'.tmp = disk.tmp
            /\ Printed("output")' = Printed("output") + 1
        BY <3>1, <3>2, PrintType, FilesAre
      <3> QED BY <2>12, <3>1, <3>2, <3>3 DEF Copy
    <2>13. CASE CopyFails
      BY <2>13 DEF CopyFails, Pointers, MainHolds
    <2>14. CASE Finalized
      BY <2>14 DEF Finalized, Pointers, MainHolds, Printed, Buffered, Disk, File
    <2>15. CASE CloseTmp
      BY <2>15, WriteOutType, FilesAre DEF CloseTmp, Release, Pointers, MainHolds
    <2>16. CASE RemoveTmp
      BY <2>16, SetFile, FilesAre DEF RemoveTmp, Release, Pointers, MainHolds
    <2> QED BY <1>3, <2>1, <2>2, <2>3, <2>4, <2>5, <2>6, <2>7, <2>8, <2>9, <2>10, <2>11,
       <2>12, <2>13, <2>14, <2>15, <2>16 DEF quad_generate
  <1>4. CASE Edit
    BY <1>4, Constants DEF Edit, Unwritten, Files, Opening, Compiling, Generating, Stages,
       Ending, IsOfInput, Disk
  <1>5. CASE Start
    BY <1>5, Constants DEF Start, Unwritten, Files, Opening, Compiling, Generating, Stages,
       Ending, IsOfInput
  <1>6. CASE Refuse
    BY <1>6, Constants DEF Refuse, Unwritten, Files, Opening, Compiling, Generating, Stages,
       Ending, IsOfInput
  <1>7. CASE Kill
    BY <1>7, Constants DEF Kill, Unwritten, Files, Opening, Compiling, Generating, Stages,
       Ending, IsOfInput
  <1>8. CASE UNCHANGED vars
    BY <1>8 DEF vars, Printed, Unwritten, Files, Opening, Compiling, Generating, Stages,
       Ending, IsOfInput
  <1> QED BY <1>1, <1>2, <1>3, <1>4, <1>5, <1>6, <1>7, <1>8 DEF Next, Step

THEOREM FilesInvariant == Spec => []FilesInv
  <1>1. Init => FilesInv
    <2> SUFFICES ASSUME Init PROVE FilesInv
      OBVIOUS
    <2>1. Absent \in File /\ Absent.of = NoSource
      BY FilesAre, FileNames
    <2>2. TypeOK
      BY <2>1, Constants DEF Init, TypeOK, Disk, Label, Resource
    <2>3. OwnInv
      BY DEF Init, OwnInv, Owned, Pointers, Label, Resource
    <2>4. Buffers
      BY <2>1 DEF Init, Buffers, Buffered
    <2>5. Files
      BY Constants DEF Init, Files, Opening, Compiling, Generating, Stages, Ending, Unwritten
    <2> QED BY <2>2, <2>3, <2>4, <2>5 DEF FilesInv
  <1>2. FilesInv /\ [Next]_vars => FilesInv'
    BY OwnStep, TypeStep, BuffersStep, FilesStep DEF FilesInv
  <1> QED BY <1>1, <1>2, PTL DEF Spec

\* The disk and the process have their types; no file grows beyond the code of
\* the source it was made from, whatever fails and however often cpq is run.
THEOREM TypeCorrect == Spec => []TypeOK
  BY FilesInvariant, PTL DEF FilesInv

\* An output that is reported is one of the input as it was compiled, never one
\* that an earlier run left there.
THEOREM ReportsOwnOutput == Spec => []OutputIsOfInput
  <1>1. FilesInv => OutputIsOfInput
    <2> SUFFICES ASSUME FilesInv, pc = "shell", exit_code = 0
                 PROVE  \E n \in 0 .. Length[disk.input] : disk.output = Part(disk.input, n)
      BY DEF OutputIsOfInput
    <2>1. IsOfInput("output") /\ disk.output \in File
      BY DEF FilesInv, Files, TypeOK, Disk
    <2>2. /\ disk.output = [of |-> disk.input, lines |-> disk.output.lines]
          /\ disk.output.lines \in 0 .. Length[disk.input]
      BY <2>1, FilesAre DEF IsOfInput, File
    <2> QED BY <2>2, FileNames
  <1> QED BY <1>1, FilesInvariant, PTL

(***************************************************************************)
(* When every fault is noticed: CompleteInv                                *)
(***************************************************************************)

Noticed == Fault \cap Unnoticed = {}

LEMMA CompleteStep == Noticed /\ FilesInv /\ FilesInv' /\ Complete /\ [Next]_vars => Complete'
  <1> SUFFICES ASSUME Noticed, FilesInv, FilesInv', Complete, [Next]_vars PROVE Complete'
    OBVIOUS
  <1>0. /\ Files /\ TypeOK /\ Buffered("output") /\ Buffered("tmp")
        /\ disk \in Disk /\ buf \in [output : Nat, tmp : Nat]
        /\ delete \in BOOLEAN /\ rc \in {0, 1} /\ exit_code \in ExitCode
        /\ pc \notin {"pass_2", "gen_cleanup", "gen_remove", "close_out", "cleanup"} => buf.output = 0
        /\ pc \notin {"first_stage", "gen_cleanup"} => buf.tmp = 0
        /\ Files'
    BY DEF FilesInv, Buffers, TypeOK
  <1>01. \A f \in Unnoticed : f \notin Fault
    BY DEF Noticed
  <1> USE <1>0, <1>01 DEF Goto, files, memory, locals, invocation, Unnoticed
  <1>1. CASE main
    <2> USE DEF Accepted, Complete, Ending
    <2>1. CASE OpenIn
      BY <2>1 DEF OpenIn, Files, Opening, Compiling, Generating, Stages, Unwritten, IsOfInput
    <2>2. CASE OpenInFails
      BY <2>2 DEF OpenInFails, Files, Opening, Compiling, Generating, Stages, Unwritten,
         IsOfInput
    <2>3. CASE MakeOutputPath
      BY <2>3 DEF MakeOutputPath, Files, Opening, Compiling, Generating, Stages, Unwritten,
         IsOfInput
    <2>4. CASE MakeOutputPathFails
      BY <2>4 DEF MakeOutputPathFails, Files, Opening, Compiling, Generating, Stages,
         Unwritten, IsOfInput
    <2>5. CASE OpenOut
      BY <2>5 DEF OpenOut, Files, Opening, Compiling, Generating, Stages, Unwritten, IsOfInput
    <2>6. CASE OpenOutFails
      BY <2>6 DEF OpenOutFails, Files, Opening, Compiling, Generating, Stages, Unwritten,
         IsOfInput
    <2>7. CASE CloseOut
      BY <2>7, WriteOutType, FilesAre DEF CloseOut, Printed, Files, Opening, Compiling,
         Generating, Stages, Unwritten, IsOfInput
    <2>8. CASE CloseOutFails
      BY <2>8, WriteOutType, FilesAre DEF CloseOutFails, Files, Opening, Compiling,
         Generating, Stages, Unwritten, IsOfInput
    <2>9. CASE CloseStreams
      BY <2>9, WriteOutType, FilesAre DEF CloseStreams, Printed, Files, Opening, Compiling,
         Generating, Stages, Unwritten, IsOfInput
    <2>10. CASE RemoveOutput
      BY <2>10 DEF RemoveOutput, Printed, Files, Opening, Compiling, Generating, Stages,
         Unwritten, IsOfInput
    <2> QED BY <1>1, <2>1, <2>2, <2>3, <2>4, <2>5, <2>6, <2>7, <2>8, <2>9, <2>10 DEF main
  <1>2. CASE compile_file
    <2> USE DEF Accepted, Complete, Ending
    <2>1. CASE Parse
      BY <2>1 DEF Parse, Files, Opening, Compiling, Generating, Stages, Unwritten, IsOfInput
    <2>2. CASE ParseFails
      BY <2>2 DEF ParseFails, Files, Opening, Compiling, Generating, Stages, Unwritten,
         IsOfInput
    <2>3. CASE YY_FATAL_ERROR
      BY <2>3 DEF YY_FATAL_ERROR, Files, Opening, Compiling, Generating, Stages, Unwritten,
         IsOfInput
    <2>4. CASE Check
      BY <2>4 DEF Check, Files, Opening, Compiling, Generating, Stages, Unwritten, IsOfInput
    <2>5. CASE CheckFails
      BY <2>5 DEF CheckFails, Files, Opening, Compiling, Generating, Stages, Unwritten,
         IsOfInput
    <2> QED BY <1>2, <2>1, <2>2, <2>3, <2>4, <2>5 DEF compile_file
  <1>3. CASE quad_generate
    <2> USE DEF Accepted, Complete, Ending
    <2>1. CASE MakeGeneratorPath
      BY <2>1 DEF MakeGeneratorPath, Files, Opening, Compiling, Generating, Stages, Unwritten,
         IsOfInput
    <2>2. CASE MakeTmpPath
      BY <2>2 DEF MakeTmpPath, Files, Opening, Compiling, Generating, Stages, Unwritten,
         IsOfInput
    <2>3. CASE MakePathFails
      BY <2>3 DEF MakePathFails, Files, Opening, Compiling, Generating, Stages, Unwritten,
         IsOfInput
    <2>4. CASE OpenTmp
      BY <2>4 DEF OpenTmp, Files, Opening, Compiling, Generating, Stages, Unwritten, IsOfInput
    <2>5. CASE OpenTmpFails
      BY <2>5 DEF OpenTmpFails, Files, Opening, Compiling, Generating, Stages, Unwritten,
         IsOfInput
    <2>6. CASE Emit
      BY <2>6, PrintType, FilesAre DEF Emit, IsOfInput, Files, Opening, Compiling, Generating,
         Stages, Unwritten, IsOfInput
    <2>7. CASE EmitFails
      BY <2>7 DEF EmitFails, Files, Opening, Compiling, Generating, Stages, Unwritten, IsOfInput
    <2>8. CASE Rewind
      <3>1. IsOfInput("tmp") /\ Printed("tmp") = Length[disk.input]
        BY <2>8 DEF Rewind, Files, Stages
      <3>2. /\ disk'.input = disk.input /\ disk'.tmp.of = disk.tmp.of /\ disk' \in Disk
            /\ buf'.tmp = 0 /\ Printed("tmp")' = Printed("tmp")
        BY <2>8, WriteOutType DEF Rewind
      <3>3. disk'.tmp.lines = Length[disk.input] /\ disk'.tmp = [of |-> disk'.tmp.of, lines |-> disk'.tmp.lines]
        BY <3>1, <3>2, FilesAre DEF Printed, Disk, File, IsOfInput
      <3>4. disk'.tmp = Whole(disk'.input)
        BY <3>1, <3>2, <3>3, FileNames DEF IsOfInput
      <3> QED BY <2>8, <3>2, <3>4 DEF Rewind
    <2>9. CASE RewindFails
      BY <2>9, WriteOutType, FilesAre DEF RewindFails, Files, Opening, Compiling, Generating,
         Stages, Unwritten, IsOfInput
    <2>10. CASE MapLabels
      BY <2>10 DEF MapLabels, Files, Opening, Compiling, Generating, Stages, Unwritten,
         IsOfInput
    <2>11. CASE MapLabelsFails
      BY <2>11 DEF MapLabelsFails, Files, Opening, Compiling, Generating, Stages, Unwritten,
         IsOfInput
    <2>12. CASE Copy
      <3>1. IsOfInput("output") /\ PrintLine("output") /\ Printed("output") < Length[disk.input]
        BY <2>12, FilesAre DEF Copy, Files, Compiling, Generating, Stages, IsOfInput
      <3>2. disk'.input = disk.input /\ disk'.tmp = disk.tmp
        BY <3>1, PrintType, FilesAre DEF IsOfInput
      <3> QED BY <2>12, <3>2 DEF Copy
    <2>13. CASE CopyFails
      BY <2>13, FilesAre DEF CopyFails, Files, Opening, Compiling, Generating, Stages,
         Unwritten, IsOfInput, Printed, TypeOK
    <2>14. CASE Finalized
      BY <2>14, FilesAre DEF Finalized, Files, Opening, Compiling, Generating, Stages,
         Unwritten, IsOfInput, Printed, TypeOK
    <2>15. CASE CloseTmp
      BY <2>15, WriteOutType, FilesAre DEF CloseTmp, Printed, Files, Opening, Compiling,
         Generating, Stages, Unwritten, IsOfInput
    <2>16. CASE RemoveTmp
      BY <2>16, SetFile, FilesAre DEF RemoveTmp, Printed, Files, Opening, Compiling,
         Generating, Stages, Unwritten, IsOfInput
    <2> QED BY <1>3, <2>1, <2>2, <2>3, <2>4, <2>5, <2>6, <2>7, <2>8, <2>9, <2>10, <2>11,
       <2>12, <2>13, <2>14, <2>15, <2>16 DEF quad_generate
  <1>4. CASE Edit \/ Start \/ Refuse \/ Kill
    BY <1>4, Constants DEF Edit, Start, Refuse, Kill, Accepted, Complete, Ending
  <1>5. CASE UNCHANGED vars
    BY <1>5 DEF vars, Printed, Accepted, Complete, Ending
  <1> QED BY <1>1, <1>2, <1>3, <1>4, <1>5 DEF Next, Step

LEMMA TemporaryStep ==
  Noticed /\ FilesInv /\ FilesInv' /\ Complete /\ Temporary /\ [Next]_vars => Temporary'
  <1> SUFFICES ASSUME Noticed, FilesInv, FilesInv', Complete, Temporary, [Next]_vars PROVE Temporary'
    OBVIOUS
  <1>0. /\ Files /\ TypeOK /\ Pointers /\ Pointers' /\ Temporary /\ Complete
        /\ Buffered("output") /\ Buffered("tmp")
        /\ disk \in Disk /\ buf \in [output : Nat, tmp : Nat]
        /\ delete \in BOOLEAN /\ rc \in {0, 1} /\ debug_progress \in BOOLEAN
        /\ pc \notin {"first_stage", "gen_cleanup"} => buf.tmp = 0
        /\ pc \in Opening \cup Unwritten \cup {"pass_2"} => rc = 1
        /\ pc \in Opening \cup Compiling => delete
    BY DEF FilesInv, OwnInv, Buffers, TypeOK, Files
  <1>01. \A f \in Unnoticed : f \notin Fault
    BY DEF Noticed
  <1> USE <1>0, <1>01 DEF Goto, files, memory, locals, invocation, Unnoticed
  <1>1. CASE main
    <2> USE DEF Temporary, Opening, Ending, Compiling, Generating, Stages, Unwritten
    <2>1. CASE OpenIn
      BY <2>1 DEF OpenIn
    <2>2. CASE OpenInFails
      BY <2>2 DEF OpenInFails
    <2>3. CASE MakeOutputPath
      BY <2>3 DEF MakeOutputPath
    <2>4. CASE MakeOutputPathFails
      BY <2>4 DEF MakeOutputPathFails
    <2>5. CASE OpenOut
      BY <2>5, SetFile, FilesAre DEF OpenOut, Files
    <2>6. CASE OpenOutFails
      BY <2>6 DEF OpenOutFails
    <2>7. CASE CloseOut
      BY <2>7, WriteOutType, FilesAre DEF CloseOut
    <2>8. CASE CloseOutFails
      BY <2>8, WriteOutType, FilesAre DEF CloseOutFails
    <2>9. CASE CloseStreams
      BY <2>9, WriteOutType, FilesAre DEF CloseStreams
    <2>10. CASE RemoveOutput
      BY <2>10 DEF RemoveOutput
    <2> QED BY <1>1, <2>1, <2>2, <2>3, <2>4, <2>5, <2>6, <2>7, <2>8, <2>9, <2>10 DEF main
  <1>2. CASE compile_file
    <2> USE DEF Temporary, Opening, Ending, Compiling, Generating, Stages, Unwritten
    <2>1. CASE Parse
      BY <2>1 DEF Parse
    <2>2. CASE ParseFails
      BY <2>2 DEF ParseFails
    <2>3. CASE YY_FATAL_ERROR
      BY <2>3 DEF YY_FATAL_ERROR
    <2>4. CASE Check
      BY <2>4 DEF Check
    <2>5. CASE CheckFails
      BY <2>5 DEF CheckFails
    <2> QED BY <1>2, <2>1, <2>2, <2>3, <2>4, <2>5 DEF compile_file
  <1>3. CASE quad_generate
    <2> USE DEF Temporary, Opening, Ending, Compiling, Generating, Stages, Unwritten
    <2>1. CASE MakeGeneratorPath
      BY <2>1 DEF MakeGeneratorPath
    <2>2. CASE MakeTmpPath
      BY <2>2 DEF MakeTmpPath
    <2>3. CASE MakePathFails
      BY <2>3 DEF MakePathFails, Pointers, Resource, Stream, MainHolds
    <2>4. CASE OpenTmp
      BY <2>4 DEF OpenTmp
    <2>5. CASE OpenTmpFails
      BY <2>5 DEF OpenTmpFails, Pointers, Resource, Stream, MainHolds
    <2>6. CASE Emit
      BY <2>6 DEF Emit
    <2>7. CASE EmitFails
      BY <2>7 DEF EmitFails, Pointers, Resource, Stream, MainHolds
    <2>8. CASE Rewind
      BY <2>8, WriteOutType, FilesAre DEF Rewind
    <2>9. CASE RewindFails
      BY <2>9, WriteOutType, FilesAre DEF RewindFails
    <2>10. CASE MapLabels
      BY <2>10 DEF MapLabels, Complete
    <2>11. CASE MapLabelsFails
      BY <2>11 DEF MapLabelsFails, Complete, Pointers, Resource, Stream, MainHolds
    <2>12. CASE Copy
      BY <2>12 DEF Copy, Complete
    <2>13. CASE CopyFails
      BY <2>13 DEF CopyFails, Complete, Pointers, Resource, Stream, MainHolds
    <2>14. CASE Finalized
      BY <2>14 DEF Finalized, Complete, Pointers, Resource, Stream, MainHolds
    <2>15. CASE CloseTmp
      <3>1. "tmp_path" \in ptr' <=> "tmp_path" \in ptr
        BY <2>15 DEF CloseTmp, Release
      <3>2. disk'.input = disk.input /\ disk' \in Disk
        BY <2>15, WriteOutType DEF CloseTmp
      <3>3. CASE "tmp_path" \notin ptr
        BY <2>15, <3>1, <3>3 DEF CloseTmp, Pointers
      <3>4. CASE rc = 0
        <4>1. disk.tmp = Whole(disk.input) /\ disk.input \in Source /\ "tmp_path" \in ptr
          BY <2>15, <3>4 DEF CloseTmp, Files, IsOfInput
        <4>2. buf.tmp = 0
          BY <4>1, FileNames, FilesAre DEF Buffered, Printed
        <4>3. disk'.tmp = disk.tmp
          BY <2>15, <4>1, <4>2, FileNames, FilesAre DEF CloseTmp, WriteOut, Lose, Disk, File
        <4> QED BY <2>15, <3>1, <3>2, <4>1, <4>3 DEF CloseTmp
      <3> QED BY <2>15, <3>1, <3>3, <3>4 DEF CloseTmp
    <2>16. CASE RemoveTmp
      BY <2>16, SetFile, FilesAre DEF RemoveTmp, Release
    <2> QED BY <1>3, <2>1, <2>2, <2>3, <2>4, <2>5, <2>6, <2>7, <2>8, <2>9, <2>10, <2>11,
       <2>12, <2>13, <2>14, <2>15, <2>16 DEF quad_generate
  <1>4. CASE Edit \/ Start \/ Refuse \/ Kill
    BY <1>4 DEF Edit, Start, Refuse, Kill, Temporary, Opening, Ending, Compiling, Generating,
       Stages, Unwritten
  <1>5. CASE UNCHANGED vars
    BY <1>5 DEF vars, Temporary, Opening, Ending, Compiling, Generating, Stages, Unwritten
  <1> QED BY <1>1, <1>2, <1>3, <1>4, <1>5 DEF Next, Step

THEOREM CompleteInvariant ==
  ASSUME Noticed
  PROVE  Spec => []CompleteInv
  <1>1. Init => Complete /\ Temporary
    BY DEF Init, Complete, Accepted, Temporary, NoExit, C!NoExit, Opening, Ending
  <1>2. FilesInv /\ FilesInv' /\ Complete /\ Temporary /\ [Next]_vars => Complete' /\ Temporary'
    BY CompleteStep, TemporaryStep
  <1> QED BY <1>1, <1>2, FilesInvariant, PTL DEF Spec, CompleteInv

LEMMA AtExit ==
  ASSUME CompleteInv, (pc = "shell" /\ exit_code = 0) \/ (pc = "remove" /\ ~delete)
  PROVE  disk.input \in Source /\ Verdict[disk.input] = "good" /\ disk.output = Whole(disk.input)
  <1>1. IsOfInput("output") /\ buf.output = 0
    BY DEF CompleteInv, FilesInv, Files, Buffers, Ending
  <1>2. Verdict[disk.input] = "good" /\ Printed("output") = Length[disk.input]
    BY DEF CompleteInv, Complete, Accepted, Ending
  <1>3. disk.output \in File
    BY DEF CompleteInv, FilesInv, TypeOK, Disk
  <1> QED BY <1>1, <1>2, <1>3, FilesAre, FileNames DEF IsOfInput, Printed, File

\* When every fault is noticed, exit code 0 means that the output is the whole
\* code of the input.
THEOREM SuccessIsComplete ==
  ASSUME Noticed
  PROVE  Spec => []SuccessMeansComplete
  <1>1. CompleteInv => SuccessMeansComplete
    BY AtExit DEF SuccessMeansComplete
  <1> QED BY <1>1, CompleteInvariant, PTL

LEMMA WithinRun ==
  ASSUME Noticed, CompleteInv, CompleteInv', Step, ~RemoveOutput
  PROVE  pc # "shell" /\ pc' # "shell" /\ UNCHANGED <<disk.input, debug_progress, last>>
  <1>1. ~YY_FATAL_ERROR
    BY DEF Noticed, Unnoticed, YY_FATAL_ERROR
  <1>2. pc # "shell" /\ pc' # "shell"
    BY <1>1 DEF Goto, Step, main, compile_file, quad_generate, OpenIn, OpenInFails,
       MakeOutputPath, MakeOutputPathFails, OpenOut, OpenOutFails, CloseOut, CloseOutFails,
       CloseStreams, Parse, ParseFails, Check, CheckFails, MakeGeneratorPath, MakeTmpPath,
       MakePathFails, OpenTmp, OpenTmpFails, Emit, EmitFails, Rewind, RewindFails, MapLabels,
       MapLabelsFails, Copy, CopyFails, Finalized, CloseTmp, RemoveTmp
  <1>3. UNCHANGED <<debug_progress, last>>
    BY <1>2, Frame DEF Next, Start, Refuse, Goto
  <1>4. disk'.input = disk.input
    BY <1>2, DiskType DEF CompleteInv, Next, Edit
  <1> QED BY <1>2, <1>3, <1>4

LEMMA TmpAtExit ==
  Noticed /\ CompleteInv /\ CompleteInv' /\ TmpAsAsked /\ [Next]_vars => TmpAsAsked'
  <1> SUFFICES ASSUME Noticed, CompleteInv, CompleteInv', TmpAsAsked, [Next]_vars PROVE TmpAsAsked'
    OBVIOUS
  <1>0. TypeOK /\ Temporary /\ disk \in Disk /\ delete \in BOOLEAN
    BY DEF CompleteInv, FilesInv, TypeOK
  <1>1. CASE Edit \/ Start \/ Refuse \/ Kill
    BY <1>0, <1>1, Constants DEF TmpAsAsked, Edit, Start, Refuse, Kill, Goto, Disk, files
  <1>2. CASE Step /\ ~RemoveOutput
    BY <1>2, WithinRun DEF TmpAsAsked
  <1>3. CASE RemoveOutput
    <2>1. disk'.tmp = disk.tmp /\ disk'.input = disk.input
      BY <1>0, <1>3, SetFile, FilesAre DEF RemoveOutput
    <2>2. UNCHANGED <<debug_progress, last>> /\ pc = "remove" /\ exit_code' = IF delete THEN 1 ELSE 0
      BY <1>3 DEF RemoveOutput, Goto
    <2> QED BY <1>0, <2>1, <2>2 DEF TmpAsAsked, Temporary, Ending
  <1>4. CASE UNCHANGED vars
    BY <1>4 DEF vars, TmpAsAsked
  <1> QED BY <1>1, <1>2, <1>3, <1>4 DEF Next

\* When every fault is noticed, a successful run leaves a temporary file if and
\* only if --debug asks for it, and a run that fails leaves none of its own.
THEOREM TmpIsAsAsked ==
  ASSUME Noticed
  PROVE  Spec => []TmpAsAsked
  <1>1. Init => TmpAsAsked
    BY DEF Init, TmpAsAsked, NoExit, C!NoExit
  <1> QED BY <1>1, TmpAtExit, CompleteInvariant, PTL DEF Spec

\* Input, output and exit code as Compilation sees them
Output == IF pc = "shell" THEN disk.output ELSE last.output
ExitSeen == IF pc = "shell" THEN exit_code ELSE last.exit_code

LEMMA OneStep ==
  ASSUME Noticed, CompleteInv, CompleteInv', [Next]_vars
  PROVE  [C!Next]_<<disk.input, Output, ExitSeen>>
  <1>0. /\ Files /\ disk \in Disk /\ disk.output \in File /\ delete \in BOOLEAN
        /\ disk.input \in Source \cup {NoSource}
    BY DEF CompleteInv, FilesInv, TypeOK, Disk
  <1>1. CASE Edit
    BY <1>0, <1>1 DEF Edit, C!Next, C!Edit, Disk, NoExit, C!NoExit
  <1>2. CASE Start
    BY <1>2 DEF Start, Goto, files, Output, ExitSeen
  <1>3. CASE Refuse
    BY <1>3 DEF Refuse, files, C!Next, C!Fail
  <1>4. CASE Step /\ ~RemoveOutput
    BY <1>4, WithinRun DEF Output, ExitSeen
  <1>5. CASE RemoveOutput
    <2>1. /\ pc = "remove" /\ pc' = "shell" /\ exit_code' = IF delete THEN 1 ELSE 0
          /\ disk' = IF delete /\ "output_path" \in ptr THEN [disk EXCEPT !.output = Absent] ELSE disk
      BY <1>5 DEF RemoveOutput, Goto, Noticed, Unnoticed
    <2>2. disk'.input = disk.input
      BY <1>0, <2>1, SetFile, FilesAre
    <2>3. CASE delete
      <3>1. disk'.output \in {Absent, last.output}
        BY <1>0, <2>1, <2>3, SetFile, FilesAre DEF Files, Ending
      <3> QED BY <2>1, <2>2, <2>3, <3>1 DEF C!Next, C!Fail, Absent
    <2>4. CASE ~delete
      BY <2>1, <2>2, <2>4, AtExit DEF C!Next, C!Succeed, Whole
    <2> QED BY <1>0, <2>3, <2>4
  <1>6. CASE Kill
    <2>1. pc # "shell" /\ pc' = "shell" /\ exit_code' = Killed /\ UNCHANGED disk
      BY <1>6 DEF Kill
    <2>2. disk.output = last.output \/ IsOfInput("output")
      BY <1>0, <2>1 DEF CompleteInv, FilesInv, OwnInv, Files, Label, Opening, Compiling,
         Generating, Stages, Ending
    <2>3. IsOfInput("output") =>
            disk.input \in Source /\ \E n \in 0 .. Length[disk.input] : disk.output = Part(disk.input, n)
      <3> SUFFICES ASSUME IsOfInput("output")
                   PROVE  disk.input \in Source /\ \E n \in 0 .. Length[disk.input] : disk.output = Part(disk.input, n)
        OBVIOUS
      <3>1. /\ disk.output = [of |-> disk.input, lines |-> disk.output.lines] /\ disk.input \in Source
            /\ disk.output.lines \in 0 .. Length[disk.input]
        BY <1>0, FilesAre DEF IsOfInput, File
      <3> QED BY <3>1, FileNames
    <2> QED BY <2>1, <2>2, <2>3 DEF C!Next, C!Die, Killed, Part
  <1>7. CASE UNCHANGED vars
    BY <1>7 DEF vars, Output, ExitSeen
  <1> QED BY <1>1, <1>2, <1>3, <1>4, <1>5, <1>6, <1>7 DEF Next

\* When every fault is noticed, cpq implements Compilation: a run, with all its
\* files and early exits, kills and reruns, is one step of what it promises.
THEOREM ImplementsCompilation ==
  ASSUME Noticed
  PROVE  Spec => KeepsPromise
  <1>1. Init => C!Init
    BY DEF Init, C!Init, NoExit, Absent
  <1>2. CompleteInv /\ CompleteInv' /\ [Next]_vars => [C!Next]_<<disk.input, Output, ExitSeen>>
    BY OneStep
  <1> QED BY <1>1, <1>2, CompleteInvariant, PTL DEF Spec, KeepsPromise, C!Spec, Output, ExitSeen
=============================================================================
