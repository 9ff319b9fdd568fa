--------------------------- MODULE ClBuildProofs ----------------------------
(***************************************************************************)
(* Proofs about builds and launches, for any number of sources, builds,    *)
(* launches and arguments, and any failure of the compiler, of files and   *)
(* of ioctls. With any number of threads, no build leaves a file behind.   *)
(* With one application thread, a build that succeeds delivers the binary  *)
(* of what was written for it, and a launch that succeeds has run the      *)
(* words of its program on the arguments that were set; two threads share  *)
(* the names of files, the staging buffer and the argument buffer.         *)
(***************************************************************************)
EXTENDS ClObjectProofs, FiniteSetTheorems

\* A launch and clFinish begin and go on outside builds.
LEMMA LaunchOutsideBuild ==
  ASSUME NEW t \in Threads, LaunchCall(t)
  PROVE  pc[t] \notin BuildPlaces
<1>1. CASE (\E r \in Ranges : EnqueueNDRangeKernel(t, r)) \/ EnqueueRefused(t) \/ Finish(t)
  BY <1>1 DEF EnqueueNDRangeKernel, EnqueueRefused, Finish, Step, BuildPlaces
<1>2. CASE Upload(t) \/ UploadFails(t) \/ LoadKernel(t) \/ LoadRefused(t) \/ LoadSubmit(t) \/ LoadDone(t)
  BY <1>2 DEF Upload, UploadFails, LoadKernel, LoadRefused, LoadSubmit, LoadDone, Step, BuildPlaces
<1>3. CASE \/ SubmitCmd(t) \/ LaunchSubmit(t) \/ SubmitDone(t) \/ Doorbell(t)
           \/ WaitDone(t) \/ IoctlFails(t)
  BY <1>3 DEF SubmitCmd, LaunchSubmit, SubmitDone, Doorbell, WaitDone, IoctlFails, Step, BuildPlaces
<1> QED BY <1>1, <1>2, <1>3 DEF LaunchCall

\* Calls on objects are made between builds and launches.
LEMMA ObjectCallByUser ==
  ASSUME NEW t, ObjectCall(t)
  PROVE  pc[t] = "user" /\ UNCHANGED <<files, pc>>
BY DEF ObjectCall, CreateContext, RetainContext, ReleaseContext, CreateCommandQueue,
       ReleaseCommandQueue, CreateProgramWithSource, ReleaseProgram, CreateKernel, ReleaseKernel,
       SetKernelArg, Called

-----------------------------------------------------------------------------
(* Temporary files *)

\* A file belongs to a build that is past writing its source, and so will
\* unlink it. Two builds may share a file: then each of them does.
FilesInv ==
  \A n \in 0 .. MaxBuilds : tmp[n] # NoFiles =>
    \E t \in Threads : name[t] = n /\ pc[t] \in {"compile", "binary"}

LEMMA FilesKept ==
  ASSUME LaunchInv, TypeInv, FilesInv, NEW t \in Threads, BuildProgram(t) \/ BuildStep(t)
  PROVE  FilesInv'
<1>1. /\ tmp \in [0 .. MaxBuilds -> TmpFiles] /\ name \in [Threads -> 0 .. MaxBuilds]
      /\ name[t] \in 0 .. MaxBuilds /\ pc \in [Threads -> Idling \cup LaunchPlaces]
  BY DEF TypeInv, FileTypes, LaunchInv, ShapeInv
<1>2. PICK to : pc' = [pc EXCEPT ![t] = to]
  BY DEF BuildProgram, BuildStep, CountBuild, WriteSource, WriteSourceFails, Compile, CompileFails,
         NoBinary, ReadBinaryFails, ReadBinary, Building, EndBuild, Returns
<1>3. \A u \in Threads \ {t} : pc'[u] = pc[u] BY <1>1, <1>2
<1>4. ASSUME pc[t] \notin {"compile", "binary"}, \A u \in Threads \ {t} : name'[u] = name[u],
             \A n \in 0 .. MaxBuilds : tmp'[n] # NoFiles => tmp[n] # NoFiles
      PROVE  FilesInv'
  <2> SUFFICES ASSUME NEW n \in 0 .. MaxBuilds, tmp'[n] # NoFiles
               PROVE  \E u \in Threads : name'[u] = n /\ pc'[u] \in {"compile", "binary"}
    BY DEF FilesInv
  <2>1. PICK u \in Threads : name[u] = n /\ pc[u] \in {"compile", "binary"} BY <1>4 DEF FilesInv
  <2>2. u # t BY <1>4, <2>1
  <2> QED BY <1>3, <1>4, <2>1, <2>2
<1>5. CASE BuildProgram(t)
  <2>1. pc[t] = "user" /\ UNCHANGED tmp /\ name' = [name EXCEPT ![t] = counter]
    BY <1>5 DEF BuildProgram, Building
  <2> QED BY <1>1, <1>4, <2>1
<1>6. CASE CountBuild(t)
  BY <1>4, <1>6 DEF CountBuild, Building
<1>7. ASSUME NEW f, tmp' = [tmp EXCEPT ![name[t]] = f], UNCHANGED name,
             f = NoFiles \/ pc'[t] \in {"compile", "binary"}
      PROVE  FilesInv'
  <2> SUFFICES ASSUME NEW n \in 0 .. MaxBuilds, tmp'[n] # NoFiles
               PROVE  \E u \in Threads : name'[u] = n /\ pc'[u] \in {"compile", "binary"}
    BY DEF FilesInv
  <2>1. CASE n = name[t] BY <1>1, <1>7, <2>1
  <2>2. CASE n # name[t]
    <3>1. tmp'[n] = tmp[n] BY <1>1, <1>7, <2>2
    <3>2. PICK u \in Threads : name[u] = n /\ pc[u] \in {"compile", "binary"} BY <3>1 DEF FilesInv
    <3> QED BY <1>3, <1>7, <2>2, <3>2
  <2> QED BY <2>1, <2>2
<1>8. CASE WriteSource(t) \/ Compile(t)
  <2>1. \E f : tmp' = [tmp EXCEPT ![name[t]] = f] BY <1>8 DEF WriteSource, Compile
  <2>2. UNCHANGED name /\ pc'[t] \in {"compile", "binary"} BY <1>1, <1>8 DEF WriteSource, Compile, Building
  <2> QED BY <1>7, <2>1, <2>2
<1>9. CASE WriteSourceFails(t)
  <2> DEFINE f == [tmp[name[t]] EXCEPT !.src = Null]
  <2>1. pc[t] = "source" /\ UNCHANGED name /\ (tmp' = tmp \/ tmp' = [tmp EXCEPT ![name[t]] = f])
    BY <1>9 DEF WriteSourceFails
  <2>2. tmp[name[t]] = NoFiles => f = NoFiles BY DEF NoFiles
  <2> HIDE DEF f
  <2>3. \A n \in 0 .. MaxBuilds : tmp'[n] # NoFiles => tmp[n] # NoFiles BY <1>1, <2>1, <2>2
  <2> QED BY <1>4, <2>1, <2>3
<1>10. CASE CompileFails(t) \/ NoBinary(t) \/ ReadBinaryFails(t) \/ ReadBinary(t)
  <2>1. tmp' = [tmp EXCEPT ![name[t]] = NoFiles] /\ UNCHANGED name
    BY <1>10 DEF CompileFails, NoBinary, ReadBinaryFails, ReadBinary, EndBuild
  <2> QED BY <1>7, <2>1
<1> QED BY <1>5, <1>6, <1>8, <1>9, <1>10 DEF BuildStep

\* Steps outside a build.
LEMMA FilesFrame ==
  ASSUME LaunchInv, FilesInv, NEW t \in Threads, UNCHANGED files,
         \/ UNCHANGED pc
         \/ pc[t] \notin BuildPlaces /\ \E to : pc' = [pc EXCEPT ![t] = to]
  PROVE  FilesInv'
<1>1. \A u \in Threads : pc[u] \in {"compile", "binary"} => pc'[u] = pc[u]
  BY DEF LaunchInv, ShapeInv, BuildPlaces
<1> QED BY <1>1 DEF FilesInv, files

\* Whichever step of a build fails, and however builds run side by side, also
\* two that have drawn the same number, no file stays in /tmp when all have
\* ended.
THEOREM BuildsLeaveNothing == Spec => []BuildLeavesNothing
<1>1. Init => FilesInv
  BY DEF Init, ClInit, FilesInv
<1>2. LaunchInv /\ TypeInv /\ FilesInv /\ [Next]_vars => FilesInv'
  <2> SUFFICES ASSUME LaunchInv, TypeInv, FilesInv, [Next]_vars PROVE FilesInv' OBVIOUS
  <2>1. CASE UNCHANGED vars \/ DeviceTakes \/ DeviceCompletes
    <3>1. UNCHANGED <<tmp, name, pc>> BY <2>1 DEF vars, DeviceTakes, DeviceCompletes, clVars, files
    <3> QED BY <3>1 DEF FilesInv
  <2>2. ASSUME NEW t \in Threads, LaunchCall(t) PROVE FilesInv'
    <3>1. UNCHANGED files /\ pc[t] \notin BuildPlaces /\ (UNCHANGED pc \/ \E to : pc' = [pc EXCEPT ![t] = to])
      BY <2>2, LaunchCallMoves, LaunchOutsideBuild
    <3> QED BY <3>1, FilesFrame
  <2>3. ASSUME NEW t \in Threads, ObjectCall(t) PROVE FilesInv' BY <2>3, ObjectCallByUser, FilesFrame
  <2>4. ASSUME NEW t \in Threads, BuildProgram(t) \/ BuildStep(t) PROVE FilesInv' BY <2>4, FilesKept
  <2> QED BY <2>1, <2>2, <2>3, <2>4, ObjectStepCases
<1>3. TypeInv /\ FilesInv => BuildLeavesNothing
  <2>1. TypeInv => DOMAIN tmp = 0 .. MaxBuilds BY DEF TypeInv, FileTypes
  <2> QED BY <2>1 DEF FilesInv, BuildLeavesNothing, BuildPlaces
<1> QED BY <1>1, <1>2, <1>3, TypeInvariance, PTL DEF Spec

-----------------------------------------------------------------------------
(* Binaries *)

\* What a build has written goes through its own files to the words.
WordsInv(t) ==
  /\ program[t].success => program[t].is_built /\ program[t].binary_words = program[t].written
  /\ pc[t] \in BuildPlaces => ~program[t].success
  /\ pc[t] = "compile" => tmp[name[t]].src = program[t].written
  /\ pc[t] = "binary" => tmp[name[t]].bin = program[t].written

\* Objects come without a binary, and go between builds.
LEMMA ObjectCallWords ==
  ASSUME TypeInv, NEW t \in Threads, WordsInv(t), ObjectCall(t)
  PROVE  WordsInv(t)'
<1>1. pc[t] = "user" /\ UNCHANGED pc BY ObjectCallByUser
<1>2. program'[t].success => program'[t].is_built /\ program'[t].binary_words = program'[t].written
  <2>1. program \in [Threads -> Programs] BY DEF TypeInv, ObjectTypes
  <2>2. CASE UNCHANGED program BY <2>2 DEF WordsInv
  <2>3. ASSUME NEW s \in Sources, CreateProgramWithSource(t, s)
        PROVE  ~program'[t].success
    <3>1. program' = [program EXCEPT ![t] = [NoProgram EXCEPT !.source = s]]
      BY <2>3 DEF CreateProgramWithSource
    <3>2. ~[NoProgram EXCEPT !.source = s].success BY DEF NoProgram
    <3> QED BY <2>1, <3>1, <3>2
  <2>4. CASE ReleaseProgram(t)
    <3>1. program'[t] = NoProgram BY <2>1, <2>4 DEF ReleaseProgram
    <3> QED BY <3>1 DEF NoProgram
  <2>5. CASE \/ CreateContext(t) \/ RetainContext(t) \/ ReleaseContext(t) \/ CreateCommandQueue(t)
             \/ ReleaseCommandQueue(t) \/ CreateKernel(t) \/ ReleaseKernel(t)
             \/ \E i \in 1 .. FPGAGPU_MAX_ARGS, size \in ArgSizes, v \in Values : SetKernelArg(t, i, size, v)
    BY <2>2, <2>5 DEF CreateContext, RetainContext, ReleaseContext, CreateCommandQueue,
       ReleaseCommandQueue, CreateKernel, ReleaseKernel, SetKernelArg
  <2> QED BY <2>3, <2>4, <2>5 DEF ObjectCall
<1> QED BY <1>1, <1>2 DEF WordsInv, BuildPlaces

\* A build that has its files for itself.
LEMMA BuildWords ==
  ASSUME LaunchInv, TypeInv, NEW t \in Threads, WordsInv(t), BuildProgram(t) \/ BuildStep(t)
  PROVE  WordsInv(t)'
<1>1. /\ tmp \in [0 .. MaxBuilds -> TmpFiles] /\ tmp[name[t]] \in TmpFiles
      /\ name[t] \in 0 .. MaxBuilds /\ pc \in [Threads -> Idling \cup LaunchPlaces]
      /\ program \in [Threads -> Programs] /\ program[t] \in Programs
  BY DEF TypeInv, FileTypes, ObjectTypes, LaunchInv, ShapeInv
<1>2. ASSUME NEW to \in {"user", "source"}, pc' = [pc EXCEPT ![t] = to], UNCHANGED program,
             to = "source" => ~program[t].success
      PROVE  WordsInv(t)'
  <2>1. pc'[t] = to BY <1>1, <1>2
  <2> QED BY <1>2, <2>1 DEF WordsInv, BuildPlaces
<1>3. CASE BuildProgram(t)
  <2> DEFINE p == [program[t] EXCEPT !.written = Null, !.success = FALSE]
  <2>1. program' = [program EXCEPT ![t] = p] /\ pc' = [pc EXCEPT ![t] = "count"]
    BY <1>3 DEF BuildProgram, Building
  <2>2. ~p.success BY <1>1 DEF Programs
  <2> HIDE DEF p
  <2>3. program'[t] = p /\ pc'[t] = "count" BY <1>1, <2>1
  <2> QED BY <2>2, <2>3 DEF WordsInv
<1>4. CASE CountBuild(t)
  BY <1>2, <1>4 DEF CountBuild, Building, WordsInv, BuildPlaces
<1>5. CASE WriteSource(t)
  <2>1. PICK text \in {program[t].source, Torn} :
          /\ tmp' = [tmp EXCEPT ![name[t]] = [tmp[name[t]] EXCEPT !.src = text]]
          /\ program' = [program EXCEPT ![t] = [program[t] EXCEPT !.written = text]]
    BY <1>5 DEF WriteSource
  <2> DEFINE f == [tmp[name[t]] EXCEPT !.src = text]
             p == [program[t] EXCEPT !.written = text]
  <2>2. f.src = text /\ p.written = text /\ p.success = program[t].success
    BY <1>1 DEF TmpFiles, Programs
  <2>3. tmp' = [tmp EXCEPT ![name[t]] = f] /\ program' = [program EXCEPT ![t] = p] BY <2>1
  <2> HIDE DEF f, p
  <2>4. tmp'[name[t]] = f /\ program'[t] = p BY <1>1, <2>3
  <2>5. UNCHANGED name /\ pc'[t] = "compile" /\ pc[t] = "source" BY <1>1, <1>5 DEF WriteSource, Building
  <2>6. ~p.success BY <2>2, <2>5 DEF WordsInv, BuildPlaces
  <2> QED BY <2>2, <2>4, <2>5, <2>6 DEF WordsInv
<1>6. CASE WriteSourceFails(t) \/ CompileFails(t) \/ NoBinary(t)
  BY <1>2, <1>6 DEF WriteSourceFails, CompileFails, NoBinary, EndBuild, Returns, objects
<1>7. CASE Compile(t)
  <2> DEFINE f == [tmp[name[t]] EXCEPT !.bin = tmp[name[t]].src]
  <2>1. tmp' = [tmp EXCEPT ![name[t]] = f] BY <1>7 DEF Compile
  <2>2. f.bin = tmp[name[t]].src BY <1>1 DEF TmpFiles
  <2> HIDE DEF f
  <2>3. tmp'[name[t]] = f BY <1>1, <2>1
  <2>4. UNCHANGED <<name, program>> /\ pc'[t] = "binary" /\ pc[t] = "compile"
    BY <1>1, <1>7 DEF Compile, Building
  <2>5. ~program[t].success BY <2>4 DEF WordsInv, BuildPlaces
  <2> QED BY <2>2, <2>3, <2>4, <2>5 DEF WordsInv
<1>8. CASE ReadBinaryFails(t)
  <2>1. PICK words \in {Null, Torn} :
          program' = [program EXCEPT ![t] = [program[t] EXCEPT !.binary_words = words]]
    BY <1>8 DEF ReadBinaryFails
  <2>2. pc[t] = "binary" /\ pc' = [pc EXCEPT ![t] = "user"]
    BY <1>8 DEF ReadBinaryFails, EndBuild, Returns
  <2>3. ~program[t].success BY <2>2 DEF WordsInv, BuildPlaces
  <2>4. [program[t] EXCEPT !.binary_words = words].success = program[t].success BY <1>1 DEF Programs
  <2>5. ~program'[t].success /\ pc'[t] = "user" BY <1>1, <2>1, <2>2, <2>3, <2>4
  <2> QED BY <2>5 DEF WordsInv, BuildPlaces
<1>9. CASE ReadBinary(t)
  <2> DEFINE p == [program[t] EXCEPT !.binary_words = tmp[name[t]].bin, !.is_built = TRUE, !.success = TRUE]
  <2>1. program' = [program EXCEPT ![t] = p] /\ pc[t] = "binary" /\ pc' = [pc EXCEPT ![t] = "user"]
    BY <1>9, <1>1 DEF ReadBinary, EndBuild, Returns
  <2>2. p.binary_words = tmp[name[t]].bin /\ p.written = program[t].written /\ p.is_built
    BY <1>1 DEF Programs
  <2> HIDE DEF p
  <2>3. program'[t] = p /\ pc'[t] = "user" BY <1>1, <2>1
  <2>4. p.binary_words = p.written BY <2>1, <2>2 DEF WordsInv
  <2> QED BY <2>2, <2>3, <2>4 DEF WordsInv, BuildPlaces
<1> QED BY <1>3, <1>4, <1>5, <1>6, <1>7, <1>8, <1>9 DEF BuildStep

LEMMA WordsInvariance ==
  ASSUME NEW me, Threads = {me}
  PROVE  Spec => []WordsInv(me)
<1>1. Init => WordsInv(me)
  BY DEF Init, ClInit, WordsInv, NoProgram, BuildPlaces
<1>2. LaunchInv /\ TypeInv /\ WordsInv(me) /\ [Next]_vars => WordsInv(me)'
  <2> SUFFICES ASSUME LaunchInv, TypeInv, WordsInv(me), [Next]_vars PROVE WordsInv(me)' OBVIOUS
  <2>1. CASE UNCHANGED vars \/ DeviceTakes \/ DeviceCompletes
    BY <2>1 DEF vars, DeviceTakes, DeviceCompletes, clVars, objects, files, WordsInv
  <2>2. CASE LaunchCall(me)
    <3>1. UNCHANGED <<program, tmp, name>> BY <2>2, LaunchCallMoves DEF objects, files
    <3>2. pc'[me] \notin BuildPlaces
      <4>1. pc[me] \notin BuildPlaces BY <2>2, LaunchOutsideBuild
      <4>2. pc \in [Threads -> Idling \cup LaunchPlaces] BY DEF LaunchInv, ShapeInv
      <4> QED BY <2>2, <4>1, <4>2, LaunchCallMoves DEF LaunchPlaces, BuildPlaces
    <3> QED BY <3>1, <3>2 DEF WordsInv, BuildPlaces
  <2>3. CASE ObjectCall(me) BY <2>3, ObjectCallWords
  <2>4. CASE BuildProgram(me) \/ BuildStep(me) BY <2>4, BuildWords
  <2> QED BY <2>1, <2>2, <2>3, <2>4, ObjectStepCases
<1> QED BY <1>1, <1>2, TypeInvariance, PTL DEF Spec

\* After a build that succeeded the program is built and holds the whole binary
\* of what write() took of its source, whatever builds failed before and at
\* whichever step, also builds that lost the words of the one before them.
THEOREM BuildsDeliver ==
  ASSUME NEW me, Threads = {me}
  PROVE  Spec => []BuildDelivers
<1>1. WordsInv(me) => BuildDelivers BY DEF WordsInv, BuildDelivers
<1> QED BY <1>1, WordsInvariance, PTL

-----------------------------------------------------------------------------
(* Arguments *)

\* Arguments of sizes the runtime knows hold what was given.
ArgsInv(t) ==
  HasKernel(t) => \A i \in 1 .. FPGAGPU_MAX_ARGS :
    /\ kernel[t][i].scalar_val = kernel[t][i].given
    /\ ~kernel[t][i].is_set => kernel[t][i].given = 0

Given(t) == [i \in 1 .. FPGAGPU_MAX_ARGS |-> <<kernel[t][i].given, kernel[t][i].given>>]

\* num_args is at least the index of every argument that is set.
LEMMA SetBelowCount ==
  ASSUME NEW t, NEW i \in 1 .. FPGAGPU_MAX_ARGS, kernel[t][i].is_set
  PROVE  i <= num_args(t)
<1> DEFINE S == {k \in 1 .. FPGAGPU_MAX_ARGS : \E j \in k .. FPGAGPU_MAX_ARGS : kernel[t][j].is_set}
<1>1. FPGAGPU_MAX_ARGS \in Nat BY ProgramAssumption
<1>2. 1 .. i \subseteq S
  <2> SUFFICES ASSUME NEW k \in 1 .. i PROVE k \in S OBVIOUS
  <2>1. k \in 1 .. FPGAGPU_MAX_ARGS /\ i \in k .. FPGAGPU_MAX_ARGS BY <1>1
  <2> QED BY <2>1
<1>3. IsFiniteSet(1 .. FPGAGPU_MAX_ARGS) BY <1>1, FS_Interval
<1>4. S \subseteq 1 .. FPGAGPU_MAX_ARGS OBVIOUS
<1>5. num_args(t) = Cardinality(S) BY DEF num_args
<1> HIDE DEF S
<1>6. IsFiniteSet(S) BY <1>3, <1>4, FS_Subset
<1>7. Cardinality(1 .. i) <= Cardinality(S) BY <1>2, <1>6, FS_Subset
<1>8. Cardinality(1 .. i) = i
  <2>1. 1 \in Int /\ i \in Int /\ i >= 1 BY <1>1
  <2>2. Cardinality(1 .. i) = IF 1 > i THEN 0 ELSE i - 1 + 1 BY <2>1, FS_Interval
  <2> QED BY <2>1, <2>2
<1> QED BY <1>5, <1>7, <1>8

\* What is uploaded are the arguments as given, and zeroes after the last.
LEMMA MarshalIsGiven ==
  ASSUME NEW t, HasKernel(t), ArgsInv(t), kernel[t] \in Kernels
  PROVE  Marshal(t) = Given(t)
<1> SUFFICES ASSUME NEW i \in 1 .. FPGAGPU_MAX_ARGS
             PROVE  (IF i <= num_args(t) THEN <<kernel[t][i].scalar_val, kernel[t][i].scalar_val>> ELSE <<0, 0>>)
                      = <<kernel[t][i].given, kernel[t][i].given>>
  BY DEF Marshal, Given
<1>1. kernel[t][i].scalar_val = kernel[t][i].given /\ (~kernel[t][i].is_set => kernel[t][i].given = 0)
  BY DEF ArgsInv
<1>2. CASE i <= num_args(t) BY <1>1, <1>2
<1>3. CASE ~(i <= num_args(t))
  <2>1. kernel[t][i].given = 0 BY <1>1, <1>3, SetBelowCount
  <2> QED BY <1>3, <2>1
<1> QED BY <1>2, <1>3

LEMMA ArgsKept ==
  ASSUME ArgSizes \subseteq (0 .. 4) \cup {8}, TypeInv, NEW t \in Threads, ArgsInv(t), ObjectCall(t)
  PROVE  ArgsInv(t)'
<1>1. kernel \in [Threads -> Kernels \cup {NoKernel}] BY DEF TypeInv, ObjectTypes
<1>2. CASE UNCHANGED kernel BY <1>2 DEF ArgsInv, HasKernel
<1>3. CASE CreateKernel(t)
  <2>1. kernel'[t] = [i \in 1 .. FPGAGPU_MAX_ARGS |-> NoArg] BY <1>1, <1>3 DEF CreateKernel
  <2>2. NoArg.scalar_val = 0 /\ NoArg.given = 0 BY DEF NoArg
  <2> QED BY <2>1, <2>2 DEF ArgsInv
<1>4. CASE ReleaseKernel(t)
  <2>1. kernel'[t] = NoKernel BY <1>1, <1>4 DEF ReleaseKernel
  <2> QED BY <2>1 DEF ArgsInv, HasKernel
<1>5. ASSUME NEW i \in 1 .. FPGAGPU_MAX_ARGS, NEW size \in ArgSizes, NEW v \in Values,
             SetKernelArg(t, i, size, v)
      PROVE  ArgsInv(t)'
  <2> DEFINE a == [is_set |-> TRUE, scalar_val |-> ScalarVal(size, v), given |-> v]
  <2>1. ScalarVal(size, v) = v
    <3>1. size = 8 \/ size \in 0 .. 4 OBVIOUS
    <3>2. size = 8 \/ size <= 4 BY <3>1
    <3> QED BY <3>2 DEF ScalarVal
  <2>2. a.is_set /\ a.scalar_val = a.given BY <2>1
  <2>3. kernel' = [kernel EXCEPT ![t] = [kernel[t] EXCEPT ![i] = a]] /\ HasKernel(t)
    BY <1>5 DEF SetKernelArg
  <2> HIDE DEF a
  <2>4. kernel[t] \in Kernels BY <1>1, <2>3 DEF HasKernel
  <2>5. kernel'[t] = [kernel[t] EXCEPT ![i] = a] BY <1>1, <2>3
  <2>6. \A j \in 1 .. FPGAGPU_MAX_ARGS : kernel'[t][j] = IF j = i THEN a ELSE kernel[t][j]
    BY <2>4, <2>5 DEF Kernels
  <2> QED BY <2>2, <2>3, <2>6 DEF ArgsInv
<1>6. CASE \/ CreateContext(t) \/ RetainContext(t) \/ ReleaseContext(t) \/ CreateCommandQueue(t)
           \/ ReleaseCommandQueue(t) \/ (\E s \in Sources : CreateProgramWithSource(t, s)) \/ ReleaseProgram(t)
  BY <1>2, <1>6 DEF CreateContext, RetainContext, ReleaseContext, CreateCommandQueue,
     ReleaseCommandQueue, CreateProgramWithSource, ReleaseProgram
<1> QED BY <1>3, <1>4, <1>5, <1>6 DEF ObjectCall

-----------------------------------------------------------------------------
(* A launch, ioctl by ioctl *)

Uploaded == {"load", "loading", "submit", "submitting", "wait", "waiting"}
Staged   == {"loading", "submit", "submitting", "wait", "waiting"}

\* The ring has nothing but what was submitted before the launch.
Loaded(t)   == pc[t] = "submit" \/ (pc[t] = "submitting" /\ phase[t] # "waiting")
Launched(t) == pc[t] \in {"wait", "waiting"} \/ (pc[t] = "submitting" /\ phase[t] = "waiting")

\* The words of the program, unless it has been freed.
Own(t, words) == HasProgram(t) => words = program[t].binary_words

RunInv(t) ==
  /\ pc[t] \in LaunchPlaces => HasKernel(t)
  /\ pc[t] \in Uploaded => kernarg = Marshal(t)
  /\ pc[t] \in Staged => Own(t, staging)
  /\ pc[t] = "loading" /\ phase[t] = "waiting" =>
       /\ ticket[t] = Len(submitted) /\ Len(submitted) >= 1
       /\ submitted[Len(submitted)] = LoadTask
       /\ Len(taken) = Len(submitted) => Own(t, iram)
  /\ Loaded(t) => Len(taken) = Len(submitted) /\ Own(t, iram)
  /\ Launched(t) =>
       /\ last[t] = Len(submitted) /\ Len(taken) >= Len(submitted) - 1
       /\ Own(t, iram)
       /\ Len(taken) = Len(submitted) =>
            ran[last[t]].args = kernarg /\ Own(t, ran[last[t]].image)

\* Outside a launch there is nothing to know.
LEMMA RunOutside ==
  ASSUME NEW t, pc'[t] \notin LaunchPlaces
  PROVE  RunInv(t)'
<1>1. pc'[t] \notin Uploaded /\ pc'[t] \notin Staged /\ pc'[t] \notin {"loading", "submit", "submitting", "wait", "waiting"}
  BY DEF LaunchPlaces, Uploaded, Staged
<1> QED BY <1>1 DEF RunInv, Loaded, Launched

\* The steps of a launch, and clFinish.
LEMMA RunKept ==
  ASSUME LaunchInv, TypeInv, NEW t \in Threads, RunInv(t), LaunchCall(t)
  PROVE  RunInv(t)'
<1>1. /\ UNCHANGED <<objects, files>> /\ UNCHANGED <<program, kernel>>
  BY LaunchCallMoves DEF objects
<1>2. /\ HasKernel(t)' = HasKernel(t) /\ Marshal(t)' = Marshal(t)
      /\ HasProgram(t)' = HasProgram(t)
  BY <1>1 DEF HasKernel, Marshal, num_args, HasProgram
<1>3. /\ pc \in [Threads -> Idling \cup LaunchPlaces]
      /\ phase \in [Threads -> {"idle", "pending", "waiting"}] /\ ticket \in [Threads -> Nat]
      /\ last \in [Threads -> Nat] /\ done \in Nat /\ Len(taken) \in Nat /\ Len(submitted) \in Nat
      /\ done <= Len(taken) /\ Len(taken) <= Len(submitted)
  BY DEF LaunchInv, ShapeInv, PathInv
<1>4. ASSUME pc' = [pc EXCEPT ![t] = "user"] \/ pc' = [pc EXCEPT ![t] = "finishing"]
      PROVE  RunInv(t)'
  <2>1. pc'[t] \notin LaunchPlaces BY <1>3, <1>4 DEF LaunchPlaces
  <2> QED BY <2>1, RunOutside
<1>5. CASE EnqueueRefused(t) \/ UploadFails(t) \/ LoadRefused(t) \/ WaitDone(t) \/ IoctlFails(t) \/ Finish(t)
  BY <1>4, <1>5 DEF EnqueueRefused, UploadFails, LoadRefused, WaitDone, IoctlFails, Finish, Leave, Returns, Step
<1>6. CASE \E r \in Ranges : EnqueueNDRangeKernel(t, r)
  <2>1. pc'[t] = "upload" /\ HasKernel(t)
    BY <1>3, <1>6 DEF EnqueueNDRangeKernel, Step
  <2> QED BY <1>1, <1>2, <2>1 DEF RunInv, Own, Uploaded, Staged, Loaded, Launched
<1>7. CASE Upload(t)
  <2>1. pc'[t] = "load" /\ pc[t] = "upload" /\ kernarg' = Marshal(t) BY <1>3, <1>7 DEF Upload, Step
  <2> QED BY <1>1, <1>2, <2>1 DEF RunInv, Own, LaunchPlaces, Uploaded, Staged, Loaded, Launched
<1>8. CASE LoadKernel(t)
  <2>1. /\ pc'[t] = "loading" /\ pc[t] = "load" /\ Own(t, staging')
        /\ phase'[t] = "pending" /\ UNCHANGED kernarg
    BY <1>3, <1>8 DEF LoadKernel, Step, Svc!Call, Svc!Move, Words, Own
  <2> QED BY <1>1, <1>2, <2>1 DEF RunInv, Own, LaunchPlaces, Uploaded, Staged, Loaded, Launched
<1>9. CASE LoadSubmit(t)
  <2>1. /\ UNCHANGED <<pc, kernarg, staging, iram, ran, taken>> /\ pc[t] = "loading"
        /\ submitted' = Append(submitted, LoadTask) /\ ticket'[t] = Len(submitted) + 1
    BY <1>9 DEF LoadSubmit, Svc!Submit, clVars, device
  <2>2. Len(submitted') = Len(submitted) + 1 /\ submitted'[Len(submitted) + 1] = LoadTask
    BY <2>1 DEF LaunchInv, ShapeInv
  <2> QED BY <1>1, <1>2, <1>3, <2>1, <2>2 DEF RunInv, Own, LaunchPlaces, Uploaded, Staged, Loaded, Launched
<1>10. CASE LoadDone(t)
  <2>1. /\ pc'[t] = "submit" /\ pc[t] = "loading" /\ phase[t] = "waiting" /\ done >= ticket[t]
        /\ UNCHANGED <<kernarg, staging, iram, ran, taken, submitted>>
    BY <1>3, <1>10 DEF LoadDone, Step, Svc!Succeed, Svc!Move, Svc!queue, device
  <2>2. ticket[t] = Len(submitted) /\ (Len(taken) = Len(submitted) => Own(t, iram))
    BY <2>1 DEF RunInv
  <2>3. Len(taken) = Len(submitted) BY <1>3, <2>1, <2>2
  <2> QED BY <1>1, <1>2, <2>1, <2>2, <2>3 DEF RunInv, Own, LaunchPlaces, Uploaded, Staged, Loaded, Launched
<1>11. CASE SubmitCmd(t)
  <2>1. /\ pc'[t] = "submitting" /\ pc[t] = "submit" /\ phase'[t] = "pending"
        /\ UNCHANGED <<kernarg, staging, iram, ran, taken, submitted>>
    BY <1>3, <1>11 DEF SubmitCmd, Step, Svc!Call, Svc!Move, Svc!queue, device
  <2> QED BY <1>1, <1>2, <2>1 DEF RunInv, Own, LaunchPlaces, Uploaded, Staged, Loaded, Launched
<1>12. CASE LaunchSubmit(t)
  <2>1. /\ UNCHANGED <<pc, kernarg, staging, iram, ran, taken>> /\ pc[t] = "submitting"
        /\ \E c : submitted' = Append(submitted, c)
        /\ phase[t] = "pending" /\ phase'[t] = "waiting" /\ last'[t] = Len(submitted) + 1
    BY <1>3, <1>12 DEF LaunchSubmit, Svc!Submit, Svc!Move, clVars, device
  <2>2. Len(submitted') = Len(submitted) + 1 BY <2>1 DEF LaunchInv, ShapeInv
  <2>3. Len(taken) = Len(submitted) /\ Own(t, iram) BY <2>1 DEF RunInv, Loaded
  <2>4. Len(taken') # Len(submitted') /\ Len(taken') >= Len(submitted') - 1 /\ last'[t] = Len(submitted')
    BY <1>3, <2>1, <2>2, <2>3
  <2> QED BY <1>1, <1>2, <2>1, <2>3, <2>4 DEF RunInv, Own, LaunchPlaces, Uploaded, Staged, Loaded, Launched
<1>13. CASE SubmitDone(t) \/ Doorbell(t)
  <2>1. /\ pc'[t] \in {"wait", "waiting"} /\ Launched(t) /\ pc[t] \in {"submitting", "wait"}
        /\ UNCHANGED <<kernarg, staging, iram, ran, taken, submitted, last>>
    BY <1>3, <1>13 DEF SubmitDone, Doorbell, Step, Svc!Succeed, Svc!Await, Svc!Move, Svc!queue, device, call, Launched
  <2> QED BY <1>1, <1>2, <2>1 DEF RunInv, Own, LaunchPlaces, Uploaded, Staged, Loaded, Launched
<1> QED BY <1>5, <1>6, <1>7, <1>8, <1>9, <1>10, <1>11, <1>12, <1>13 DEF LaunchCall

\* The device: a load takes the words of the program to instruction RAM, the
\* launch behind it runs them.
LEMMA RunDevice ==
  ASSUME LaunchInv, TypeInv, NEW t \in Threads, RunInv(t), DeviceTakes \/ DeviceCompletes
  PROVE  RunInv(t)'
<1>1. UNCHANGED <<pc, program, kernel, kernarg, staging, submitted, phase, ticket, last>>
  BY DEF DeviceTakes, DeviceCompletes, Svc!Take, Svc!Complete, Svc!clients, clVars, objects, call, device
<1>2. HasKernel(t)' = HasKernel(t) /\ Marshal(t)' = Marshal(t) /\ HasProgram(t)' = HasProgram(t)
  BY <1>1 DEF HasKernel, Marshal, num_args, HasProgram
<1>3. CASE DeviceCompletes
  <2>1. UNCHANGED <<taken, iram, ran>> BY <1>3 DEF DeviceCompletes, Svc!Complete, device
  <2> QED BY <1>1, <1>2, <2>1 DEF RunInv, Own, Loaded, Launched
<1>4. CASE DeviceTakes
  <2>1. Len(taken) \in Nat /\ Len(submitted) \in Nat /\ Len(ran) = Len(taken) BY DEF LaunchInv, ShapeInv, TypeInv, DeviceTypes
  <2> DEFINE cmd == submitted[Len(taken) + 1]
             x == [image |-> iram', args |-> kernarg]
  <2>2. /\ Len(taken) < Len(submitted) /\ taken' = Append(taken, cmd)
        /\ iram' = (IF cmd.opcode = "load" THEN staging ELSE iram) /\ ran' = Append(ran, x)
    BY <1>4 DEF DeviceTakes, Svc!Take
  <2>3. Len(taken') = Len(taken) + 1 BY <2>2 DEF LaunchInv, ShapeInv
  <2>4. ran'[Len(taken) + 1] = x
    <3>1. PICK S : ran \in Seq(S) BY DEF TypeInv, DeviceTypes
    <3> HIDE DEF x
    <3> QED BY <2>1, <2>2, <3>1
  <2>5. ~Loaded(t) BY <2>1, <2>2 DEF RunInv
  <2>6. pc[t] = "loading" /\ phase[t] = "waiting" /\ Len(taken') = Len(submitted) => Own(t, iram')
    <3> SUFFICES ASSUME pc[t] = "loading", phase[t] = "waiting", Len(taken') = Len(submitted)
                 PROVE  Own(t, iram')
      OBVIOUS
    <3>1. cmd = LoadTask BY <2>1, <2>3 DEF RunInv
    <3>2. cmd.opcode = "load" BY <3>1 DEF LoadTask
    <3>3. Own(t, staging) BY DEF RunInv, Staged
    <3> QED BY <2>2, <3>2, <3>3 DEF Own
  <2>7. Launched(t) => /\ Len(taken) + 1 = Len(submitted) /\ last[t] = Len(taken) + 1
                       /\ Own(t, iram')
    <3> SUFFICES ASSUME Launched(t)
                 PROVE  /\ Len(taken) + 1 = Len(submitted) /\ last[t] = Len(taken) + 1
                        /\ Own(t, iram')
      OBVIOUS
    <3>1. last[t] = Len(submitted) /\ Len(taken) >= Len(submitted) - 1 /\ Own(t, iram)
      BY DEF RunInv
    <3>2. Len(taken) + 1 = Len(submitted) BY <2>1, <2>2, <3>1
    <3>3. cmd = LaunchTask(range[t]) BY <3>1, <3>2 DEF LaunchInv, LastInv, Launched
    <3>4. cmd.opcode # "load" BY <3>3 DEF LaunchTask
    <3> QED BY <2>2, <3>1, <3>2, <3>4 DEF Own
  <2>8. Launched(t) => ran'[last[t]].args = kernarg /\ Own(t, ran'[last[t]].image)
    <3>1. x.image = iram' /\ x.args = kernarg OBVIOUS
    <3> HIDE DEF x
    <3> QED BY <2>4, <2>7, <3>1
  <2> HIDE DEF cmd, x
  <2>9. Loaded(t)' = Loaded(t) /\ Launched(t)' = Launched(t) BY <1>1 DEF Loaded, Launched
  <2>10. Launched(t) => Len(taken') >= Len(submitted) - 1 BY <2>1, <2>3, <2>7
  <2> QED BY <1>1, <1>2, <2>5, <2>6, <2>7, <2>8, <2>9, <2>10 DEF RunInv, Own
<1> QED BY <1>3, <1>4

\* A call on objects or a step of a build begins and ends outside a launch.
LEMMA BuildOutsideLaunch ==
  ASSUME LaunchInv, NEW t \in Threads, BuildProgram(t) \/ BuildStep(t)
  PROVE  pc'[t] \notin LaunchPlaces /\ UNCHANGED kernel
<1>1. pc \in [Threads -> Idling \cup LaunchPlaces] BY DEF LaunchInv, ShapeInv
<1>2. PICK to \in {"user"} \cup BuildPlaces : pc' = [pc EXCEPT ![t] = to]
  BY DEF BuildProgram, BuildStep, CountBuild, WriteSource, WriteSourceFails, Compile, CompileFails,
         NoBinary, ReadBinaryFails, ReadBinary, Building, EndBuild, Returns, BuildPlaces
<1>3. UNCHANGED kernel
  BY DEF BuildProgram, BuildStep, CountBuild, WriteSource, WriteSourceFails, Compile, CompileFails,
         NoBinary, ReadBinaryFails, ReadBinary, Building, EndBuild, objects
<1> QED BY <1>1, <1>2, <1>3 DEF BuildPlaces, LaunchPlaces

LEMMA RunInvariance ==
  ASSUME NEW me, Threads = {me}, ArgSizes \subseteq (0 .. 4) \cup {8}
  PROVE  Spec => [](RunInv(me) /\ ArgsInv(me))
<1>1. Init => RunInv(me) /\ ArgsInv(me)
  <2>1. Init => pc[me] = "user" /\ kernel[me] = NoKernel BY DEF Init, ClInit
  <2> QED BY <2>1 DEF RunInv, ArgsInv, HasKernel, LaunchPlaces, Uploaded, Staged, Loaded, Launched
<1>2. LaunchInv /\ TypeInv /\ RunInv(me) /\ ArgsInv(me) /\ [Next]_vars => RunInv(me)' /\ ArgsInv(me)'
  <2> SUFFICES ASSUME LaunchInv, TypeInv, RunInv(me), ArgsInv(me), [Next]_vars
               PROVE  RunInv(me)' /\ ArgsInv(me)'
    OBVIOUS
  <2>1. UNCHANGED kernel => ArgsInv(me)' BY DEF ArgsInv, HasKernel
  <2>2. CASE UNCHANGED vars
    <3>1. UNCHANGED <<pc, phase, ticket, last, submitted, taken, kernel, program, kernarg, staging, iram, ran>>
      BY <2>2 DEF vars, clVars, objects, path, device, call
    <3>2. HasKernel(me)' = HasKernel(me) /\ Marshal(me)' = Marshal(me) /\ HasProgram(me)' = HasProgram(me)
      BY <3>1 DEF HasKernel, Marshal, num_args, HasProgram
    <3> QED BY <2>1, <3>1, <3>2 DEF RunInv, Own, Loaded, Launched
  <2>3. CASE DeviceTakes \/ DeviceCompletes
    <3>1. UNCHANGED kernel BY <2>3 DEF DeviceTakes, DeviceCompletes, clVars, objects
    <3> QED BY <2>1, <2>3, <3>1, RunDevice
  <2>4. CASE LaunchCall(me)
    <3>1. UNCHANGED kernel BY <2>4, LaunchCallMoves DEF objects
    <3> QED BY <2>1, <2>4, <3>1, RunKept
  <2>5. CASE ObjectCall(me)
    <3>1. pc'[me] \notin LaunchPlaces BY <2>5, ObjectCallByUser DEF LaunchPlaces
    <3> QED BY <2>5, <3>1, RunOutside, ArgsKept
  <2>6. CASE BuildProgram(me) \/ BuildStep(me) BY <2>1, <2>6, BuildOutsideLaunch, RunOutside
  <2> QED BY <2>2, <2>3, <2>4, <2>5, <2>6, ObjectStepCases
<1> QED BY <1>1, <1>2, TypeInvariance, PTL DEF Spec

\* A launch that returns CL_SUCCESS has run the words of the thread's own
\* program on exactly the arguments it has set, also when earlier calls were
\* cut short by a signal or a failure and left their load or their launch in
\* the ring.
THEOREM LaunchRunsAsGiven ==
  ASSUME NEW me, Threads = {me}, ArgSizes \subseteq (0 .. 4) \cup {8}
  PROVE  Spec => RanAsGiven
<1>1. LaunchInv /\ TypeInv /\ RunInv(me) /\ ArgsInv(me) /\ [Next]_vars =>
        [\A t \in Threads : LaunchSucceeds(t) =>
           /\ last[t] <= done
           /\ ran[last[t]].args = [i \in 1 .. FPGAGPU_MAX_ARGS |-> <<kernel[t][i].given, kernel[t][i].given>>]
           /\ HasProgram(t) => ran[last[t]].image = program[t].binary_words]_vars
  <2> SUFFICES ASSUME LaunchInv, TypeInv, RunInv(me), ArgsInv(me), [Next]_vars, LaunchSucceeds(me)
               PROVE  /\ last[me] <= done /\ ran[last[me]].args = Given(me)
                      /\ Own(me, ran[last[me]].image)
    BY DEF Given, Own
  <2>1. WaitDone(me) BY SuccessIsWaitDone
  <2>2. done >= ticket[me] /\ pc[me] = "waiting" BY <2>1 DEF WaitDone, Svc!Succeed, LaunchSucceeds
  <2>3. /\ last[me] <= ticket[me] /\ last[me] \in Nat /\ ticket[me] \in Nat /\ done \in Nat
        /\ done <= Len(taken) /\ Len(taken) <= Len(submitted) /\ Len(taken) \in Nat /\ Len(submitted) \in Nat
    BY <2>2 DEF LaunchInv, ShapeInv, LastInv, PathInv
  <2>4. /\ last[me] = Len(submitted) /\ kernarg = Marshal(me) /\ HasKernel(me)
        /\ Len(taken) = Len(submitted) => ran[last[me]].args = kernarg /\ Own(me, ran[last[me]].image)
    BY <2>2 DEF RunInv, Launched, Uploaded, LaunchPlaces
  <2>5. last[me] <= done /\ Len(taken) = Len(submitted) BY <2>2, <2>3, <2>4
  <2>6. kernel[me] \in Kernels BY <2>4 DEF TypeInv, ObjectTypes, HasKernel
  <2>7. Marshal(me) = Given(me) BY <2>4, <2>6, MarshalIsGiven
  <2> QED BY <2>4, <2>5, <2>7
<1>2. Spec => [](RunInv(me) /\ ArgsInv(me)) BY RunInvariance, PTL
<1>3. Spec => [](LaunchInv /\ TypeInv /\ RunInv(me) /\ ArgsInv(me)) /\ [][Next]_vars
  BY <1>2, TypeInvariance, PTL DEF Spec
<1> QED BY <1>1, <1>3, PTL DEF RanAsGiven
=============================================================================
