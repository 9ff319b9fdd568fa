--------------------------- MODULE ClObjectProofs ---------------------------
(***************************************************************************)
(* Proofs about the objects of KernelLaunch: their types, for any number   *)
(* of threads, sources, arguments, builds and launches, and whatever order *)
(* objects are released in.                                                *)
(***************************************************************************)
EXTENDS KernelLaunchProofs

Args     == [is_set : BOOLEAN, scalar_val : Nat, given : Nat]
Kernels  == [1 .. FPGAGPU_MAX_ARGS -> Args]
Programs == [source : Sources \cup {Null}, binary_words : Sources \cup {Null, Torn}, is_built : BOOLEAN,
             written : Sources \cup {Null, Torn}, success : BOOLEAN]
TmpFiles == [src : Sources \cup {Null, Torn}, bin : Sources \cup {Null, Torn}]

\* What the OpenCL objects hold.
ObjectTypes ==
  /\ context \in [Threads -> 0 .. MaxRefs] /\ queue \in [Threads -> BOOLEAN]
  /\ program \in [Threads -> Programs]
  /\ kernel \in [Threads -> Kernels \cup {NoKernel}]

\* What a build works on. The number a build has drawn is below the count of
\* builds until it has stored the successor.
FileTypes ==
  /\ counter \in 0 .. MaxBuilds /\ name \in [Threads -> 0 .. MaxBuilds]
  /\ builds \in 0 .. MaxBuilds /\ counter <= builds
  /\ \A t \in Threads : pc[t] = "count" => name[t] < builds
  /\ tmp \in [0 .. MaxBuilds -> TmpFiles]

\* What the device holds.
DeviceTypes ==
  /\ staging \in Sources \cup {Torn} /\ iram \in Sources \cup {Torn}
  /\ (\E S : ran \in Seq(S)) /\ Len(ran) = Len(taken)

TypeInv == ObjectTypes /\ FileTypes /\ DeviceTypes

\* A file of a build that begins or ends is there to be used: FileTypes does
\* not depend on the places of threads outside "count".
LEMMA FileTypesFrame ==
  ASSUME LaunchInv, FileTypes, UNCHANGED files, NEW t, NEW to, to # "count",
         pc' = pc \/ pc' = [pc EXCEPT ![t] = to]
  PROVE  FileTypes'
<1>1. \A u \in Threads : pc'[u] = "count" => pc[u] = "count"
  BY DEF LaunchInv, ShapeInv
<1> QED BY <1>1 DEF FileTypes, files

\* Calls on objects.
LEMMA ObjectCallTypes ==
  ASSUME LaunchInv, TypeInv, NEW t \in Threads, ObjectCall(t), UNCHANGED <<path, device, call>>
  PROVE  TypeInv'
<1>1. UNCHANGED <<files, pc>>
  BY DEF ObjectCall, CreateContext, RetainContext, ReleaseContext, CreateCommandQueue,
         ReleaseCommandQueue, CreateProgramWithSource, ReleaseProgram, CreateKernel, ReleaseKernel,
         SetKernelArg, Called
<1>2. FileTypes' BY <1>1 DEF TypeInv, FileTypes, files
<1>3. DeviceTypes' BY DEF TypeInv, DeviceTypes, device, path
<1>4. CASE CreateContext(t) \/ RetainContext(t) \/ ReleaseContext(t)
  <2>1. UNCHANGED <<queue, program, kernel>> BY <1>4 DEF CreateContext, RetainContext, ReleaseContext
  <2>2. context' \in [Threads -> 0 .. MaxRefs]
    <3>1. context \in [Threads -> 0 .. MaxRefs] /\ MaxRefs \in Nat \ {0}
      BY ProgramAssumption DEF TypeInv, ObjectTypes
    <3>2. CASE CreateContext(t) BY <3>1, <3>2 DEF CreateContext
    <3>3. CASE RetainContext(t) BY <3>1, <3>3 DEF RetainContext
    <3>4. CASE ReleaseContext(t) BY <3>1, <3>4 DEF ReleaseContext
    <3> QED BY <1>4, <3>2, <3>3, <3>4
  <2> QED BY <1>2, <1>3, <2>1, <2>2 DEF TypeInv, ObjectTypes
<1>5. CASE CreateCommandQueue(t) \/ ReleaseCommandQueue(t)
  BY <1>2, <1>3, <1>5 DEF CreateCommandQueue, ReleaseCommandQueue, TypeInv, ObjectTypes
<1>6. ASSUME NEW s \in Sources, CreateProgramWithSource(t, s)
      PROVE  TypeInv'
  <2>1. [NoProgram EXCEPT !.source = s] \in Programs BY DEF NoProgram, Programs
  <2> QED BY <1>2, <1>3, <1>6, <2>1 DEF CreateProgramWithSource, TypeInv, ObjectTypes
<1>7. CASE ReleaseProgram(t)
  <2>1. NoProgram \in Programs BY DEF NoProgram, Programs
  <2> QED BY <1>2, <1>3, <1>7, <2>1 DEF ReleaseProgram, TypeInv, ObjectTypes
<1>8. CASE CreateKernel(t) \/ ReleaseKernel(t)
  <2>1. [i \in 1 .. FPGAGPU_MAX_ARGS |-> NoArg] \in Kernels BY DEF NoArg, Kernels, Args
  <2> QED BY <1>2, <1>3, <1>8, <2>1 DEF CreateKernel, ReleaseKernel, TypeInv, ObjectTypes
<1>9. ASSUME NEW i \in 1 .. FPGAGPU_MAX_ARGS, NEW size \in ArgSizes, NEW v \in Values,
             SetKernelArg(t, i, size, v)
      PROVE  TypeInv'
  <2>1. kernel[t] \in Kernels BY <1>9 DEF SetKernelArg, HasKernel, TypeInv, ObjectTypes
  <2>2. [is_set |-> TRUE, scalar_val |-> ScalarVal(size, v), given |-> v] \in Args
    BY ProgramAssumption DEF ScalarVal, Args
  <2>3. kernel' \in [Threads -> Kernels \cup {NoKernel}]
    <3>1. kernel \in [Threads -> Kernels \cup {NoKernel}] BY DEF TypeInv, ObjectTypes
    <3>2. PICK a \in Args : kernel' = [kernel EXCEPT ![t] = [kernel[t] EXCEPT ![i] = a]]
      BY <1>9, <2>2 DEF SetKernelArg
    <3>3. [kernel[t] EXCEPT ![i] = a] \in Kernels BY <2>1, <3>2 DEF Kernels
    <3> QED BY <3>1, <3>2, <3>3
  <2>4. UNCHANGED <<context, queue, program>> BY <1>9 DEF SetKernelArg
  <2> QED BY <1>2, <1>3, <2>3, <2>4 DEF TypeInv, ObjectTypes
<1> QED BY <1>4, <1>5, <1>6, <1>7, <1>8, <1>9 DEF ObjectCall

\* Building a program: the number stays within the builds, and so the files
\* are among those of the bound.
LEMMA BuildTypes ==
  ASSUME LaunchInv, TypeInv, NEW t \in Threads, BuildProgram(t) \/ BuildStep(t),
         UNCHANGED <<path, device, call>>
  PROVE  TypeInv'
<1>1. DeviceTypes' BY DEF TypeInv, DeviceTypes, device, path
<1>2. /\ MaxBuilds \in Nat /\ pc \in [Threads -> Idling \cup LaunchPlaces]
      /\ counter \in 0 .. MaxBuilds /\ name \in [Threads -> 0 .. MaxBuilds] /\ builds \in 0 .. MaxBuilds
      /\ counter <= builds /\ \A u \in Threads : pc[u] = "count" => name[u] < builds
      /\ tmp \in [0 .. MaxBuilds -> TmpFiles] /\ program \in [Threads -> Programs]
  BY ProgramAssumption DEF LaunchInv, ShapeInv, TypeInv, FileTypes, ObjectTypes
<1>3. UNCHANGED <<context, queue, kernel>>
  BY DEF BuildProgram, BuildStep, CountBuild, WriteSource, WriteSourceFails, Compile, CompileFails,
         NoBinary, ReadBinaryFails, ReadBinary, Building, EndBuild, objects
<1>4. ASSUME program' \in [Threads -> Programs]
      PROVE  ObjectTypes'
  BY <1>3, <1>4 DEF TypeInv, ObjectTypes
<1>5. ASSUME UNCHANGED <<counter, name, builds>>, tmp' \in [0 .. MaxBuilds -> TmpFiles],
             NEW to, to # "count", pc' = [pc EXCEPT ![t] = to]
      PROVE  FileTypes'
  BY <1>2, <1>5 DEF FileTypes
<1>6. CASE BuildProgram(t)
  <2> DEFINE p == [program[t] EXCEPT !.written = Null, !.success = FALSE]
  <2>1. /\ builds < MaxBuilds /\ builds' = builds + 1 /\ name' = [name EXCEPT ![t] = counter]
        /\ UNCHANGED <<counter, tmp>> /\ pc' = [pc EXCEPT ![t] = "count"]
    BY <1>6 DEF BuildProgram, Building
  <2>2. FileTypes' BY <1>2, <2>1 DEF FileTypes
  <2>3. program' = [program EXCEPT ![t] = p] BY <1>2, <1>6 DEF BuildProgram
  <2>4. p \in Programs BY <1>2 DEF Programs
  <2>5. program' \in [Threads -> Programs] BY <1>2, <2>3, <2>4
  <2> QED BY <1>1, <1>4, <2>2, <2>5 DEF TypeInv
<1>7. CASE CountBuild(t)
  <2>1. /\ counter' = name[t] + 1 /\ UNCHANGED <<program, name, tmp, builds>>
        /\ pc[t] = "count" /\ pc' = [pc EXCEPT ![t] = "source"]
    BY <1>7 DEF CountBuild, Building
  <2>2. FileTypes' BY <1>2, <2>1 DEF FileTypes
  <2> QED BY <1>1, <1>2, <1>4, <2>1, <2>2 DEF TypeInv
<1>8. tmp[name[t]] \in TmpFiles /\ name[t] \in 0 .. MaxBuilds BY <1>2
<1>9. ASSUME NEW f \in TmpFiles, tmp' = [tmp EXCEPT ![name[t]] = f]
      PROVE  tmp' \in [0 .. MaxBuilds -> TmpFiles]
  BY <1>2, <1>8, <1>9
<1>10. CASE WriteSource(t)
  <2>1. PICK text \in {program[t].source, Torn} :
          /\ tmp' = [tmp EXCEPT ![name[t]] = [tmp[name[t]] EXCEPT !.src = text]]
          /\ program' = [program EXCEPT ![t] = [program[t] EXCEPT !.written = text]]
    BY <1>10, <1>2, <1>8 DEF WriteSource
  <2>2. [tmp[name[t]] EXCEPT !.src = text] \in TmpFiles
    BY <1>2, <1>8 DEF TmpFiles, Programs
  <2>3. /\ UNCHANGED <<counter, name, builds>> /\ pc' = [pc EXCEPT ![t] = "compile"]
    BY <1>10 DEF WriteSource, Building
  <2>4. [program[t] EXCEPT !.written = text] \in Programs BY <1>2 DEF Programs
  <2>5. program' \in [Threads -> Programs] BY <1>2, <2>1, <2>4
  <2> QED BY <1>1, <1>4, <1>5, <1>9, <2>1, <2>2, <2>3, <2>5 DEF TypeInv
<1>11. CASE WriteSourceFails(t)
  <2>1. [tmp[name[t]] EXCEPT !.src = Null] \in TmpFiles BY <1>8 DEF TmpFiles
  <2>2. tmp' = tmp \/ tmp' = [tmp EXCEPT ![name[t]] = [tmp[name[t]] EXCEPT !.src = Null]]
    BY <1>11, <1>2, <1>8 DEF WriteSourceFails
  <2>3. tmp' \in [0 .. MaxBuilds -> TmpFiles] BY <1>2, <1>9, <2>1, <2>2
  <2>4. UNCHANGED <<program, counter, name, builds>> /\ pc' = [pc EXCEPT ![t] = "user"]
    BY <1>11 DEF WriteSourceFails, Returns, objects
  <2> QED BY <1>1, <1>2, <1>4, <1>5, <2>3, <2>4 DEF TypeInv
<1>12. CASE Compile(t)
  <2>1. tmp' = [tmp EXCEPT ![name[t]] = [tmp[name[t]] EXCEPT !.bin = tmp[name[t]].src]]
    BY <1>12, <1>2, <1>8 DEF Compile
  <2>2. [tmp[name[t]] EXCEPT !.bin = tmp[name[t]].src] \in TmpFiles BY <1>8 DEF TmpFiles
  <2>3. /\ UNCHANGED <<program, counter, name, builds>> /\ pc' = [pc EXCEPT ![t] = "binary"]
    BY <1>12 DEF Compile, Building
  <2> QED BY <1>1, <1>2, <1>4, <1>5, <1>9, <2>1, <2>2, <2>3 DEF TypeInv
<1>13. ASSUME NEW from, EndBuild(t, from)
       PROVE  FileTypes'
  <2>1. NoFiles \in TmpFiles BY DEF NoFiles, TmpFiles
  <2>2. tmp' \in [0 .. MaxBuilds -> TmpFiles] BY <1>9, <1>13, <2>1 DEF EndBuild
  <2> QED BY <1>5, <1>13, <2>2 DEF EndBuild, Returns
<1>14. CASE CompileFails(t) \/ NoBinary(t)
  BY <1>1, <1>2, <1>4, <1>13, <1>14 DEF CompileFails, NoBinary, TypeInv
<1>15. CASE ReadBinaryFails(t) \/ ReadBinary(t)
  <2>1. program[t] \in Programs BY <1>2
  <2>2. CASE ReadBinaryFails(t)
    <3>1. PICK words \in {Null, Torn} :
            program' = [program EXCEPT ![t] = [program[t] EXCEPT !.binary_words = words]]
      BY <1>2, <2>2 DEF ReadBinaryFails
    <3>2. [program[t] EXCEPT !.binary_words = words] \in Programs BY <2>1 DEF Programs
    <3>3. program' \in [Threads -> Programs] BY <1>2, <3>1, <3>2
    <3>4. FileTypes' BY <1>13, <2>2 DEF ReadBinaryFails
    <3> QED BY <1>1, <1>4, <3>3, <3>4 DEF TypeInv
  <2>3. CASE ReadBinary(t)
    <3> DEFINE words == tmp[name[t]].bin
               p == [program[t] EXCEPT !.binary_words = words, !.is_built = TRUE, !.success = TRUE]
    <3>1. words \in Sources \cup {Null, Torn} BY <1>8 DEF TmpFiles
    <3>2. program' = [program EXCEPT ![t] = p] BY <1>2, <2>3 DEF ReadBinary
    <3> HIDE DEF words
    <3>3. p \in Programs BY <2>1, <3>1 DEF Programs
    <3>4. program' \in [Threads -> Programs] BY <1>2, <3>2, <3>3
    <3>5. FileTypes' BY <1>13, <2>3 DEF ReadBinary
    <3> QED BY <1>1, <1>4, <3>4, <3>5 DEF TypeInv
  <2> QED BY <1>15, <2>2, <2>3
<1> QED BY <1>6, <1>7, <1>10, <1>11, <1>12, <1>14, <1>15 DEF BuildStep

\* Steps of a launch and of clFinish: objects and files stay.
LaunchCall(t) ==
  \/ \E r \in Ranges : EnqueueNDRangeKernel(t, r)
  \/ EnqueueRefused(t) \/ Finish(t)
  \/ Upload(t) \/ UploadFails(t) \/ LoadKernel(t) \/ LoadRefused(t) \/ LoadSubmit(t) \/ LoadDone(t)
  \/ SubmitCmd(t) \/ LaunchSubmit(t) \/ SubmitDone(t) \/ Doorbell(t)
  \/ WaitDone(t) \/ IoctlFails(t)

\* What such a step does to the places of threads.
LEMMA LaunchCallMoves ==
  ASSUME NEW t \in Threads, LaunchCall(t)
  PROVE  /\ UNCHANGED <<objects, files>>
         /\ \/ UNCHANGED pc
            \/ \E to \in {"user", "finishing"} \cup LaunchPlaces : pc' = [pc EXCEPT ![t] = to]
<1>1. CASE \E r \in Ranges : EnqueueNDRangeKernel(t, r)
  BY <1>1 DEF EnqueueNDRangeKernel, Step, LaunchPlaces
<1>2. CASE EnqueueRefused(t) \/ UploadFails(t) \/ LoadRefused(t) \/ WaitDone(t) \/ IoctlFails(t)
  BY <1>2 DEF EnqueueRefused, UploadFails, LoadRefused, WaitDone, IoctlFails, Leave, Returns, LaunchPlaces
<1>3. CASE Finish(t)
  BY <1>3 DEF Finish, Step, LaunchPlaces
<1>4. CASE Upload(t) \/ LoadKernel(t) \/ LoadDone(t) \/ SubmitCmd(t) \/ SubmitDone(t) \/ Doorbell(t)
  BY <1>4 DEF Upload, LoadKernel, LoadDone, SubmitCmd, SubmitDone, Doorbell, Step, LaunchPlaces
<1>5. CASE LoadSubmit(t) \/ LaunchSubmit(t)
  BY <1>5 DEF LoadSubmit, LaunchSubmit, clVars
<1> QED BY <1>1, <1>2, <1>3, <1>4, <1>5 DEF LaunchCall

\* Every step is a call on objects, a step of a build, of a launch, or of the
\* device.
LEMMA ObjectStepCases ==
  ASSUME [Next]_vars
  PROVE  \/ UNCHANGED vars \/ DeviceTakes \/ DeviceCompletes
         \/ \E t \in Threads :
              \/ LaunchCall(t)
              \/ /\ ObjectCall(t) \/ BuildProgram(t) \/ BuildStep(t)
                 /\ UNCHANGED <<path, device, call>>
<1>1. ASSUME NEW t \in Threads, Begin(t) \/ Continue(t)
      PROVE  \/ LaunchCall(t)
             \/ /\ ObjectCall(t) \/ BuildProgram(t) \/ BuildStep(t)
                /\ UNCHANGED <<path, device, call>>
  BY <1>1 DEF Begin, Continue, LaunchCall
<1> QED BY <1>1 DEF Next

\* Only a load that is submitted changes the staging buffer, and the words of
\* a program that has some are those of a source, or torn.
LEMMA LaunchTypes ==
  ASSUME LaunchInv, TypeInv, NEW t \in Threads, LaunchCall(t)
  PROVE  TypeInv'
<1>1. UNCHANGED <<objects, files>> /\ (UNCHANGED pc \/ \E to : to # "count" /\ pc' = [pc EXCEPT ![t] = to])
  BY LaunchCallMoves DEF LaunchPlaces
<1>2. ObjectTypes' BY <1>1 DEF TypeInv, ObjectTypes, objects
<1>3. FileTypes'
  <2>1. "user" # "count" OBVIOUS
  <2> QED BY <1>1, <2>1, FileTypesFrame DEF TypeInv
<1>4. UNCHANGED <<iram, ran, taken>>
  <2>1. CASE (\E r \in Ranges : EnqueueNDRangeKernel(t, r)) \/ EnqueueRefused(t) \/ Upload(t) \/ UploadFails(t)
    BY <2>1 DEF EnqueueNDRangeKernel, EnqueueRefused, Upload, UploadFails, path, device
  <2>2. CASE \/ LoadKernel(t) \/ LoadRefused(t) \/ LoadDone(t) \/ SubmitCmd(t) \/ SubmitDone(t)
             \/ Doorbell(t) \/ WaitDone(t) \/ IoctlFails(t) \/ Finish(t)
    BY <2>2 DEF LoadKernel, LoadRefused, LoadDone, SubmitCmd, SubmitDone, Doorbell, WaitDone,
         IoctlFails, Finish, device, Svc!Call, Svc!Refuse, Svc!Succeed, Svc!Await, Svc!Fail, Svc!queue
  <2>3. CASE LoadSubmit(t) \/ LaunchSubmit(t)
    BY <2>3 DEF LoadSubmit, LaunchSubmit, device, Svc!Submit
  <2> QED BY <2>1, <2>2, <2>3 DEF LaunchCall
<1>5. staging' \in Sources \cup {Torn}
  <2>1. staging \in Sources \cup {Torn} /\ program[t].binary_words \in Sources \cup {Null, Torn}
    BY DEF TypeInv, DeviceTypes, ObjectTypes, Programs
  <2>2. CASE LoadKernel(t) BY <2>1, <2>2 DEF LoadKernel, Words
  <2>3. CASE LoadRefused(t) BY <2>1, <2>3 DEF LoadRefused
  <2>4. CASE ~LoadKernel(t) /\ ~LoadRefused(t)
    BY <2>1, <2>4 DEF LaunchCall, EnqueueNDRangeKernel, EnqueueRefused, Upload, UploadFails, LoadDone,
         SubmitCmd, SubmitDone, Doorbell, WaitDone, IoctlFails, Finish, LoadSubmit, LaunchSubmit, device
  <2> QED BY <2>2, <2>3, <2>4
<1>6. DeviceTypes' BY <1>4, <1>5 DEF TypeInv, DeviceTypes
<1> QED BY <1>2, <1>3, <1>6 DEF TypeInv

\* The device takes or completes a command.
LEMMA DeviceTypesKept ==
  ASSUME LaunchInv, TypeInv, DeviceTakes \/ DeviceCompletes
  PROVE  TypeInv'
<1>1. UNCHANGED <<clVars, kernarg, staging>> BY DEF DeviceTakes, DeviceCompletes, device
<1>2. ObjectTypes' /\ FileTypes'
  BY <1>1 DEF TypeInv, ObjectTypes, FileTypes, clVars, objects, files
<1>3. CASE DeviceTakes
  <2>1. PICK S : ran \in Seq(S) BY DEF TypeInv, DeviceTypes
  <2>2. ran' = Append(ran, [image |-> iram', args |-> kernarg]) BY <1>3 DEF DeviceTakes
  <2> DEFINE x == [image |-> iram', args |-> kernarg]
  <2>3. ran \in Seq(S \cup {x}) /\ x \in S \cup {x} BY <2>1
  <2> HIDE DEF x
  <2>4. Append(ran, x) \in Seq(S \cup {x}) /\ Len(Append(ran, x)) = Len(ran) + 1 BY <2>3
  <2>5. Len(taken') = Len(taken) + 1
    <3>1. taken' = Append(taken, submitted[Len(taken) + 1]) /\ Len(taken) < Len(submitted)
      BY <1>3 DEF DeviceTakes, Svc!Take
    <3> QED BY <3>1 DEF LaunchInv, ShapeInv
  <2>6. (\E T : ran' \in Seq(T)) /\ Len(ran') = Len(taken')
    BY <2>2, <2>4, <2>5 DEF x, TypeInv, DeviceTypes
  <2>7. iram' \in Sources \cup {Torn} BY <1>3 DEF DeviceTakes, TypeInv, DeviceTypes
  <2> QED BY <1>1, <1>2, <2>6, <2>7 DEF TypeInv, DeviceTypes
<1>4. CASE DeviceCompletes
  BY <1>2, <1>4 DEF DeviceCompletes, Svc!Complete, device, TypeInv, DeviceTypes
<1> QED BY <1>3, <1>4

\* The types hold when the process starts.
LEMMA InitTypes == Init => TypeInv
<1> SUFFICES ASSUME Init PROVE TypeInv OBVIOUS
<1>1. MaxBuilds \in Nat /\ MaxRefs \in Nat BY ProgramAssumption
<1>2. NoProgram \in Programs /\ NoFiles \in TmpFiles BY DEF NoProgram, Programs, NoFiles, TmpFiles
<1>3. ObjectTypes BY <1>1, <1>2 DEF Init, ClInit, ObjectTypes
<1>4. FileTypes BY <1>1, <1>2 DEF Init, ClInit, FileTypes
<1>5. ran \in Seq({}) /\ Len(ran) = Len(taken) BY DEF Init, Svc!Init
<1>6. DeviceTypes BY <1>5 DEF Init, DeviceTypes
<1> QED BY <1>3, <1>4, <1>6 DEF TypeInv

\* Every variable of the runtime and the device stays in its domain.
THEOREM TypeInvariance == Spec => [](LaunchInv /\ TypeInv)
<1>1. Init => LaunchInv /\ TypeInv BY InitLaunch, InitTypes
<1>2. LaunchInv /\ TypeInv /\ [Next]_vars => LaunchInv' /\ TypeInv'
  <2> SUFFICES ASSUME LaunchInv, TypeInv, [Next]_vars PROVE TypeInv'
    BY NextLaunch
  <2>1. CASE UNCHANGED vars
    BY <2>1 DEF vars, clVars, objects, files, path, device, TypeInv, ObjectTypes, FileTypes, DeviceTypes
  <2> QED BY <2>1, ObjectStepCases, DeviceTypesKept, LaunchTypes, ObjectCallTypes, BuildTypes
<1> QED BY <1>1, <1>2, PTL DEF Spec

\* The type invariant, for every value of the constants.
THEOREM TypeCorrect == Spec => []TypeOK
<1>1. LaunchInv /\ TypeInv => TypeOK
  <2> SUFFICES ASSUME LaunchInv, TypeInv PROVE TypeOK OBVIOUS
  <2>1. pc \in [Threads -> {"user", "finishing"} \cup BuildPlaces \cup LaunchPlaces]
    BY DEF LaunchInv, ShapeInv, Idling
  <2>2. last \in [Threads -> Nat] BY DEF LaunchInv, ShapeInv
  <2> QED BY <2>1, <2>2 DEF TypeInv, ObjectTypes, FileTypes, DeviceTypes, TypeOK, Programs, TmpFiles
<1> QED BY <1>1, TypeInvariance, PTL
=============================================================================
