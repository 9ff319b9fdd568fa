------------------------------ MODULE ClProgram ------------------------------
(***************************************************************************)
(* The objects of the OpenCL runtime that a kernel launch needs, and how a *)
(* program is built: umd/src/cl_context.c, cl_queue.c, cl_program.c and    *)
(* cl_kernel.c. Each application thread has a context, a queue, a program  *)
(* and a kernel of its own; the threads of the process share the counter   *)
(* that names temporary files, and the files.                              *)
(*                                                                         *)
(* The compiler, a script run with system(), is external: it fails, or     *)
(* leaves the binary of the source it was given next to it. A source and   *)
(* its binary go by the same name. Failed calls that change nothing        *)
(* (a NULL handle, no memory for an object) are left out.                  *)
(***************************************************************************)
EXTENDS Integers, FiniteSets

CONSTANTS
  Threads,          \* application threads of the process
  Sources,          \* kernel sources
  Values,           \* what scalars hold, and addresses of buffers; not 0
  ArgSizes,         \* arg_size of clSetKernelArg: 8 is a cl_mem, up to 4 a scalar
  FPGAGPU_MAX_ARGS, \* entries of kernel->args
  Torn,             \* contents that are only part of a source, a binary or a buffer
  Null,             \* no object, no file
  MaxRefs,          \* bound: references on a context
  MaxBuilds         \* bound: calls of clBuildProgram

ASSUME ProgramAssumption ==
  /\ FPGAGPU_MAX_ARGS \in Nat \ {0} /\ MaxRefs \in Nat \ {0} /\ MaxBuilds \in Nat
  /\ Null \notin Sources
  /\ Values \subseteq Nat \ {0} /\ ArgSizes \subseteq Nat

VARIABLES
  context,   \* per thread: ref_count of its context, 0 when there is none
  queue,     \* per thread: is there a command queue?
  program,   \* per thread: [source, binary_words, is_built], or NoProgram; and as
             \* history of its last build: written, what write() put into the
             \* source file, and success, whether the build returned CL_SUCCESS
  kernel,    \* per thread: args of its kernel, or NoKernel
  counter,   \* static int counter of clBuildProgram
  name,      \* per thread: the number its running build puts into file names
  tmp,       \* temporary files by number: contents of the .c and of the .c.bin
  builds,    \* calls of clBuildProgram so far (bounded by MaxBuilds)
  pc         \* per thread: where it is in a call, "user" outside

objects == <<context, queue, program, kernel>>
files   == <<counter, name, tmp, builds>>
clVars  == <<objects, files, pc>>

-----------------------------------------------------------------------------
NoProgram == [source |-> Null, binary_words |-> Null, is_built |-> FALSE,
              written |-> Null, success |-> FALSE]
NoKernel  == << >>
NoFiles   == [src |-> Null, bin |-> Null]
NoArg     == [is_set |-> FALSE, scalar_val |-> 0, given |-> 0]

HasProgram(t) == program[t] # NoProgram
HasKernel(t)  == kernel[t] # NoKernel

\* The last index that has been set.
num_args(t) ==
  Cardinality({i \in 1 .. FPGAGPU_MAX_ARGS :
                 \E j \in i .. FPGAGPU_MAX_ARGS : kernel[t][j].is_set})

ClInit ==
  /\ context = [t \in Threads |-> 0]
  /\ queue   = [t \in Threads |-> FALSE]
  /\ program = [t \in Threads |-> NoProgram]
  /\ kernel  = [t \in Threads |-> NoKernel]
  /\ counter = 0 /\ builds = 0
  /\ name = [t \in Threads |-> 0]
  /\ tmp  = [n \in 0 .. MaxBuilds |-> NoFiles]
  /\ pc      = [t \in Threads |-> "user"]

\* A call that is one step.
Called(t) ==
  /\ pc[t] = "user"
  /\ UNCHANGED <<files, pc>>

Returns(t) == pc' = [pc EXCEPT ![t] = "user"]

-----------------------------------------------------------------------------
(* Contexts and queues *)

\* Opens the device file. A thread has one context at a time.
CreateContext(t) ==
  /\ Called(t) /\ context[t] = 0
  /\ ~queue[t] /\ ~HasProgram(t)
  /\ context' = [context EXCEPT ![t] = 1]
  /\ UNCHANGED <<queue, program, kernel>>

RetainContext(t) ==
  /\ Called(t) /\ context[t] \in 1 .. MaxRefs - 1
  /\ context' = [context EXCEPT ![t] = @ + 1]
  /\ UNCHANGED <<queue, program, kernel>>

\* The last reference closes the device file and frees the context, whatever
\* still points to it. The ioctls of a queue without its context may fail, as
\* any may.
ReleaseContext(t) ==
  /\ Called(t) /\ context[t] > 0
  /\ context' = [context EXCEPT ![t] = @ - 1]
  /\ UNCHANGED <<queue, program, kernel>>

CreateCommandQueue(t) ==
  /\ Called(t) /\ context[t] > 0 /\ ~queue[t]
  /\ queue' = [queue EXCEPT ![t] = TRUE]
  /\ UNCHANGED <<context, program, kernel>>

ReleaseCommandQueue(t) ==
  /\ Called(t) /\ queue[t]
  /\ queue' = [queue EXCEPT ![t] = FALSE]
  /\ UNCHANGED <<context, program, kernel>>

-----------------------------------------------------------------------------
(* Programs and kernels *)

\* A thread has one program at a time, and makes the next one when it has no
\* kernel of the last.
CreateProgramWithSource(t, s) ==
  /\ Called(t) /\ context[t] > 0 /\ ~HasProgram(t) /\ ~HasKernel(t)
  /\ program' = [program EXCEPT ![t] = [NoProgram EXCEPT !.source = s]]
  /\ UNCHANGED <<context, queue, kernel>>

\* Frees the source and the words, whatever kernel still points to them.
ReleaseProgram(t) ==
  /\ Called(t) /\ HasProgram(t)
  /\ program' = [program EXCEPT ![t] = NoProgram]
  /\ UNCHANGED <<context, queue, kernel>>

CreateKernel(t) ==
  /\ Called(t) /\ program[t].is_built /\ ~HasKernel(t)
  /\ kernel' = [kernel EXCEPT ![t] = [i \in 1 .. FPGAGPU_MAX_ARGS |-> NoArg]]
  /\ UNCHANGED <<context, queue, program>>

ReleaseKernel(t) ==
  /\ Called(t) /\ HasKernel(t)
  /\ kernel' = [kernel EXCEPT ![t] = NoKernel]
  /\ UNCHANGED <<context, queue, program>>

\* What an argument becomes: the address of a buffer, the bytes of a scalar of
\* at most four bytes, and zero for anything else.
ScalarVal(size, v) == IF size = 8 \/ size <= 4 THEN v ELSE 0

SetKernelArg(t, i, size, v) ==
  /\ Called(t) /\ HasKernel(t)
  /\ kernel' = [kernel EXCEPT ![t][i] =
       [is_set |-> TRUE, scalar_val |-> ScalarVal(size, v), given |-> v]]
  /\ UNCHANGED <<context, queue, program>>

-----------------------------------------------------------------------------
(* clBuildProgram *)

Building(t, from, to) ==
  /\ pc[t] = from
  /\ pc' = [pc EXCEPT ![t] = to]
  /\ UNCHANGED <<context, queue, kernel>>

\* The build ends and unlinks both files.
EndBuild(t, from) ==
  /\ pc[t] = from
  /\ Returns(t)
  /\ tmp' = [tmp EXCEPT ![name[t]] = NoFiles]
  /\ UNCHANGED <<context, queue, kernel, counter, name, builds>>

\* counter++ is a read and a write, and no lock is held.
BuildProgram(t) ==
  /\ HasProgram(t) /\ builds < MaxBuilds
  /\ Building(t, "user", "count")
  /\ builds' = builds + 1
  /\ name' = [name EXCEPT ![t] = counter]
  /\ program' = [program EXCEPT ![t].written = Null, ![t].success = FALSE]
  /\ UNCHANGED <<counter, tmp>>

CountBuild_Twice(t) ==
  /\ Building(t, "count", "source")
  /\ counter' = name[t] + 2
  /\ UNCHANGED <<program, name, tmp, builds>>

CountBuild(t) ==
  /\ Building(t, "count", "source")
  /\ counter' = name[t] + 1
  /\ UNCHANGED <<program, name, tmp, builds>>

\* open, write, close; only a negative result of write is an error, and it may
\* take part of the source.
WriteSource(t) ==
  /\ Building(t, "source", "compile")
  /\ \E text \in {program[t].source, Torn} :
       /\ tmp' = [tmp EXCEPT ![name[t]].src = text]
       /\ program' = [program EXCEPT ![t].written = text]
  /\ UNCHANGED <<counter, name, builds>>

\* open fails, or write does and the source is unlinked.
WriteSourceFails(t) ==
  /\ pc[t] = "source"
  /\ Returns(t)
  /\ tmp' \in {tmp, [tmp EXCEPT ![name[t]].src = Null]}
  /\ UNCHANGED <<objects, counter, name, builds>>

Compile(t) ==
  /\ Building(t, "compile", "binary")
  /\ tmp' = [tmp EXCEPT ![name[t]].bin = tmp[name[t]].src]
  /\ UNCHANGED <<program, counter, name, builds>>

CompileFails(t) == EndBuild(t, "compile") /\ UNCHANGED program

\* The binary cannot be opened, is empty, or is not a number of words.
NoBinary_KeepsFiles(t) ==
  /\ pc[t] = "binary"
  /\ Returns(t)
  /\ UNCHANGED <<objects, files>>

NoBinary(t) == EndBuild(t, "binary") /\ UNCHANGED program

ReadBinaryFails_Unchecked(t) ==
  /\ tmp[name[t]].bin # Null
  /\ EndBuild(t, "binary")
  /\ program' = [program EXCEPT ![t].binary_words = Torn, ![t].is_built = TRUE, ![t].success = TRUE]

\* malloc or fread fails after the old words have been freed. The build says
\* so, but a program that was built before stays is_built.
ReadBinaryFails(t) ==
  /\ tmp[name[t]].bin # Null
  /\ EndBuild(t, "binary")
  /\ \E words \in {Null, Torn} : program' = [program EXCEPT ![t].binary_words = words]

ReadBinary(t) ==
  /\ tmp[name[t]].bin # Null
  /\ EndBuild(t, "binary")
  /\ program' = [program EXCEPT ![t].binary_words = tmp[name[t]].bin,
                                ![t].is_built = TRUE, ![t].success = TRUE]

-----------------------------------------------------------------------------
ObjectCall(t) ==
  \/ CreateContext(t) \/ RetainContext(t) \/ ReleaseContext(t)
  \/ CreateCommandQueue(t) \/ ReleaseCommandQueue(t)
  \/ \E s \in Sources : CreateProgramWithSource(t, s)
  \/ ReleaseProgram(t) \/ CreateKernel(t) \/ ReleaseKernel(t)
  \/ \E i \in 1 .. FPGAGPU_MAX_ARGS, size \in ArgSizes, v \in Values : SetKernelArg(t, i, size, v)

BuildStep(t) ==
  \/ CountBuild(t) \/ WriteSource(t) \/ WriteSourceFails(t) \/ Compile(t) \/ CompileFails(t)
  \/ NoBinary(t) \/ ReadBinaryFails(t) \/ ReadBinary(t)

BuildPlaces == {"count", "source", "compile", "binary"}

-----------------------------------------------------------------------------
(* Properties *)

\* After a build that returned CL_SUCCESS the program is_built and holds the
\* whole binary of what write() put into the source file, whatever builds of
\* it and of earlier programs failed at whichever step, and whatever words it
\* held before. After a build that failed is_built says nothing of the words.
BuildDelivers ==
  \A t \in Threads : program[t].success =>
    program[t].is_built /\ program[t].binary_words = program[t].written

\* No build leaves a file in /tmp, whichever step failed.
BuildLeavesNothing ==
  (\A t \in Threads : pc[t] \notin BuildPlaces) => \A n \in DOMAIN tmp : tmp[n] = NoFiles
=============================================================================
