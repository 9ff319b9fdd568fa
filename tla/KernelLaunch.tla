---------------------------- MODULE KernelLaunch ----------------------------
(***************************************************************************)
(* clEnqueueNDRangeKernel and clFinish (umd/src/cl_enqueue.c, cl_queue.c): *)
(* four ioctls in a row, DMA_TRANSFER of the kernel arguments to a fixed   *)
(* address, LOAD_KERNEL, SUBMIT_CMD and DOORBELL, each of which may fail   *)
(* after it has changed the device. The command path is the queue that     *)
(* CommandService promises and CommandRing implements; an upload that      *)
(* fails leaves any part of the arguments behind (DmaTransfer). What the   *)
(* device does with a command is external: a load copies the staging       *)
(* buffer to instruction RAM, a launch runs what is there on the arguments *)
(* that are there.                                                         *)
(***************************************************************************)
EXTENDS ClProgram, Sequences

CONSTANTS
  Ranges,      \* what the application asks for: [work_dim, global, local], where
               \* local is << >> for NULL; no global_work_offset, the code ignores it
  UINT32_MOD,  \* 2^32
  SIZE_MOD,    \* 2^64
  Capacity,    \* commands the ring holds
  MaxLaunches  \* bound: calls of clEnqueueNDRangeKernel

ASSUME LaunchAssumption ==
  /\ UINT32_MOD \in Nat \ {0} /\ SIZE_MOD \in Nat \ {0}
  /\ Capacity \in Nat \ {0} /\ MaxLaunches \in Nat

VARIABLES
  submitted, taken, done, phase, ticket, result,  \* the command path
  kernarg,   \* device memory at FPGAGPU_KERNARG_BASE
  staging,   \* the kernel staging buffer
  iram,      \* GPU instruction RAM
  range,     \* per thread: the range of its launch
  last,      \* history, per thread: position of its last command in submitted
  ran,       \* history: image and arguments each command of taken found
  launches   \* calls of clEnqueueNDRangeKernel so far (bounded by MaxLaunches)

path   == <<submitted, taken, done, phase, ticket, result>>
device == <<kernarg, staging, iram, ran>>
call   == <<range, last, launches>>
vars   == <<clVars, path, device, call>>

-----------------------------------------------------------------------------
(* Grid and block, and the driver's defaults *)

\* A local size of zero, or none, is two lanes in x and one row in y.
Block(r, d) ==
  IF d <= r.work_dim /\ r.local # << >> /\ r.local[d] > 0
  THEN r.local[d] % UINT32_MOD
  ELSE IF d = 1 THEN 2 ELSE 1

Grid_Floor(r, d) == IF d <= r.work_dim THEN r.global[d] \div Block(r, d) ELSE 1

\* The sum is a size_t, the quotient is cut to 32 bits.
Grid(r, d) ==
  IF d <= r.work_dim
  THEN (((r.global[d] + Block(r, d) - 1) % SIZE_MOD) \div Block(r, d)) % UINT32_MOD
  ELSE 1

Elements(r) ==
  ((r.global[1] * (IF r.work_dim > 1 THEN r.global[2] ELSE 1)) % SIZE_MOD) % UINT32_MOD

\* SUBMIT_CMD replaces a zero dimension by its default.
Default(n, default) == IF n = 0 THEN default ELSE n

LaunchTask(r) ==
  [opcode       |-> "launch",
   grid_dim_x   |-> Default(Grid(r, 1), 32),  grid_dim_y  |-> Default(Grid(r, 2), 1),
   block_dim_x  |-> Default(Block(r, 1), 32), block_dim_y |-> Default(Block(r, 2), 1),
   num_elements |-> Elements(r)]

LoadTask == [opcode |-> "load"]

NoRange == [work_dim |-> 0, global |-> << >>, local |-> << >>]

\* Every argument fills both lanes; the rest of the buffer is zero.
Marshal(t) ==
  [i \in 1 .. FPGAGPU_MAX_ARGS |->
     IF i <= num_args(t) THEN <<kernel[t][i].scalar_val, kernel[t][i].scalar_val>> ELSE <<0, 0>>]

-----------------------------------------------------------------------------
Svc == INSTANCE CommandService WITH
  Clients <- Threads, Commands <- {LoadTask} \cup {LaunchTask(r) : r \in Ranges},
  Failures <- {"error"}

Init ==
  /\ ClInit /\ Svc!Init
  /\ kernarg = Torn /\ staging = Torn /\ iram = Torn /\ ran = << >>
  /\ range = [t \in Threads |-> NoRange]
  /\ last  = [t \in Threads |-> 0]
  /\ launches = 0

Step(t, from, to) ==
  /\ pc[t] = from
  /\ pc' = [pc EXCEPT ![t] = to]
  /\ UNCHANGED <<objects, files>>

Leave(t) ==
  /\ Returns(t)
  /\ UNCHANGED <<objects, files>>

-----------------------------------------------------------------------------
(* clEnqueueNDRangeKernel *)

\* The handles the call is given are live; what they point to may not be. Of a
\* freed program is_built and the words read as anything.
Checked(t) ==
  /\ HasProgram(t) => program[t].is_built
  /\ \A i \in 1 .. num_args(t) : kernel[t][i].is_set

Words(t) == IF HasProgram(t) THEN {program[t].binary_words} ELSE Sources \cup {Torn, Null}

EnqueueNDRangeKernel(t, r) ==
  /\ queue[t] /\ HasKernel(t) /\ Checked(t) /\ launches < MaxLaunches
  /\ Step(t, "user", "upload")
  /\ range' = [range EXCEPT ![t] = r]
  /\ launches' = launches + 1
  /\ UNCHANGED <<path, device, last>>

EnqueueRefused(t) ==
  /\ pc[t] = "user" /\ queue[t] /\ HasKernel(t)
  /\ ~Checked(t) \/ ~HasProgram(t)
  /\ Leave(t)
  /\ UNCHANGED <<path, device, call>>

Upload_Cached(t) ==
  /\ Step(t, "upload", "load")
  /\ kernarg' = IF kernarg = Torn THEN Marshal(t) ELSE kernarg
  /\ UNCHANGED <<path, staging, iram, ran, call>>

Upload(t) ==
  /\ Step(t, "upload", "load")
  /\ kernarg' = Marshal(t)
  /\ UNCHANGED <<path, staging, iram, ran, call>>

\* The transfer is refused, is cut short, or is whole but seen too late.
UploadFails(t) ==
  /\ pc[t] = "upload"
  /\ Leave(t)
  /\ kernarg' \in {kernarg, Torn, Marshal(t)}
  /\ UNCHANGED <<path, staging, iram, ran, call>>

\* LOAD_KERNEL stages the words, outside the lock, and then submits.
LoadKernel(t) ==
  /\ Step(t, "load", "loading") /\ Svc!Call(t)
  /\ staging' \in Words(t) \ {Null}
  /\ UNCHANGED <<kernarg, iram, ran, call>>

\* It is refused, or a word cannot be read: always so without words.
LoadRefused(t) ==
  /\ pc[t] = "load" /\ Svc!Refuse(t)
  /\ Leave(t)
  /\ staging' \in {staging, Torn}
  /\ UNCHANGED <<kernarg, iram, ran, call>>

LoadSubmit(t) ==
  /\ pc[t] = "loading"
  /\ Svc!Submit(t, LoadTask) /\ ticket'[t] = Len(submitted) + 1
  /\ last' = [last EXCEPT ![t] = Len(submitted) + 1]
  /\ UNCHANGED <<clVars, device, range, launches>>

LoadDone(t) ==
  /\ Step(t, "loading", "submit") /\ Svc!Succeed(t)
  /\ UNCHANGED <<device, call>>

SubmitCmd(t) ==
  /\ Step(t, "submit", "submitting") /\ Svc!Call(t)
  /\ UNCHANGED <<device, call>>

LaunchSubmit(t) ==
  /\ pc[t] = "submitting"
  /\ Svc!Submit(t, LaunchTask(range[t])) /\ ticket'[t] = 0
  /\ last' = [last EXCEPT ![t] = Len(submitted) + 1]
  /\ UNCHANGED <<clVars, device, range, launches>>

SubmitDone(t) ==
  /\ Step(t, "submitting", "wait") /\ Svc!Succeed(t)
  /\ UNCHANGED <<device, call>>

Doorbell(t) ==
  /\ Step(t, "wait", "waiting") /\ Svc!Await(t)
  /\ UNCHANGED <<device, call>>

\* The launch returns, or clFinish; the event, if one is asked for, is
\* complete from the start.
WaitDone(t) ==
  /\ pc[t] \in {"waiting", "finishing"} /\ Svc!Succeed(t)
  /\ Leave(t)
  /\ UNCHANGED <<device, call>>

\* A full ring, a fault, a signal or the timer: the call gives up where it is.
\* What it has submitted stays submitted.
IoctlFails(t) ==
  /\ pc[t] \in {"loading", "submitting", "waiting", "finishing"} /\ Svc!Fail(t)
  /\ Leave(t)
  /\ UNCHANGED <<device, call>>

Finish_Completed(t) ==
  /\ queue[t]
  /\ Step(t, "user", "finishing") /\ Svc!Move(t, "idle", "waiting", done, "none")
  /\ UNCHANGED <<submitted, taken, done, device, call>>

\* clFinish is a doorbell without a launch; clFlush does nothing.
Finish(t) ==
  /\ queue[t]
  /\ Step(t, "user", "finishing") /\ Svc!Await(t)
  /\ UNCHANGED <<device, call>>

-----------------------------------------------------------------------------
(* The device (external) *)

DeviceTakes ==
  /\ Svc!Take
  /\ iram' = IF submitted[Len(taken) + 1].opcode = "load"
             THEN staging ELSE iram
  /\ ran' = Append(ran, [image |-> iram', args |-> kernarg])
  /\ UNCHANGED <<clVars, kernarg, staging, call>>

DeviceCompletes ==
  /\ Svc!Complete
  /\ UNCHANGED <<clVars, device, call>>

-----------------------------------------------------------------------------
Continue(t) ==
  \/ BuildStep(t) /\ UNCHANGED <<path, device, call>>
  \/ Upload(t) \/ UploadFails(t) \/ LoadKernel(t) \/ LoadRefused(t) \/ LoadSubmit(t) \/ LoadDone(t)
  \/ SubmitCmd(t) \/ LaunchSubmit(t) \/ SubmitDone(t) \/ Doorbell(t)
  \/ WaitDone(t) \/ IoctlFails(t)

Begin(t) ==
  \/ (ObjectCall(t) \/ BuildProgram(t)) /\ UNCHANGED <<path, device, call>>
  \/ \E r \in Ranges : EnqueueNDRangeKernel(t, r)
  \/ EnqueueRefused(t) \/ Finish(t)

Next ==
  \/ \E t \in Threads : Begin(t) \/ Continue(t)
  \/ DeviceTakes \/ DeviceCompletes

Spec == Init /\ [][Next]_vars

-----------------------------------------------------------------------------
(* Properties *)

LaunchPlaces == {"upload", "load", "loading", "submit", "submitting", "wait", "waiting"}

\* Every variable stays in its domain.
TypeOK ==
  /\ context \in [Threads -> 0 .. MaxRefs] /\ queue \in [Threads -> BOOLEAN]
  /\ program \in [Threads -> [source : Sources \cup {Null}, binary_words : Sources \cup {Null, Torn},
                              is_built : BOOLEAN, written : Sources \cup {Null, Torn},
                              success : BOOLEAN]]
  /\ counter \in 0 .. MaxBuilds /\ name \in [Threads -> 0 .. MaxBuilds]
  /\ tmp \in [0 .. MaxBuilds -> [src : Sources \cup {Null, Torn}, bin : Sources \cup {Null, Torn}]]
  /\ pc \in [Threads -> {"user", "finishing"} \cup BuildPlaces \cup LaunchPlaces]
  /\ staging \in Sources \cup {Torn} /\ iram \in Sources \cup {Torn}
  /\ last \in [Threads -> Nat] /\ Len(ran) = Len(taken)

\* The call returns CL_SUCCESS: its last ioctl has.
LaunchSucceeds(t) == pc[t] = "waiting" /\ pc'[t] = "user" /\ result'[t] = "ok"
FinishSucceeds(t) == pc[t] = "finishing" /\ pc'[t] = "user" /\ result'[t] = "ok"

\* A launch that returns CL_SUCCESS has run the words of the application's own
\* program, and nobody else's, on exactly the arguments it has set, also when
\* an earlier call was cut short and its load or its launch was still in the
\* ring. The launch of a program that has been freed runs whatever is there.
RanAsGiven ==
  [][\A t \in Threads : LaunchSucceeds(t) =>
       /\ last[t] <= done
       /\ ran[last[t]].args = [i \in 1 .. FPGAGPU_MAX_ARGS |-> <<kernel[t][i].given, kernel[t][i].given>>]
       /\ HasProgram(t) => ran[last[t]].image = program[t].binary_words]_vars

Covers(grid, block, n) == (grid - 1) * block < n /\ n <= grid * block

\* It has run with as many work-items as were asked for: enough blocks to cover
\* the range in each dimension, and none that is empty. Where the range begins
\* (global_work_offset) is no part of a packet.
WorkCovered ==
  [][\A t \in Threads : LaunchSucceeds(t) =>
       LET task == taken[last[t]]
           n    == range[t].global
       IN  /\ Covers(task.grid_dim_x, task.block_dim_x, n[1])
           /\ range[t].work_dim > 1 => Covers(task.grid_dim_y, task.block_dim_y, n[2])]_vars

\* After a launch or a clFinish that succeeds nothing the thread has ever
\* submitted is in the ring or running, not even what calls that failed have
\* left there: its buffers can be read, reused and released.
NothingInFlight ==
  [][\A t \in Threads : LaunchSucceeds(t) \/ FinishSucceeds(t) => last[t] <= done]_vars
=============================================================================
