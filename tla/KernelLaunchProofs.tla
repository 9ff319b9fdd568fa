------------------------- MODULE KernelLaunchProofs -------------------------
(***************************************************************************)
(* Proofs about KernelLaunch for any number of threads, commands in the    *)
(* ring, launches and builds.                                              *)
(***************************************************************************)
EXTENDS KernelLaunch, TLAPS

-----------------------------------------------------------------------------
(* The grid *)

\* Rounding up is a quotient and a remainder.
LEMMA DivDecompose ==
  ASSUME NEW p \in Nat \ {0}, NEW n \in Nat
  PROVE  /\ n \div p \in Nat /\ n % p \in 0 .. p - 1
         /\ n = p * (n \div p) + (n % p)
OBVIOUS

\* A number below the modulus is itself.
LEMMA NoWrap ==
  ASSUME NEW p \in Nat \ {0}, NEW n \in Nat, n < p
  PROVE  n % p = n
OBVIOUS

\* The quotient rounded up is at least one, and that many blocks cover n with
\* none of them empty.
LEMMA RoundUpCovers ==
  ASSUME NEW b \in Nat \ {0}, NEW n \in Nat \ {0}
  PROVE  /\ (n + b - 1) \div b \in Nat \ {0}
         /\ Covers((n + b - 1) \div b, b, n)
<1> DEFINE m == n + b - 1
           g == m \div b
           r == m % b
<1>1. m \in Nat OBVIOUS
<1>2. g \in Nat /\ r \in 0 .. b - 1 /\ m = b * g + r BY <1>1, DivDecompose
<1>3. n + b - 1 = b * g + r BY <1>2
<1> HIDE DEF m, g, r
<1>4. g * b = b * g /\ (g - 1) * b = b * g - b /\ b * g \in Nat BY <1>2
<1>5. b * g >= n /\ b * g - b < n BY <1>2, <1>3, <1>4
<1>6. g # 0
  <2> SUFFICES ASSUME g = 0 PROVE FALSE OBVIOUS
  <2>1. b * g = 0 OBVIOUS
  <2> QED BY <1>5, <2>1
<1> QED BY <1>2, <1>4, <1>5, <1>6 DEF Covers, g, m

\* A range an application may ask for: one or two dimensions that are not
\* empty, whose sizes and whose grid fit the types of the code.
WellFormed(r) ==
  /\ r.work_dim \in {1, 2}
  /\ \A d \in 1 .. r.work_dim :
       /\ r.global[d] \in Nat \ {0}
       /\ r.local # << >> => r.local[d] \in 0 .. UINT32_MOD - 1
       /\ r.global[d] + Block(r, d) - 1 < SIZE_MOD
       /\ (r.global[d] + Block(r, d) - 1) \div Block(r, d) < UINT32_MOD

\* Grid and block of the packet cover each dimension of a well-formed range,
\* and no default of the driver steps in.
LEMMA GridCovers ==
  ASSUME NEW r, WellFormed(r), NEW d \in 1 .. r.work_dim, NEW x \in Nat, NEW y \in Nat
  PROVE  Covers(Default(Grid(r, d), x), Default(Block(r, d), y), r.global[d])
<1>1. d \in {1, 2} BY DEF WellFormed
<1>2. d <= r.work_dim /\ r.global[d] \in Nat \ {0} BY <1>1 DEF WellFormed
<1> DEFINE b == Block(r, d)
           n == r.global[d]
           g == (n + b - 1) \div b
<1>3. b \in Nat \ {0}
  <2>1. CASE r.local # << >> /\ r.local[d] > 0
    <3>1. r.local[d] \in 0 .. UINT32_MOD - 1 /\ r.local[d] # 0 /\ r.local[d] < UINT32_MOD
      BY <2>1, <1>2, LaunchAssumption DEF WellFormed
    <3>2. r.local[d] % UINT32_MOD = r.local[d] BY <3>1, LaunchAssumption, NoWrap
    <3> QED BY <2>1, <1>2, <3>1, <3>2 DEF Block
  <2>2. CASE ~(r.local # << >> /\ r.local[d] > 0)
    BY <2>2, <1>2 DEF Block
  <2> QED BY <2>1, <2>2
<1>4. n \in Nat \ {0} /\ n + b - 1 < SIZE_MOD /\ g < UINT32_MOD BY <1>2 DEF WellFormed
<1>5. Grid(r, d) = (((n + b - 1) % SIZE_MOD) \div b) % UINT32_MOD BY <1>2 DEF Grid
<1> HIDE DEF b, n
<1>6. n + b - 1 \in Nat BY <1>3, <1>4
<1>7. (n + b - 1) % SIZE_MOD = n + b - 1 BY <1>4, <1>6, LaunchAssumption, NoWrap
<1>8. g \in Nat \ {0} /\ Covers(g, b, n) BY <1>3, <1>4, RoundUpCovers
<1> HIDE DEF g
<1>9. g % UINT32_MOD = g BY <1>4, <1>8, LaunchAssumption, NoWrap
<1>10. Grid(r, d) = g BY <1>5, <1>7, <1>9 DEF g
<1>11. Default(g, x) = g /\ Default(b, y) = b BY <1>3, <1>8 DEF Default
<1> QED BY <1>8, <1>10, <1>11 DEF b, n

-----------------------------------------------------------------------------
(* Commands in flight *)

Idling == {"user", "finishing"} \cup BuildPlaces

\* The shape of what the argument below follows.
ShapeInv ==
  /\ submitted \in Seq({LoadTask} \cup {LaunchTask(r) : r \in Ranges})
  /\ taken \in Seq({LoadTask} \cup {LaunchTask(r) : r \in Ranges})
  /\ done \in Nat
  /\ pc \in [Threads -> Idling \cup LaunchPlaces]
  /\ last \in [Threads -> Nat] /\ ticket \in [Threads -> Nat]
  /\ phase \in [Threads -> {"idle", "pending", "waiting"}]
  /\ range \in [Threads -> Ranges \cup {NoRange}]
  /\ result \in [Threads -> {"none", "ok", "error"}]

\* The device takes the commands in order and completes what it has taken.
PathInv ==
  /\ done <= Len(taken) /\ Len(taken) <= Len(submitted)
  /\ \A k \in 1 .. Len(taken) : taken[k] = submitted[k]

\* What a thread knows of its last command: a doorbell waits for at least that
\* one, and between SUBMIT_CMD and the return it is the launch of its range.
LastInv ==
  \A t \in Threads :
    /\ last[t] <= Len(submitted)
    /\ pc[t] \in {"waiting", "finishing"} => last[t] <= ticket[t]
    /\ pc[t] \in LaunchPlaces => range[t] \in Ranges
    /\ pc[t] \in {"wait", "waiting"} \/ (pc[t] = "submitting" /\ phase[t] = "waiting") =>
         last[t] >= 1 /\ submitted[last[t]] = LaunchTask(range[t])

LaunchInv == ShapeInv /\ PathInv /\ LastInv

\* A step of a thread in the runtime, the compiler or the upload: commands are
\* not concerned.
Quiet(t) ==
  /\ UNCHANGED <<path, call>>
  /\ \/ UNCHANGED pc
     \/ \E from \in {"user", "upload"} \cup BuildPlaces,
           to \in {"user", "load"} \cup BuildPlaces :
          /\ pc[t] = from /\ pc' = [pc EXCEPT ![t] = to]
          /\ to = "load" => from = "upload"

\* Calls that make, change and release objects.
LEMMA ObjectCallQuiet ==
  ASSUME NEW t \in Threads, ObjectCall(t), UNCHANGED <<path, device, call>>
  PROVE  Quiet(t)
<1>1. UNCHANGED pc
  BY DEF ObjectCall, CreateContext, RetainContext, ReleaseContext, CreateCommandQueue,
         ReleaseCommandQueue, CreateProgramWithSource, ReleaseProgram, CreateKernel, ReleaseKernel,
         SetKernelArg, Called
<1> QED BY <1>1 DEF Quiet

\* The steps of a build.
LEMMA BuildQuiet ==
  ASSUME NEW t \in Threads, BuildProgram(t) \/ BuildStep(t), UNCHANGED <<path, device, call>>
  PROVE  Quiet(t)
<1>1. CASE BuildProgram(t)
  BY <1>1 DEF BuildProgram, Building, BuildPlaces, Quiet
<1>2. CASE CountBuild(t) \/ WriteSource(t) \/ Compile(t)
  BY <1>2 DEF CountBuild, WriteSource, Compile, Building, BuildPlaces, Quiet
<1>3. CASE WriteSourceFails(t)
  BY <1>3 DEF WriteSourceFails, Returns, BuildPlaces, Quiet
<1>4. CASE CompileFails(t) \/ NoBinary(t) \/ ReadBinaryFails(t) \/ ReadBinary(t)
  BY <1>4 DEF CompileFails, NoBinary, ReadBinaryFails, ReadBinary, EndBuild, Returns, BuildPlaces, Quiet
<1> QED BY <1>1, <1>2, <1>3, <1>4 DEF BuildStep

\* A call that is refused, and the upload of the arguments.
LEMMA UploadQuiet ==
  ASSUME NEW t \in Threads, EnqueueRefused(t) \/ Upload(t) \/ UploadFails(t)
  PROVE  Quiet(t)
BY DEF EnqueueRefused, Upload, UploadFails, Step, Leave, Returns, Quiet

\* Every step, sorted by what it does to the commands.
LEMMA StepCases ==
  ASSUME [Next]_vars
  PROVE  \/ UNCHANGED vars \/ DeviceTakes \/ DeviceCompletes
         \/ \E t \in Threads :
              \/ Quiet(t) \/ \E r \in Ranges : EnqueueNDRangeKernel(t, r)
              \/ LoadKernel(t) \/ LoadRefused(t) \/ LoadSubmit(t) \/ LoadDone(t)
              \/ SubmitCmd(t) \/ LaunchSubmit(t) \/ SubmitDone(t) \/ Doorbell(t)
              \/ WaitDone(t) \/ IoctlFails(t) \/ Finish(t)
<1>1. ASSUME NEW t \in Threads, Begin(t)
      PROVE  Quiet(t) \/ Finish(t) \/ \E r \in Ranges : EnqueueNDRangeKernel(t, r)
  BY <1>1, ObjectCallQuiet, BuildQuiet, UploadQuiet DEF Begin
<1>2. ASSUME NEW t \in Threads, Continue(t)
      PROVE  \/ Quiet(t)
             \/ LoadKernel(t) \/ LoadRefused(t) \/ LoadSubmit(t) \/ LoadDone(t)
             \/ SubmitCmd(t) \/ LaunchSubmit(t) \/ SubmitDone(t) \/ Doorbell(t)
             \/ WaitDone(t) \/ IoctlFails(t)
  BY <1>2, BuildQuiet, UploadQuiet DEF Continue
<1> QED BY <1>1, <1>2 DEF Next

Commands == {LoadTask} \cup {LaunchTask(r) : r \in Ranges}

\* Quiet steps, and a launch that begins.
LEMMA QuietStep ==
  ASSUME LaunchInv, NEW t \in Threads, Quiet(t) \/ \E r \in Ranges : EnqueueNDRangeKernel(t, r)
  PROVE  LaunchInv'
<1>1. CASE Quiet(t)
  <2>1. UNCHANGED <<submitted, taken, done, phase, ticket, result, range, last>>
    BY <1>1 DEF Quiet, path, call
  <2>2. pc' \in [Threads -> Idling \cup LaunchPlaces]
    BY <1>1 DEF Quiet, LaunchInv, ShapeInv, Idling, LaunchPlaces
  <2>3. \A u \in Threads :
          \/ pc'[u] = pc[u]
          \/ pc'[u] \in {"user"} \cup BuildPlaces
          \/ pc'[u] = "load" /\ pc[u] = "upload"
    BY <1>1 DEF Quiet, LaunchInv, ShapeInv
  <2>4. ShapeInv' /\ PathInv' BY <2>1, <2>2 DEF LaunchInv, ShapeInv, PathInv
  <2>5. LastInv' BY <2>1, <2>3 DEF LaunchInv, LastInv, LaunchPlaces, BuildPlaces
  <2> QED BY <2>4, <2>5 DEF LaunchInv
<1>2. ASSUME NEW r \in Ranges, EnqueueNDRangeKernel(t, r)
      PROVE  LaunchInv'
  <2>1. /\ UNCHANGED <<submitted, taken, done, phase, ticket, result, last>>
        /\ range' = [range EXCEPT ![t] = r] /\ pc' = [pc EXCEPT ![t] = "upload"]
    BY <1>2 DEF EnqueueNDRangeKernel, Step, path
  <2>2. ShapeInv' /\ PathInv'
    BY <2>1 DEF LaunchInv, ShapeInv, PathInv, Idling, LaunchPlaces
  <2>3. LastInv'
    BY <2>1 DEF LaunchInv, ShapeInv, LastInv, LaunchPlaces
  <2> QED BY <2>2, <2>3 DEF LaunchInv
<1> QED BY <1>1, <1>2

\* Steps in which a call goes on or comes back and no command is submitted.
LEMMA CallStep ==
  ASSUME LaunchInv, NEW t \in Threads,
         \/ LoadKernel(t) \/ LoadRefused(t) \/ LoadDone(t) \/ SubmitCmd(t) \/ SubmitDone(t)
         \/ Doorbell(t) \/ WaitDone(t) \/ IoctlFails(t) \/ Finish(t)
  PROVE  LaunchInv'
<1>1. UNCHANGED <<submitted, taken, done, range, last>>
  BY DEF LoadKernel, LoadRefused, LoadDone, SubmitCmd, SubmitDone, Doorbell, WaitDone, IoctlFails,
         Finish, call, Svc!Call, Svc!Refuse, Svc!Succeed, Svc!Await, Svc!Fail, Svc!queue
<1>2. PICK n \in Nat, ph \in {"idle", "pending", "waiting"}, rs \in {"none", "ok", "error"} :
        /\ ticket' = [ticket EXCEPT ![t] = n] /\ phase' = [phase EXCEPT ![t] = ph]
        /\ result' = [result EXCEPT ![t] = rs]
        /\ Doorbell(t) \/ Finish(t) => n = Len(submitted)
        /\ SubmitCmd(t) => ph = "pending"
        /\ SubmitDone(t) => phase[t] = "waiting"
  <2>1. Len(submitted) \in Nat /\ ticket[t] \in Nat BY DEF LaunchInv, ShapeInv
  <2>2. CASE LoadKernel(t) BY <2>1, <2>2 DEF LoadKernel, Svc!Call, Svc!Move, SubmitCmd, SubmitDone, Doorbell, Finish, Step
  <2>3. CASE LoadRefused(t) BY <2>1, <2>3 DEF LoadRefused, Svc!Refuse, Svc!Move, SubmitCmd, SubmitDone, Doorbell, Finish, Step
  <2>4. CASE LoadDone(t) BY <2>1, <2>4 DEF LoadDone, Svc!Succeed, Svc!Move, SubmitCmd, SubmitDone, Doorbell, Finish, Step
  <2>5. CASE SubmitCmd(t) BY <2>1, <2>5 DEF SubmitCmd, Svc!Call, Svc!Move, SubmitDone, Doorbell, Finish, Step
  <2>6. CASE SubmitDone(t) BY <2>1, <2>6 DEF SubmitDone, Svc!Succeed, Svc!Move, SubmitCmd, Doorbell, Finish, Step
  <2>7. CASE Doorbell(t) BY <2>1, <2>7 DEF Doorbell, Svc!Await, Svc!Move, SubmitCmd, SubmitDone, Finish, Step
  <2>8. CASE WaitDone(t) BY <2>1, <2>8 DEF WaitDone, Svc!Succeed, Svc!Move, SubmitCmd, SubmitDone, Doorbell, Finish, Step
  <2>9. CASE IoctlFails(t) BY <2>1, <2>9 DEF IoctlFails, Svc!Fail, Svc!Move, Svc!Succeed, SubmitCmd, SubmitDone, Doorbell, Finish, Step
  <2>10. CASE Finish(t) BY <2>1, <2>10 DEF Finish, Svc!Await, Svc!Move, SubmitCmd, SubmitDone, Doorbell, Step
  <2> QED BY <2>2, <2>3, <2>4, <2>5, <2>6, <2>7, <2>8, <2>9, <2>10
<1>3. PICK to \in {"user", "finishing", "loading", "submit", "submitting", "wait", "waiting"} :
        /\ pc' = [pc EXCEPT ![t] = to]
        /\ to \in {"loading", "submit"} => pc[t] \in LaunchPlaces
        /\ to = "submitting" => pc[t] = "submit" /\ SubmitCmd(t)
        /\ to = "wait" => pc[t] = "submitting" /\ SubmitDone(t)
        /\ to = "waiting" => pc[t] = "wait" /\ Doorbell(t)
        /\ to = "finishing" => Finish(t)
  BY DEF LoadKernel, LoadRefused, LoadDone, SubmitCmd, SubmitDone, Doorbell, WaitDone, IoctlFails,
         Finish, Step, Leave, Returns, LaunchPlaces
<1>4. ShapeInv' /\ PathInv'
  BY <1>1, <1>2, <1>3 DEF LaunchInv, ShapeInv, PathInv, Idling, LaunchPlaces
<1>5. LastInv'
  <2> SUFFICES ASSUME NEW u \in Threads
               PROVE  /\ last'[u] <= Len(submitted')
                      /\ pc'[u] \in {"waiting", "finishing"} => last'[u] <= ticket'[u]
                      /\ pc'[u] \in LaunchPlaces => range'[u] \in Ranges
                      /\ pc'[u] \in {"wait", "waiting"} \/ (pc'[u] = "submitting" /\ phase'[u] = "waiting") =>
                           last'[u] >= 1 /\ submitted'[last'[u]] = LaunchTask(range'[u])
    BY DEF LastInv
  <2>1. CASE u # t
    <3>1. pc'[u] = pc[u] /\ ticket'[u] = ticket[u] /\ phase'[u] = phase[u]
      BY <1>2, <1>3, <2>1 DEF LaunchInv, ShapeInv
    <3> QED BY <1>1, <3>1 DEF LaunchInv, LastInv
  <2>2. CASE u = t
    <3>1. pc'[t] = to /\ ticket'[t] = n /\ phase'[t] = ph
      BY <1>2, <1>3 DEF LaunchInv, ShapeInv
    <3>2. last[t] <= Len(submitted) BY DEF LaunchInv, LastInv
    <3>3. pc'[t] \in {"waiting", "finishing"} => last[t] <= ticket'[t]
      BY <1>2, <1>3, <3>1, <3>2
    <3>4. pc'[t] \in LaunchPlaces => range[t] \in Ranges
      BY <1>3, <3>1 DEF LaunchInv, LastInv, LaunchPlaces
    <3>5. pc'[t] \in {"wait", "waiting"} \/ (pc'[t] = "submitting" /\ phase'[t] = "waiting") =>
            last[t] >= 1 /\ submitted[last[t]] = LaunchTask(range[t])
      BY <1>2, <1>3, <3>1 DEF LaunchInv, LastInv
    <3> QED BY <1>1, <2>2, <3>2, <3>3, <3>4, <3>5
  <2> QED BY <2>1, <2>2
<1> QED BY <1>4, <1>5 DEF LaunchInv

\* A command is submitted.
LEMMA SubmitStep ==
  ASSUME LaunchInv, NEW t \in Threads, LoadSubmit(t) \/ LaunchSubmit(t)
  PROVE  LaunchInv'
<1>1. PICK cmd \in Commands, n \in {0, Len(submitted) + 1} :
        /\ submitted' = Append(submitted, cmd)
        /\ phase' = [phase EXCEPT ![t] = "waiting"]
        /\ ticket' = [ticket EXCEPT ![t] = n] /\ result' = [result EXCEPT ![t] = "none"]
        /\ pc[t] \in {"loading", "submitting"}
        /\ pc[t] = "submitting" => cmd = LaunchTask(range[t])
  <2>1. CASE LoadSubmit(t)
    BY <2>1 DEF LoadSubmit, Svc!Submit, Svc!Move, Commands
  <2>2. CASE LaunchSubmit(t)
    <3>1. range[t] \in Ranges BY <2>2 DEF LaunchSubmit, LaunchInv, LastInv, LaunchPlaces
    <3>2. LaunchTask(range[t]) \in Commands BY <3>1 DEF Commands
    <3> QED BY <2>2, <3>2 DEF LaunchSubmit, Svc!Submit, Svc!Move
  <2> QED BY <2>1, <2>2
<1>2. UNCHANGED <<taken, done, pc, range>> /\ last' = [last EXCEPT ![t] = Len(submitted) + 1]
  BY DEF LoadSubmit, LaunchSubmit, Svc!Submit, clVars
<1>3. submitted \in Seq(Commands) /\ Len(submitted) \in Nat
  BY DEF LaunchInv, ShapeInv, Commands
<1>4. /\ submitted' \in Seq(Commands) /\ Len(submitted') = Len(submitted) + 1
      /\ submitted'[Len(submitted) + 1] = cmd
      /\ \A k \in 1 .. Len(submitted) : submitted'[k] = submitted[k]
  BY <1>1, <1>3
<1>5. ShapeInv'
  BY <1>1, <1>2, <1>3, <1>4 DEF LaunchInv, ShapeInv, Commands
<1>6. PathInv'
  BY <1>2, <1>3, <1>4 DEF LaunchInv, ShapeInv, PathInv
<1>7. LastInv'
  <2> SUFFICES ASSUME NEW u \in Threads
               PROVE  /\ last'[u] <= Len(submitted')
                      /\ pc'[u] \in {"waiting", "finishing"} => last'[u] <= ticket'[u]
                      /\ pc'[u] \in LaunchPlaces => range'[u] \in Ranges
                      /\ pc'[u] \in {"wait", "waiting"} \/ (pc'[u] = "submitting" /\ phase'[u] = "waiting") =>
                           last'[u] >= 1 /\ submitted'[last'[u]] = LaunchTask(range'[u])
    BY DEF LastInv
  <2>1. CASE u # t
    <3>1. pc'[u] = pc[u] /\ ticket'[u] = ticket[u] /\ phase'[u] = phase[u] /\ last'[u] = last[u]
          /\ last[u] \in Nat /\ last[u] <= Len(submitted)
      BY <1>1, <1>2, <2>1 DEF LaunchInv, ShapeInv, LastInv
    <3>2. last[u] >= 1 => submitted'[last[u]] = submitted[last[u]] BY <3>1, <1>3, <1>4
    <3> QED BY <1>2, <1>3, <1>4, <3>1, <3>2 DEF LaunchInv, LastInv
  <2>2. CASE u = t
    <3>1. last'[t] = Len(submitted) + 1 /\ pc'[t] \in {"loading", "submitting"} /\ range'[t] = range[t]
      BY <1>1, <1>2 DEF LaunchInv, ShapeInv
    <3>2. range[t] \in Ranges BY <1>1 DEF LaunchInv, LastInv, LaunchPlaces
    <3> QED BY <2>2, <3>1, <3>2, <1>1, <1>2, <1>3, <1>4
  <2> QED BY <2>1, <2>2
<1> QED BY <1>5, <1>6, <1>7 DEF LaunchInv

\* The device takes or completes a command.
LEMMA DeviceStep ==
  ASSUME LaunchInv, DeviceTakes \/ DeviceCompletes
  PROVE  LaunchInv'
<1>1. UNCHANGED <<submitted, phase, ticket, result, pc, last, range>>
  BY DEF DeviceTakes, DeviceCompletes, Svc!Take, Svc!Complete, Svc!clients, clVars, call
<1>2. LastInv' BY <1>1 DEF LaunchInv, LastInv
<1>3. Len(taken) \in Nat /\ Len(submitted) \in Nat /\ taken \in Seq(Commands) /\ submitted \in Seq(Commands)
  BY DEF LaunchInv, ShapeInv, Commands
<1>4. CASE DeviceTakes
  <2>1. done = Len(taken) /\ Len(taken) < Len(submitted) /\ UNCHANGED done
        /\ taken' = Append(taken, submitted[Len(taken) + 1])
    BY <1>4 DEF DeviceTakes, Svc!Take
  <2>2. submitted[Len(taken) + 1] \in Commands BY <1>3, <2>1
  <2>3. /\ taken' \in Seq(Commands) /\ Len(taken') = Len(taken) + 1
        /\ taken'[Len(taken) + 1] = submitted[Len(taken) + 1]
        /\ \A k \in 1 .. Len(taken) : taken'[k] = taken[k]
    BY <1>3, <2>1, <2>2
  <2>4. ShapeInv' BY <1>1, <2>1, <2>3 DEF LaunchInv, ShapeInv, Commands
  <2>5. PathInv' BY <1>1, <1>3, <2>1, <2>3 DEF LaunchInv, PathInv
  <2> QED BY <1>2, <2>4, <2>5 DEF LaunchInv
<1>5. CASE DeviceCompletes
  <2>1. done < Len(taken) /\ done' = done + 1 /\ UNCHANGED taken
    BY <1>5 DEF DeviceCompletes, Svc!Complete
  <2>2. ShapeInv' /\ PathInv' BY <1>1, <1>3, <2>1 DEF LaunchInv, ShapeInv, PathInv
  <2> QED BY <1>2, <2>2 DEF LaunchInv
<1> QED BY <1>4, <1>5

\* The process starts with an empty ring.
LEMMA InitLaunch == Init => LaunchInv
<1> SUFFICES ASSUME Init PROVE LaunchInv OBVIOUS
<1>1. /\ submitted = << >> /\ taken = << >> /\ done = 0
      /\ phase = [c \in Threads |-> "idle"] /\ ticket = [c \in Threads |-> 0]
      /\ result = [c \in Threads |-> "none"] /\ pc = [t \in Threads |-> "user"]
      /\ range = [t \in Threads |-> NoRange] /\ last = [t \in Threads |-> 0]
  BY DEF Init, ClInit, Svc!Init
<1> QED BY <1>1 DEF LaunchInv, ShapeInv, PathInv, LastInv, Idling, LaunchPlaces

\* Every step preserves the invariant.
LEMMA NextLaunch == LaunchInv /\ [Next]_vars => LaunchInv'
<1> SUFFICES ASSUME LaunchInv, [Next]_vars PROVE LaunchInv' OBVIOUS
<1>1. CASE UNCHANGED vars
  BY <1>1 DEF vars, clVars, path, call, LaunchInv, ShapeInv, PathInv, LastInv
<1> QED BY <1>1, StepCases, QuietStep, CallStep, SubmitStep, DeviceStep

\* The invariant of the commands in flight.
THEOREM LaunchInvariance == Spec => []LaunchInv
BY InitLaunch, NextLaunch, PTL DEF Spec

\* The only step in which a launch or clFinish comes back with success is the
\* end of its doorbell, which has seen the completion of what it waits for.
LEMMA SuccessIsWaitDone ==
  ASSUME LaunchInv, [Next]_vars, NEW t \in Threads, LaunchSucceeds(t) \/ FinishSucceeds(t)
  PROVE  WaitDone(t)
<1>1. pc[t] \in {"waiting", "finishing"} /\ pc'[t] = "user" /\ result'[t] = "ok"
  BY DEF LaunchSucceeds, FinishSucceeds
<1>2. ~UNCHANGED pc BY <1>1
<1>3. ~UNCHANGED vars /\ ~DeviceTakes /\ ~DeviceCompletes
  BY <1>2 DEF vars, clVars, DeviceTakes, DeviceCompletes
<1>4. PICK u \in Threads :
        \/ Quiet(u) \/ \E r \in Ranges : EnqueueNDRangeKernel(u, r)
        \/ LoadKernel(u) \/ LoadRefused(u) \/ LoadSubmit(u) \/ LoadDone(u)
        \/ SubmitCmd(u) \/ LaunchSubmit(u) \/ SubmitDone(u) \/ Doorbell(u)
        \/ WaitDone(u) \/ IoctlFails(u) \/ Finish(u)
  BY <1>3, StepCases
<1>5. ~LoadSubmit(u) /\ ~LaunchSubmit(u)
  BY <1>2 DEF LoadSubmit, LaunchSubmit, clVars
<1>6. \E to : pc' = [pc EXCEPT ![u] = to]
  BY <1>2, <1>4, <1>5 DEF Quiet, EnqueueNDRangeKernel, LoadKernel, LoadRefused, LoadDone, SubmitCmd,
       SubmitDone, Doorbell, WaitDone, IoctlFails, Finish, Step, Leave, Returns
<1>7. u = t
  BY <1>1, <1>6 DEF LaunchInv, ShapeInv
<1>8. ~Quiet(t) BY <1>1, <1>2 DEF Quiet, BuildPlaces
<1>9. ~IoctlFails(t)
  <2> SUFFICES ASSUME IoctlFails(t) PROVE FALSE OBVIOUS
  <2>1. result' = [result EXCEPT ![t] = "error"] BY DEF IoctlFails, Svc!Fail, Svc!Move
  <2> QED BY <1>1, <2>1 DEF LaunchInv, ShapeInv
<1>10. /\ ~LoadKernel(t) /\ ~LoadRefused(t) /\ ~LoadDone(t) /\ ~SubmitCmd(t) /\ ~SubmitDone(t)
       /\ ~Doorbell(t) /\ ~Finish(t) /\ \A r \in Ranges : ~EnqueueNDRangeKernel(t, r)
  BY <1>1 DEF LoadKernel, LoadRefused, LoadDone, SubmitCmd, SubmitDone, Doorbell, Finish,
       EnqueueNDRangeKernel, Step
<1> QED BY <1>4, <1>5, <1>7, <1>8, <1>9, <1>10

\* After a launch or a clFinish that succeeds nothing of the thread is in
\* flight, for any number of threads that share the ring.
THEOREM SuccessMeansNothingInFlight == Spec => NothingInFlight
<1>1. LaunchInv /\ [Next]_vars =>
        [\A t \in Threads : LaunchSucceeds(t) \/ FinishSucceeds(t) => last[t] <= done]_vars
  <2> SUFFICES ASSUME LaunchInv, [Next]_vars, NEW t \in Threads, LaunchSucceeds(t) \/ FinishSucceeds(t)
               PROVE  last[t] <= done
    OBVIOUS
  <2>1. WaitDone(t) BY SuccessIsWaitDone
  <2>2. done >= ticket[t] /\ pc[t] \in {"waiting", "finishing"} BY <2>1 DEF WaitDone, Svc!Succeed
  <2>3. last[t] <= ticket[t] /\ last[t] \in Nat /\ ticket[t] \in Nat /\ done \in Nat
    BY <2>2 DEF LaunchInv, ShapeInv, LastInv
  <2> QED BY <2>2, <2>3
<1> QED BY <1>1, LaunchInvariance, PTL DEF Spec, NothingInFlight

\* A launch that succeeds has run with a grid that covers its range, for every
\* range that fits the types of the code and any number of threads.
THEOREM LaunchCoversRange ==
  ASSUME \A r \in Ranges : WellFormed(r)
  PROVE  Spec => WorkCovered
<1>1. LaunchInv /\ [Next]_vars =>
        [\A t \in Threads : LaunchSucceeds(t) =>
           LET task == taken[last[t]]
               n    == range[t].global
           IN  /\ Covers(task.grid_dim_x, task.block_dim_x, n[1])
               /\ range[t].work_dim > 1 => Covers(task.grid_dim_y, task.block_dim_y, n[2])]_vars
  <2> SUFFICES ASSUME LaunchInv, [Next]_vars, NEW t \in Threads, LaunchSucceeds(t)
               PROVE  /\ Covers(taken[last[t]].grid_dim_x, taken[last[t]].block_dim_x, range[t].global[1])
                      /\ range[t].work_dim > 1 =>
                           Covers(taken[last[t]].grid_dim_y, taken[last[t]].block_dim_y, range[t].global[2])
    OBVIOUS
  <2>1. WaitDone(t) /\ pc[t] = "waiting" BY SuccessIsWaitDone DEF LaunchSucceeds
  <2>2. done >= ticket[t] BY <2>1 DEF WaitDone, Svc!Succeed
  <2>3. /\ last[t] <= ticket[t] /\ last[t] \in Nat /\ ticket[t] \in Nat /\ done \in Nat
        /\ last[t] >= 1 /\ submitted[last[t]] = LaunchTask(range[t]) /\ range[t] \in Ranges
        /\ done <= Len(taken) /\ Len(taken) \in Nat
    BY <2>1 DEF LaunchInv, ShapeInv, LastInv, PathInv, LaunchPlaces
  <2>4. last[t] \in 1 .. Len(taken) BY <2>2, <2>3
  <2>5. taken[last[t]] = LaunchTask(range[t]) BY <2>3, <2>4 DEF LaunchInv, PathInv
  <2> DEFINE r == range[t]
  <2>6. WellFormed(r) /\ r.work_dim \in {1, 2} BY <2>3 DEF WellFormed
  <2>7. /\ taken[last[t]].grid_dim_x = Default(Grid(r, 1), 32)
        /\ taken[last[t]].block_dim_x = Default(Block(r, 1), 32)
        /\ taken[last[t]].grid_dim_y = Default(Grid(r, 2), 1)
        /\ taken[last[t]].block_dim_y = Default(Block(r, 2), 1)
    BY <2>5 DEF LaunchTask
  <2> HIDE DEF r
  <2>8. Covers(Default(Grid(r, 1), 32), Default(Block(r, 1), 32), r.global[1])
    <3>1. 1 \in 1 .. r.work_dim BY <2>6
    <3> QED BY <2>6, <3>1, GridCovers
  <2>9. r.work_dim > 1 => Covers(Default(Grid(r, 2), 1), Default(Block(r, 2), 1), r.global[2])
    <3> SUFFICES ASSUME r.work_dim > 1
                 PROVE  Covers(Default(Grid(r, 2), 1), Default(Block(r, 2), 1), r.global[2])
      OBVIOUS
    <3>1. 2 \in 1 .. r.work_dim BY <2>6
    <3> QED BY <2>6, <3>1, GridCovers
  <2> QED BY <2>7, <2>8, <2>9 DEF r
<1> QED BY <1>1, LaunchInvariance, PTL DEF Spec, WorkCovered
=============================================================================
