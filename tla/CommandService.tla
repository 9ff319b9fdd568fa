--------------------------- MODULE CommandService ---------------------------
(***************************************************************************)
(* What the command path promises its callers, without ring, lock or       *)
(* interrupts: one bounded first-in first-out queue of commands. A call    *)
(* puts at most one command in the queue, the device executes every        *)
(* command as it was submitted, once and in order, and a call reports      *)
(* success only when the commands it waits for are complete.               *)
(***************************************************************************)
EXTENDS Integers, Sequences

CONSTANTS
  Clients,    \* who calls
  Commands,   \* what can be submitted
  Failures,   \* what a call may return besides "ok"
  Capacity    \* most commands submitted and not complete at the same time

VARIABLES
  submitted,  \* commands accepted, in order
  taken,      \* commands the device has begun to execute, in order
  done,       \* how many of them are complete
  phase,      \* per client: "idle", "pending" (command not accepted yet), "waiting"
  ticket,     \* per client: how many commands must be complete before "ok"
  result      \* per client: what its last call returned, "none" inside one

queue   == <<submitted, taken, done>>
clients == <<phase, ticket, result>>
vars    == <<queue, clients>>

Init ==
  /\ submitted = << >> /\ taken = << >> /\ done = 0
  /\ phase  = [c \in Clients |-> "idle"]
  /\ ticket = [c \in Clients |-> 0]
  /\ result = [c \in Clients |-> "none"]

Move(c, from, to, n, r) ==
  /\ phase[c] = from
  /\ phase'  = [phase  EXCEPT ![c] = to]
  /\ ticket' = [ticket EXCEPT ![c] = n]
  /\ result' = [result EXCEPT ![c] = r]

\* A call refused on entry.
Refuse(c) == /\ \E r \in Failures : Move(c, "idle", "idle", 0, r)
             /\ UNCHANGED queue

\* A call that has a command to submit.
Call(c) == Move(c, "idle", "pending", 0, "none") /\ UNCHANGED queue

\* A call that only waits, for everything submitted so far.
Await(c) == Move(c, "idle", "waiting", Len(submitted), "none") /\ UNCHANGED queue

\* The command is accepted; the call then waits for it, or for nothing.
Submit(c, cmd) ==
  /\ Len(submitted) - done < Capacity
  /\ \E n \in {0, Len(submitted) + 1} : Move(c, "pending", "waiting", n, "none")
  /\ submitted' = Append(submitted, cmd)
  /\ UNCHANGED <<taken, done>>

Fail(c) ==
  /\ \E from \in {"pending", "waiting"}, r \in Failures : Move(c, from, "idle", ticket[c], r)
  /\ UNCHANGED queue

Succeed(c) ==
  /\ done >= ticket[c]
  /\ Move(c, "waiting", "idle", ticket[c], "ok")
  /\ UNCHANGED queue

Take ==
  /\ done = Len(taken) /\ Len(taken) < Len(submitted)
  /\ taken' = Append(taken, submitted[Len(taken) + 1])
  /\ UNCHANGED <<submitted, done, clients>>

Complete ==
  /\ done < Len(taken)
  /\ done' = done + 1
  /\ UNCHANGED <<submitted, taken, clients>>

Next ==
  \/ \E c \in Clients :
       \/ Refuse(c) \/ Call(c) \/ Await(c) \/ Fail(c) \/ Succeed(c)
       \/ \E cmd \in Commands : Submit(c, cmd)
  \/ Take \/ Complete

Spec == Init /\ [][Next]_vars
=============================================================================
