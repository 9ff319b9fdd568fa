-------------------------- MODULE TransferService --------------------------
(***************************************************************************)
(* What DMA_TRANSFER promises its caller, without pages, scatterlists and  *)
(* descriptors: while a transfer is under way cells of its target, and no  *)
(* others, take over the contents of their sources, in any order; it       *)
(* succeeds only when all of them have, and may fail at any time, with     *)
(* some of them moved. After a failure cells of its target may go on       *)
(* moving, until the device has stopped; no transfer begins before.        *)
(***************************************************************************)
CONSTANTS
  Clients,     \* who calls
  Requests,    \* what can be asked for
  NoRequest,   \* not a request
  Failures,    \* what a call may return besides "ok"
  Contents,    \* what memory holds at first
  SourceOf(_)  \* for a request, the source cell of each cell of its target

VARIABLES
  mem,         \* contents of host and device memory
  request,     \* per client: its transfer under way, or NoRequest
  late,        \* per client: its failed transfer that may still move, or NoRequest
  result       \* per client: what its last call returned, "none" inside one

vars == <<mem, request, late, result>>

Init ==
  /\ mem = Contents
  /\ request = [c \in Clients |-> NoRequest]
  /\ late    = [c \in Clients |-> NoRequest]
  /\ result  = [c \in Clients |-> "none"]

Refuse(c) ==
  /\ request[c] = NoRequest
  /\ \E r \in Failures : result' = [result EXCEPT ![c] = r]
  /\ UNCHANGED <<mem, request, late>>

Begin(c, r) ==
  /\ request[c] = NoRequest /\ late[c] = NoRequest
  /\ request' = [request EXCEPT ![c] = r]
  /\ result'  = [result  EXCEPT ![c] = "none"]
  /\ UNCHANGED <<mem, late>>

Move(c, r) ==
  /\ r \in {request[c], late[c]} /\ r # NoRequest
  /\ LET source == SourceOf(r) IN
     \E some \in SUBSET DOMAIN source :
       mem' = [x \in DOMAIN mem |-> IF x \in some THEN mem[source[x]] ELSE mem[x]]
  /\ UNCHANGED <<request, late, result>>

End(c, code) ==
  /\ request[c] # NoRequest
  /\ request' = [request EXCEPT ![c] = NoRequest]
  /\ result'  = [result  EXCEPT ![c] = code]
  /\ UNCHANGED mem

Fail(c) ==
  /\ \E r \in Failures : End(c, r)
  /\ \E r \in {request[c], NoRequest} : late' = [late EXCEPT ![c] = r]

\* The device has stopped.
Settle(c) ==
  /\ late[c] # NoRequest
  /\ late' = [late EXCEPT ![c] = NoRequest]
  /\ UNCHANGED <<mem, request, result>>

Succeed(c) ==
  /\ LET source == SourceOf(request[c]) IN \A x \in DOMAIN source : mem[x] = mem[source[x]]
  /\ End(c, "ok")
  /\ UNCHANGED late

Next ==
  \E c \in Clients :
    \/ Refuse(c) \/ Fail(c) \/ Succeed(c) \/ Settle(c)
    \/ \E r \in Requests : Begin(c, r) \/ Move(c, r)

Spec == Init /\ [][Next]_vars
=============================================================================
