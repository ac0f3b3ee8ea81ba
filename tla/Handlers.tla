------------------------------ MODULE Handlers ------------------------------
(***************************************************************************)
(* How the API runs a request: a NestJS handler executes up to an await,   *)
(* other requests run, and it goes on with what it read before.  A request *)
(* is a record: "at" names the await it waits in, the other fields are the *)
(* local variables it still needs.                                         *)
(***************************************************************************)
CONSTANTS
  Requests,       \* handler activations that can run at the same time
  MayFail,        \* whether requests may fail
  None            \* null

ASSUME HandlersAssumption == MayFail \in BOOLEAN

VARIABLE request  \* where each request is

Idle == [at |-> "idle"]

HandlersInit == request = [r \in Requests |-> Idle]

Start(r, local) ==
  /\ request[r] = Idle
  /\ request' = [request EXCEPT ![r] = local]

\* The request awaits its next statement, and keeps its local variables.
Go(r, at) == request' = [request EXCEPT ![r].at = at]

\* The handler answers, or throws.
Stop(r) == request' = [request EXCEPT ![r] = Idle]

\* An await throws, a check refuses, or the API crashes.
Abandon(r) == MayFail /\ request[r] # Idle /\ Stop(r)
=============================================================================
