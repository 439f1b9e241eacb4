------------------------------- MODULE Calls -------------------------------
(***************************************************************************)
(* What the transport of packages/pi-rpc promises to those who call it:    *)
(* request() is a remote procedure call. A call is made at most once, it   *)
(* settles at most once, and if it settles with a response then with the   *)
(* response to this call. A failure or a stop settles every call at once.  *)
(*                                                                         *)
(* Neither ids, nor a process, nor a wire appear here; PiRpcConnection is  *)
(* shown to implement this specification.                                  *)
(***************************************************************************)
EXTENDS Integers

CONSTANT Calls             \* the calls that may be made, positive numbers

VARIABLE call              \* what became of each call

None == 0
Replies == {"answered", "refused"}
Waiting == {c \in Calls : call[c].outcome = "waiting"}

Init == call = [c \in Calls |-> [outcome |-> "unsent", reply |-> None]]

Outcome(c, how, reply) == call' = [call EXCEPT ![c] = [outcome |-> how, reply |-> reply]]

\* request() gets past its guards.
Make(c) == call[c].outcome = "unsent" /\ Outcome(c, "waiting", None)

\* The response to this very call arrives.
Reply(c) == c \in Waiting /\ \E how \in Replies : Outcome(c, how, c)

\* The deadline of the call passes, or its command could not be written.
GiveUp(c) == c \in Waiting /\ \E how \in {"timeout", "rejected"} : Outcome(c, how, None)

\* The process fails or is stopped: nobody goes on waiting.
Abort == call' = [c \in Calls |->
  IF c \in Waiting THEN [outcome |-> "rejected", reply |-> None] ELSE call[c]]

Next == (\E c \in Calls : Make(c) \/ Reply(c) \/ GiveUp(c)) \/ Abort

Spec == Init /\ [][Next]_call
=============================================================================
