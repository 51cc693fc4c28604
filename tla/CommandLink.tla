---------------------------- MODULE CommandLink ------------------------------
(***************************************************************************)
(* What an acknowledged command promises its caller, as abstract as it can *)
(* be said: a call ends with "ok" or with "failed"; "failed" says nothing  *)
(* about the board, "ok" says that the board has carried the command out,  *)
(* unless somebody else has used the same port during the call.            *)
(***************************************************************************)
CONSTANT Calls

VARIABLES
  call,      \* "idle", "busy", "ok" or "failed"
  ran,       \* the calls whose command the board has carried out
  disturbed  \* the calls during which somebody else used the port

vars == <<call, ran, disturbed>>

Init ==
  /\ call = [c \in Calls |-> "idle"]
  /\ ran = {}
  /\ disturbed = {}

\* A call begins; it, and the calls under way, may be in each other's way.
Begin(c) ==
  /\ call[c] = "idle"
  /\ call' = [call EXCEPT ![c] = "busy"]
  /\ \E D \in SUBSET Calls : disturbed' = disturbed \cup D
  /\ UNCHANGED ran

\* The board may carry the command out during the call or, late, after it.
Run(c) ==
  /\ call[c] # "idle"
  /\ ran' = ran \cup {c}
  /\ UNCHANGED <<call, disturbed>>

\* Others use the port: every call in D may be affected.
Disturb ==
  /\ \E D \in SUBSET Calls : disturbed' = disturbed \cup D
  /\ UNCHANGED <<call, ran>>

Succeed(c) ==
  /\ call[c] = "busy"
  /\ c \in ran \cup disturbed
  /\ call' = [call EXCEPT ![c] = "ok"]
  /\ UNCHANGED <<ran, disturbed>>

Fail(c) ==
  /\ call[c] = "busy"
  /\ call' = [call EXCEPT ![c] = "failed"]
  /\ UNCHANGED <<ran, disturbed>>

Next ==
  \/ Disturb
  \/ \E c \in Calls : Begin(c) \/ Run(c) \/ Succeed(c) \/ Fail(c)

Spec == Init /\ [][Next]_vars

=============================================================================
