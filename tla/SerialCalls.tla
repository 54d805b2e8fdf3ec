----------------------------- MODULE SerialCalls -----------------------------
(***************************************************************************)
(* What proton-rpc.h promises to the do_* methods and the poll timer,      *)
(* without connections, buffers or goroutines: calls are served one at a   *)
(* time, in the order of their tickets; a call is answered with its own    *)
(* answer; it fails for no reason but a cancellation of its own or the     *)
(* death of the helper; and nothing less than that death can bring the     *)
(* backend down.                                                           *)
(***************************************************************************)
EXTENDS Naturals

CONSTANT Callers

VARIABLES
  running,    \* the backend process
  up,         \* the helper process
  stage,      \* where each caller is
  ticket,     \* the number its current or last call was admitted with
  answer,     \* the number its answer was made for
  cancelled,  \* its GCancellable
  next        \* next ticket

vars == <<running, up, stage, ticket, answer, cancelled, next>>

NoAnswer == 0

Init ==
  /\ running = TRUE /\ up = TRUE
  /\ stage = [j \in Callers |-> "out"]
  /\ ticket = [j \in Callers |-> 0]
  /\ answer = [j \in Callers |-> NoAnswer]
  /\ cancelled = [j \in Callers |-> FALSE]
  /\ next = 1

Moves(j, from, to) ==
  /\ running
  /\ stage[j] = from
  /\ stage' = [stage EXCEPT ![j] = to]

(* A fresh cancellable, or the one of the call before.                      *)
Ask(j) ==
  /\ Moves(j, "out", "queued")
  /\ answer' = [answer EXCEPT ![j] = NoAnswer]
  /\ \E c \in {FALSE, cancelled[j]} : cancelled' = [cancelled EXCEPT ![j] = c]
  /\ UNCHANGED <<running, up, ticket, next>>

Admit(j) ==
  /\ Moves(j, "queued", "admitted")
  /\ \A k \in Callers : stage[k] # "admitted"
  /\ ticket' = [ticket EXCEPT ![j] = next]
  /\ next' = next + 1
  /\ UNCHANGED <<running, up, answer, cancelled>>

Reply(j) ==
  /\ Moves(j, "admitted", "back")
  /\ answer' = [answer EXCEPT ![j] = ticket[j]]
  /\ UNCHANGED <<running, up, ticket, cancelled, next>>

Abort(j) ==
  /\ Moves(j, "admitted", "back")
  /\ cancelled[j] \/ ~ up
  /\ running' \in {TRUE, up}
  /\ UNCHANGED <<up, ticket, answer, cancelled, next>>

Leave(j) ==
  /\ Moves(j, "back", "out")
  /\ running' \in {TRUE, up}
  /\ UNCHANGED <<up, ticket, answer, cancelled, next>>

Cancel(j) ==
  /\ running /\ stage[j] # "out"
  /\ cancelled' = [cancelled EXCEPT ![j] = TRUE]
  /\ UNCHANGED <<running, up, stage, ticket, answer, next>>

HelperDies ==
  /\ up' = FALSE
  /\ UNCHANGED <<running, stage, ticket, answer, cancelled, next>>

Next ==
  \/ \E j \in Callers : Ask(j) \/ Admit(j) \/ Reply(j) \/ Abort(j) \/ Leave(j) \/ Cancel(j)
  \/ HelperDies

Spec == Init /\ [][Next]_vars
=============================================================================
