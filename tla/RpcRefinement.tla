---------------------------- MODULE RpcRefinement ----------------------------
(***************************************************************************)
(* RpcChannel implements SerialCalls: a caller is admitted while it holds  *)
(* the mutex, and answered once call() has handed it a response.           *)
(***************************************************************************)
EXTENDS RpcChannel

StageOf(p) ==
  CASE p = "idle" -> "out" [] p = "waiting" -> "queued" [] p = "returned" -> "back"
    [] OTHER -> "admitted"

Stages  == [j \in Callers |-> StageOf(pc[j])]
Answers == [j \in Callers |-> IF outcome[j] = "reply" THEN got[j] ELSE 0]

Calls == INSTANCE SerialCalls WITH
  running <- alive, up <- helperUp, stage <- Stages, ticket <- reqId,
  answer <- Answers, next <- nextId

(* Whatever the connections, the scanner and the handler loop of the        *)
(* helper, and reconnect() do, each caller sees the service of SerialCalls. *)
ImplementsSerialCalls == Calls!Spec
=============================================================================
