---------------------------- MODULE MCRpcChannel ----------------------------
(* The RPC channel with job threads and the poll timer.  Each call opens at *)
(* most one connection, which bounds the connection ids.                    *)
EXTENDS RpcRefinement, FiniteSets

MCConns == 1 .. MaxCalls + Cardinality(Callers) + 1

MCFairSpec == Spec /\ ClientFairness /\ ServerFairness(MCConns)

MCAbandonedConnsClosed == AbandonedConnsClosed(MCConns)
=============================================================================
