----------------------------- MODULE RpcChannel -----------------------------
(***************************************************************************)
(* The JSON-RPC channel between the GVfs backend (backend/proton-rpc.c,    *)
(* one mutex, one socket, blocking calls) and the Go helper                *)
(* (helper/rpc/server.go, one scanner goroutine and one handler loop for   *)
(* each accepted connection), from the moment proton_rpc_new succeeded.    *)
(*                                                                         *)
(* The client never compares the id of a response with the id it sent      *)
(* (recv_response marks expected_id as unused): that a caller gets its own *)
(* answer rests on the mutex and on replacing the connection whenever a    *)
(* call is abandoned.  Payloads are left out: a request or a response is   *)
(* its id.                                                                 *)
(***************************************************************************)
EXTENDS Naturals, Sequences

CONSTANTS
  Jobs,      \* GVfs job threads running a do_* method (MAX_JOB_THREADS of them)
  MainLoop,  \* the GLib main loop, which runs poll_events_cb
  Nobody,    \* "the mutex is free"
  MaxCalls   \* bound: no new call starts once next_id exceeds it

Callers == Jobs \cup {MainLoop}

ASSUME CallersAssumption == MainLoop \notin Jobs /\ Nobody \notin Callers
ASSUME MaxCallsAssumption == MaxCalls \in Nat

NoId   == 0   \* request ids start at 1
NoConn == 0   \* rpc->conn == NULL after a reconnect that failed

VARIABLES
  alive,      \* the backend process has not crashed
  lock,       \* holder of rpc->lock
  nextId,     \* rpc->next_id
  cur,        \* the connection behind rpc->conn, reader and writer
  pc,         \* where each caller is in call()
  reqId,      \* id of the caller's current or last request
  derefs,     \* the caller dereferences the GError of a failed call
  cancelled,  \* the job's GCancellable
  outcome,    \* how the caller's last call ended
  got,        \* id of the response it was given
  helperUp,   \* the helper process runs
  opened,     \* number of connections made so far
  conns       \* state of each connection, the abandoned ones included

clientVars == <<alive, lock, nextId, cur, pc, reqId, derefs, cancelled, outcome, got>>
serverVars == <<helperUp, opened, conns>>
vars       == <<clientVars, serverVars>>

(***************************************************************************)
(* A connection: the two socket buffers, the scanner goroutine with the    *)
(* request it is handing over on the unbuffered channel, the request the   *)
(* handler loop is dispatching, the context handlers get, and whether      *)
(* handleConn still runs.                                                  *)
(***************************************************************************)
ConnState ==
  [wire    : Seq(Nat),
   scanner : {"reading", "sending", "done"},
   held    : Nat,
   busy    : Nat,
   ctxDone : BOOLEAN,
   replies : Seq(Nat),
   serving : BOOLEAN]

FreshConn ==
  [wire |-> <<>>, scanner |-> "reading", held |-> NoId, busy |-> NoId,
   ctxDone |-> FALSE, replies |-> <<>>, serving |-> TRUE]

PcValues == {"idle", "waiting", "sending", "receiving", "reconnecting", "returned"}
Outcomes == {"none", "reply", "error", "cancelled", "unset"}

TypeOK ==
  /\ alive \in BOOLEAN
  /\ lock \in Callers \cup {Nobody}
  /\ nextId \in Nat \ {0}
  /\ opened \in Nat \ {0}
  /\ cur \in 0 .. opened
  /\ pc \in [Callers -> PcValues]
  /\ reqId \in [Callers -> Nat]
  /\ derefs \in [Callers -> BOOLEAN]
  /\ cancelled \in [Callers -> BOOLEAN]
  /\ outcome \in [Callers -> Outcomes]
  /\ got \in [Callers -> Nat]
  /\ helperUp \in BOOLEAN
  /\ conns \in [1 .. opened -> ConnState]

Init ==
  /\ alive = TRUE
  /\ lock = Nobody
  /\ nextId = 1
  /\ cur = 1
  /\ pc = [j \in Callers |-> "idle"]
  /\ reqId = [j \in Callers |-> NoId]
  /\ derefs = [j \in Callers |-> FALSE]
  /\ cancelled = [j \in Callers |-> FALSE]
  /\ outcome = [j \in Callers |-> "none"]
  /\ got = [j \in Callers |-> NoId]
  /\ helperUp = TRUE
  /\ opened = 1
  /\ conns = [c \in 1 .. 1 |-> FreshConn]

(* The client's end is closed: replaced by reconnect(), or gone with the    *)
(* backend process.                                                        *)
ClientClosed(c) == cur # c \/ ~ alive

ConnBecomes(c, conn) == conns' = [conns EXCEPT ![c] = conn]

-----------------------------------------------------------------------------
(* The client: call(), send_request(), recv_response(), reconnect().       *)

(* A proton_rpc_* function built its parameters and enters call().          *)
EnterCall(j) ==
  /\ alive /\ pc[j] = "idle"
  /\ nextId <= MaxCalls
  /\ pc' = [pc EXCEPT ![j] = "waiting"]
  /\ outcome' = [outcome EXCEPT ![j] = "none"]
  /\ UNCHANGED <<alive, lock, nextId, cur, reqId, got, serverVars>>

(* poll_events_cb: GetEvents, not cancellable; a NULL error is tolerated.   *)
PollTick ==
  /\ EnterCall(MainLoop)
  /\ UNCHANGED <<derefs, cancelled>>

(* A do_* method of a new job, with a fresh GCancellable.                   *)
StartJob(j) ==
  /\ j \in Jobs
  /\ EnterCall(j)
  /\ derefs' = [derefs EXCEPT ![j] = TRUE]
  /\ cancelled' = [cancelled EXCEPT ![j] = FALSE]

(* do_query_info's second call, with the same GCancellable; its error is    *)
(* not looked at.                                                           *)
FetchThumbnail(j) ==
  /\ j \in Jobs /\ outcome[j] = "reply" /\ derefs[j]
  /\ EnterCall(j)
  /\ derefs' = [derefs EXCEPT ![j] = FALSE]
  /\ UNCHANGED cancelled

StartCall(j) == (j = MainLoop /\ PollTick) \/ StartJob(j) \/ FetchThumbnail(j)

(* g_mutex_lock, next_id++, build_request.                                 *)
Lock(j) ==
  /\ alive /\ pc[j] = "waiting" /\ lock = Nobody
  /\ lock' = j
  /\ reqId' = [reqId EXCEPT ![j] = nextId]
  /\ nextId' = nextId + 1
  /\ pc' = [pc EXCEPT ![j] = "sending"]
  /\ UNCHANGED <<alive, cur, derefs, cancelled, outcome, got, serverVars>>

(* Every path out of call(): the result is handed over, the mutex freed.   *)
Unlock(j, result) ==
  /\ lock' = Nobody
  /\ pc' = [pc EXCEPT ![j] = "returned"]
  /\ outcome' = [outcome EXCEPT ![j] = result]

(* The helper still has the peer end of the current connection open.       *)
PeerOpen == cur # NoConn /\ conns[cur].serving

(* Mutant: the request is written again after it was written.               *)
SendRequestTwice(j) ==
  /\ alive /\ pc[j] = "sending"
  /\ PeerOpen
  /\ ConnBecomes(cur, [conns[cur] EXCEPT !.wire = @ \o <<reqId[j], reqId[j]>>])
  /\ pc' = [pc EXCEPT ![j] = "receiving"]
  /\ UNCHANGED <<alive, lock, nextId, cur, reqId, derefs, cancelled, outcome, got,
                 helperUp, opened>>

SendRequest(j) ==
  /\ alive /\ pc[j] = "sending"
  /\ PeerOpen
  /\ ConnBecomes(cur, [conns[cur] EXCEPT !.wire = Append(@, reqId[j])])
  /\ pc' = [pc EXCEPT ![j] = "receiving"]
  /\ UNCHANGED <<alive, lock, nextId, cur, reqId, derefs, cancelled, outcome, got,
                 helperUp, opened>>

(* write_all fails with EPIPE: error set, the connection is kept.          *)
SendFails(j) ==
  /\ alive /\ pc[j] = "sending"
  /\ cur # NoConn /\ ~ conns[cur].serving
  /\ Unlock(j, "error")
  /\ UNCHANGED <<alive, nextId, cur, reqId, derefs, cancelled, got, serverVars>>

(* After a failed reconnect rpc->writer points into a freed connection: the *)
(* write either faults or is refused by GIO's type check, which sets no     *)
(* error.                                                                   *)
SendDangling(j) ==
  /\ alive /\ pc[j] = "sending"
  /\ cur = NoConn
  /\ alive' \in BOOLEAN
  /\ Unlock(j, "unset")
  /\ UNCHANGED <<nextId, cur, reqId, derefs, cancelled, got, serverVars>>

(* recv_response reads one line; its id is not looked at.                  *)
ReceiveReply(j) ==
  /\ alive /\ pc[j] = "receiving"
  /\ conns[cur].replies # <<>>
  /\ got' = [got EXCEPT ![j] = Head(conns[cur].replies)]
  /\ ConnBecomes(cur, [conns[cur] EXCEPT !.replies = Tail(@)])
  /\ Unlock(j, "reply")
  /\ UNCHANGED <<alive, nextId, cur, reqId, derefs, cancelled, helperUp, opened>>

(* The helper closed its end: a reset or a cut line gives an error, a clean *)
(* end of file gives NULL with no error set.                                *)
ReceiveEof(j) ==
  /\ alive /\ pc[j] = "receiving"
  /\ conns[cur].replies = <<>> /\ ~ conns[cur].serving
  /\ \E result \in {"error", "unset"} : Unlock(j, result)
  /\ UNCHANGED <<alive, nextId, cur, reqId, derefs, cancelled, got, serverVars>>

(* Mutant: a cancelled call leaves its connection to the next one.          *)
ReceiveCancelledKeepsConn(j) ==
  /\ alive /\ pc[j] = "receiving"
  /\ cancelled[j]
  /\ Unlock(j, "cancelled")
  /\ UNCHANGED <<alive, nextId, cur, reqId, derefs, cancelled, got, serverVars>>

(* Mutant: the cancellable is looked at only once a response has come.      *)
ReceiveCancelledLate(j) ==
  /\ alive /\ pc[j] = "receiving"
  /\ cancelled[j] /\ conns[cur].replies # <<>>
  /\ cur' = NoConn
  /\ pc' = [pc EXCEPT ![j] = "reconnecting"]
  /\ UNCHANGED <<alive, lock, nextId, reqId, derefs, cancelled, outcome, got, serverVars>>

(* The read was cancelled: reconnect() first drops the old connection ...   *)
ReceiveCancelled(j) ==
  /\ alive /\ pc[j] = "receiving"
  /\ cancelled[j]
  /\ cur' = NoConn
  /\ pc' = [pc EXCEPT ![j] = "reconnecting"]
  /\ UNCHANGED <<alive, lock, nextId, reqId, derefs, cancelled, outcome, got, serverVars>>

(* Mutant: the result of connecting is not looked at.                       *)
ReconnectUnchecked(j) ==
  /\ alive /\ pc[j] = "reconnecting"
  /\ cur' = opened + 1
  /\ Unlock(j, "cancelled")
  /\ UNCHANGED <<alive, nextId, reqId, derefs, cancelled, got, serverVars>>

(* Mutant: only the old connection is dropped.                              *)
ReconnectSkipped(j) ==
  /\ alive /\ pc[j] = "reconnecting"
  /\ Unlock(j, "cancelled")
  /\ UNCHANGED <<alive, nextId, cur, reqId, derefs, cancelled, got, serverVars>>

(* ... then connects again; a failure to do so is only logged.  A helper    *)
(* that lives is taken to be listening at the path it was found at.         *)
Reconnect(j) ==
  /\ alive /\ pc[j] = "reconnecting"
  /\ \/ /\ helperUp
        /\ opened' = opened + 1
        /\ cur' = opened + 1
        /\ conns' = [c \in 1 .. opened + 1 |->
                       IF c = opened + 1 THEN FreshConn ELSE conns[c]]
     \/ /\ ~ helperUp
        /\ UNCHANGED <<opened, cur, conns>>
  /\ Unlock(j, "cancelled")
  /\ UNCHANGED <<alive, nextId, reqId, derefs, cancelled, got, helperUp>>

(* Back in the do_* method: a failure is reported with                      *)
(* g_vfs_job_failed_from_error, which reads through the GError.             *)
Return(j) ==
  /\ alive /\ pc[j] = "returned"
  /\ alive' = ~ (outcome[j] = "unset" /\ derefs[j])
  /\ pc' = [pc EXCEPT ![j] = "idle"]
  /\ UNCHANGED <<lock, nextId, cur, reqId, derefs, cancelled, outcome, got, serverVars>>

(* gvfsd delivers a cancellation from the main loop, so not while that loop *)
(* is inside poll_events_cb.                                                *)
CancelJob(j) ==
  /\ alive /\ j \in Jobs
  /\ pc[MainLoop] = "idle"
  /\ pc[j] # "idle" /\ ~ cancelled[j]
  /\ cancelled' = [cancelled EXCEPT ![j] = TRUE]
  /\ UNCHANGED <<alive, lock, nextId, cur, pc, reqId, derefs, outcome, got, serverVars>>

-----------------------------------------------------------------------------
(* The helper: the scanner goroutine and the handler loop of handleConn.   *)

ScanRequest(c) ==
  /\ conns[c].scanner = "reading" /\ conns[c].wire # <<>>
  /\ ConnBecomes(c, [conns[c] EXCEPT !.wire = Tail(@), !.scanner = "sending",
                                     !.held = Head(conns[c].wire)])
  /\ UNCHANGED <<clientVars, helperUp, opened>>

(* Mutant: the deferred cancel() is missing.                                *)
ScanEofNoCancel(c) ==
  /\ conns[c].scanner = "reading" /\ conns[c].wire = <<>>
  /\ ClientClosed(c)
  /\ ConnBecomes(c, [conns[c] EXCEPT !.scanner = "done"])
  /\ UNCHANGED <<clientVars, helperUp, opened>>

(* The deferred close(reqs) and cancel() run when the peer has closed.      *)
ScanEof(c) ==
  /\ conns[c].scanner = "reading" /\ conns[c].wire = <<>>
  /\ ClientClosed(c)
  /\ ConnBecomes(c, [conns[c] EXCEPT !.scanner = "done", !.ctxDone = TRUE])
  /\ UNCHANGED <<clientVars, helperUp, opened>>

(* reqs <- req meets the handler loop's range; dispatch starts.             *)
Dispatch(c) ==
  /\ conns[c].serving /\ conns[c].busy = NoId
  /\ conns[c].scanner = "sending"
  /\ ConnBecomes(c, [conns[c] EXCEPT !.busy = conns[c].held, !.held = NoId,
                                     !.scanner = "reading"])
  /\ UNCHANGED <<clientVars, helperUp, opened>>

(* Mutant: a connection serves one request.                                 *)
RespondOnce(c) ==
  /\ conns[c].serving /\ conns[c].busy # NoId
  /\ ConnBecomes(c, [conns[c] EXCEPT
                      !.busy    = NoId,
                      !.replies = IF ClientClosed(c) THEN @ ELSE Append(@, conns[c].busy),
                      !.serving = FALSE])
  /\ UNCHANGED <<clientVars, helperUp, opened>>

(* The handler is done and the response is encoded onto the socket; when    *)
(* the client has closed it, the write fails and handleConn returns.        *)
Respond(c) ==
  /\ conns[c].serving /\ conns[c].busy # NoId
  /\ ConnBecomes(c, [conns[c] EXCEPT
                      !.busy    = NoId,
                      !.replies = IF ClientClosed(c) THEN @ ELSE Append(@, conns[c].busy),
                      !.serving = ~ ClientClosed(c)])
  /\ UNCHANGED <<clientVars, helperUp, opened>>

(* reqs is closed and drained: the loop ends and the connection is closed.  *)
EndServing(c) ==
  /\ conns[c].serving /\ conns[c].busy = NoId
  /\ conns[c].scanner = "done"
  /\ ConnBecomes(c, [conns[c] EXCEPT !.serving = FALSE])
  /\ UNCHANGED <<clientVars, helperUp, opened>>

(* A connection whose server side is gone.                                 *)
Orphan(conn) ==
  [conn EXCEPT !.wire = <<>>, !.scanner = "done", !.held = NoId, !.busy = NoId,
               !.ctxDone = TRUE, !.serving = FALSE]

(* The helper process dies; what it already wrote can still be read.        *)
HelperCrash ==
  /\ helperUp
  /\ helperUp' = FALSE
  /\ conns' = [c \in 1 .. opened |-> Orphan(conns[c])]
  /\ UNCHANGED <<clientVars, opened>>

-----------------------------------------------------------------------------
CallStep(j) ==
  \/ SendRequest(j) \/ SendFails(j) \/ SendDangling(j)
  \/ ReceiveReply(j) \/ ReceiveEof(j) \/ ReceiveCancelled(j)
  \/ Reconnect(j) \/ Return(j)

ConnStep(c) ==
  ScanRequest(c) \/ ScanEof(c) \/ Dispatch(c) \/ Respond(c) \/ EndServing(c)

Next ==
  \/ \E j \in Callers : StartCall(j) \/ Lock(j) \/ CallStep(j) \/ CancelJob(j)
  \/ \E c \in 1 .. opened : ConnStep(c)
  \/ HelperCrash

Spec == Init /\ [][Next]_vars

-----------------------------------------------------------------------------
(* Fairness.  A thread inside call() and the helper's goroutines keep       *)
(* running.  Nothing is assumed of how long a handler takes, except that it *)
(* ends once its context is cancelled: the context is what every API        *)
(* request of a handler is made with.                                       *)
ClientFairness == \A j \in Callers : WF_vars(CallStep(j))

ServerFairness(ids) ==
  \A c \in ids :
    /\ WF_vars(c \in 1 .. opened /\ (ScanRequest(c) \/ ScanEof(c) \/ Dispatch(c) \/ EndServing(c)))
    /\ WF_vars(c \in 1 .. opened /\ conns[c].ctxDone /\ Respond(c))

-----------------------------------------------------------------------------
(* "Each call blocks until the matching response arrives": a caller that is *)
(* given a response is given the response to its own request, although      *)
(* recv_response ignores the id and abandoned handlers go on answering.     *)
ResponseMatches == \A j \in Callers : outcome[j] = "reply" => got[j] = reqId[j]

(* A scanner goroutine is never left blocked on reqs <- req by a handler    *)
(* loop that has returned: that goroutine, its socket and the in-flight     *)
(* request would be leaked for the life of the helper.                      *)
ScannerNeverStuck ==
  \A c \in 1 .. opened : conns[c].scanner = "sending" => conns[c].serving

(* Cancelling a call that holds the mutex gets the mutex released with no   *)
(* help from the helper, whose handler may never end.                       *)
CancelReleasesLock ==
  \A j \in Jobs : (lock = j /\ cancelled[j]) ~> (lock # j \/ ~ alive)

(* Whatever the client abandons, the helper gives up: the context of the    *)
(* in-flight handler is cancelled, its loop ends, the socket is closed.     *)
AbandonedConnsClosed(ids) ==
  \A c \in ids :
    (c \in 1 .. opened /\ ClientClosed(c)) ~> (c \in 1 .. opened /\ ~ conns[c].serving)

(* Nothing a job does brings the backend down while the helper lives: the   *)
(* paths that leave a failed call without an error, which do_* methods then *)
(* read, or that write into a dropped connection, need a dead helper.       *)
BackendSurvives == alive \/ ~ helperUp
=============================================================================
