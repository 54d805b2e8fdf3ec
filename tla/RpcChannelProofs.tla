-------------------------- MODULE RpcChannelProofs --------------------------
(***************************************************************************)
(* Why a caller gets its own answer although nobody compares ids, and that *)
(* RpcChannel implements SerialCalls, for any number of job threads, calls *)
(* and connections: ChannelInv says that answers match, HealthInv that     *)
(* nothing but a cancellation or the helper's death makes a call fail.     *)
(***************************************************************************)
EXTENDS RpcRefinement, TLAPS

(* Nothing is in flight on a connection.                                    *)
Quiet(r) ==
  /\ r.wire = << >> /\ r.scanner # "sending"
  /\ r.held = NoId /\ r.busy = NoId /\ r.replies = << >>

(* One request, i, is: on the wire, with the scanner, with the handler, or  *)
(* answered.                                                                *)
OnWire(r, i) ==
  /\ r.wire = <<i>> /\ r.scanner # "sending"
  /\ r.held = NoId /\ r.busy = NoId /\ r.replies = << >>
Scanned(r, i) ==
  /\ r.wire = << >> /\ r.scanner = "sending"
  /\ r.held = i /\ r.busy = NoId /\ r.replies = << >>
Running(r, i) ==
  /\ r.wire = << >> /\ r.scanner # "sending"
  /\ r.held = NoId /\ r.busy = i /\ r.replies = << >>
Answered(r, i) ==
  /\ r.wire = << >> /\ r.scanner # "sending"
  /\ r.held = NoId /\ r.busy = NoId /\ r.replies = <<i>>

(* At most request i is in flight on a connection.                          *)
Carries(r, i) ==
  Quiet(r) \/ OnWire(r, i) \/ Scanned(r, i) \/ Running(r, i) \/ Answered(r, i)

InCall == {"sending", "receiving", "reconnecting"}

(* The mutex is held exactly by who is between send and return.             *)
LockInv == \A j \in Callers : pc[j] \in InCall <=> lock = j

(* No result is left over from an earlier call once a call is under way.    *)
FreshOutcome == \A j \in Callers : pc[j] \in InCall \cup {"waiting"} => outcome[j] = "none"

(* Whoever waits for a response has a connection.                           *)
ReceiverConnected == \A j \in Callers : pc[j] = "receiving" => cur # NoConn

(* A request that is not answered yet has a handler loop to answer it, and  *)
(* a scanner that has ended left nothing unread.                            *)
Served(r) ==
  /\ r.wire # << >> \/ r.scanner = "sending" \/ r.busy # NoId => r.serving
  /\ r.scanner = "done" => r.wire = << >>

(* Every connection ever opened carries at most one request, which is       *)
(* served.                                                                  *)
ConnOK(r) == (\E i \in Nat : Carries(r, i)) /\ Served(r)

OnePerConn == \A c \in 1 .. opened : ConnOK(conns[c])

(* On the current connection that one is the request its receiver sent.     *)
CurrentCarries ==
  cur # NoConn =>
    \/ Quiet(conns[cur])
    \/ \E j \in Callers : pc[j] = "receiving" /\ Carries(conns[cur], reqId[j])

(* A scanner ends before its handler loop only when the client has gone.    *)
EofMeansClosed ==
  \A c \in 1 .. opened :
    conns[c].scanner = "done" /\ conns[c].serving => ClientClosed(c)

ChannelInv ==
  /\ TypeOK
  /\ LockInv
  /\ FreshOutcome
  /\ ReceiverConnected
  /\ OnePerConn
  /\ CurrentCarries
  /\ EofMeansClosed
  /\ ResponseMatches

-----------------------------------------------------------------------------
(* Types.                                                                   *)

(* A connection just made is a quiet one.                                   *)
LEMMA FreshConnOK == FreshConn \in ConnState /\ Quiet(FreshConn) /\ ConnOK(FreshConn)
<1>1. FreshConn \in ConnState
  BY DEF FreshConn, ConnState, NoId
<1>2. Quiet(FreshConn) /\ Served(FreshConn)
  BY DEF FreshConn, Quiet, Served
<1> QED BY <1>1, <1>2 DEF ConnOK, Carries

(* An empty buffer is a buffer.                                             *)
LEMMA EmptyBufferType == << >> \in Seq(Nat)
OBVIOUS

(* The client's two updates of a connection are connections.                *)
LEMMA ClientUpdateType ==
  ASSUME NEW r \in ConnState, NEW i \in Nat
  PROVE  /\ [r EXCEPT !.wire = Append(@, i)] \in ConnState
         /\ r.replies # << >> => [r EXCEPT !.replies = Tail(@)] \in ConnState
<1>1. r.wire \in Seq(Nat) /\ r.replies \in Seq(Nat)
  BY DEF ConnState
<1>2. Append(r.wire, i) \in Seq(Nat)
  BY <1>1
<1>3. r.replies # << >> => Tail(r.replies) \in Seq(Nat)
  BY <1>1
<1>4. [r EXCEPT !.wire = Append(@, i)] \in ConnState
  BY <1>2 DEF ConnState
<1>5. ASSUME r.replies # << >> PROVE [r EXCEPT !.replies = Tail(@)] \in ConnState
  BY <1>3, <1>5 DEF ConnState
<1> QED BY <1>4, <1>5

(* A connection left by a dead helper is a connection.                      *)
LEMMA OrphanType == ASSUME NEW r \in ConnState PROVE Orphan(r) \in ConnState
BY EmptyBufferType DEF Orphan, ConnState, NoId

(* Replacing one connection's record leaves the others alone.               *)
LEMMA ConnBecomesOne ==
  ASSUME conns \in [1 .. opened -> ConnState],
         NEW c \in 1 .. opened, NEW q \in ConnState, ConnBecomes(c, q)
  PROVE  /\ conns' \in [1 .. opened -> ConnState]
         /\ conns'[c] = q
         /\ \A d \in (1 .. opened) \ {c} : conns'[d] = conns[d]
BY DEF ConnBecomes

-----------------------------------------------------------------------------
(* The helper's steps on a connection: what was carried is still carried,   *)
(* nothing else is, and no scanner is left without its handler loop.        *)
Preserves(r, q) ==
  /\ q \in ConnState
  /\ ConnOK(q)
  /\ Quiet(r) => Quiet(q)
  /\ \A i \in Nat : Carries(r, i) => Carries(q, i)

(* The scanner reads the request that is on the wire.                       *)
LEMMA ScanPreserves ==
  ASSUME NEW r \in ConnState, ConnOK(r), r.scanner = "reading", r.wire # << >>
  PROVE  Preserves(r, [r EXCEPT !.wire = Tail(@), !.scanner = "sending", !.held = Head(r.wire)])
<1> DEFINE q == [r EXCEPT !.wire = Tail(@), !.scanner = "sending", !.held = Head(r.wire)]
<1>1. PICK k \in Nat : Carries(r, k)
  BY DEF ConnOK
<1>2. OnWire(r, k)
  BY <1>1 DEF Carries, Quiet, Scanned, Running, Answered
<1>a. Tail(r.wire) = << >> /\ Head(r.wire) = k
  BY <1>2 DEF OnWire
<1>b. q \in ConnState
  <2>1. Tail(r.wire) \in Seq(Nat) /\ Head(r.wire) \in Nat
    BY <1>a, EmptyBufferType, Zenon
  <2> QED BY <2>1 DEF ConnState
<1>c. /\ q.wire = Tail(r.wire) /\ q.scanner = "sending" /\ q.held = Head(r.wire)
      /\ q.busy = r.busy /\ q.replies = r.replies /\ q.serving = r.serving
  BY DEF ConnState
<1>3. /\ q.wire = << >> /\ q.scanner = "sending" /\ q.held = k
      /\ q.busy = NoId /\ q.replies = << >> /\ q.serving = r.serving
  BY <1>2, <1>a, <1>c DEF OnWire
<1>4. \A i \in Nat : Carries(r, i) => Carries(q, i)
  <2> SUFFICES ASSUME NEW i \in Nat, Carries(r, i) PROVE Carries(q, i)
    OBVIOUS
  <2>1. OnWire(r, i)
    BY DEF Carries, Quiet, Scanned, Running, Answered
  <2>2. i = k
    BY <1>2, <2>1 DEF OnWire
  <2> QED BY <1>3, <2>2 DEF Carries, Scanned
<1>5. ConnOK(q)
  BY <1>1, <1>3, <1>4 DEF ConnOK, Served
<1>6. ~ Quiet(r)
  BY DEF Quiet
<1> QED BY <1>b, <1>4, <1>5, <1>6 DEF Preserves

(* The scanner meets the end of the stream.                                 *)
LEMMA EofPreserves ==
  ASSUME NEW r \in ConnState, ConnOK(r), r.scanner = "reading", r.wire = << >>
  PROVE  Preserves(r, [r EXCEPT !.scanner = "done", !.ctxDone = TRUE])
<1> DEFINE q == [r EXCEPT !.scanner = "done", !.ctxDone = TRUE]
<1>1. /\ q \in ConnState
      /\ q.wire = r.wire /\ q.scanner = "done" /\ q.held = r.held
      /\ q.busy = r.busy /\ q.replies = r.replies /\ q.serving = r.serving
  BY DEF ConnState
<1>2. Quiet(r) => Quiet(q)
  BY <1>1 DEF Quiet
<1>3. \A i \in Nat : Carries(r, i) => Carries(q, i)
  BY <1>1, <1>2 DEF Carries, OnWire, Scanned, Running, Answered
<1>4. ConnOK(q)
  BY <1>1, <1>3 DEF ConnOK, Served
<1> QED BY <1>1, <1>2, <1>3, <1>4 DEF Preserves

(* The handler loop takes the request the scanner holds.                    *)
LEMMA DispatchPreserves ==
  ASSUME NEW r \in ConnState, ConnOK(r), r.scanner = "sending"
  PROVE  Preserves(r, [r EXCEPT !.busy = r.held, !.held = NoId, !.scanner = "reading"])
<1> DEFINE q == [r EXCEPT !.busy = r.held, !.held = NoId, !.scanner = "reading"]
<1>1. /\ q \in ConnState
      /\ q.wire = r.wire /\ q.scanner = "reading" /\ q.held = NoId
      /\ q.busy = r.held /\ q.replies = r.replies /\ q.serving = r.serving
  BY DEF ConnState, NoId
<1>2. \A i \in Nat : Carries(r, i) => Scanned(r, i) /\ Running(q, i)
  BY <1>1 DEF Carries, Quiet, OnWire, Scanned, Running, Answered
<1>3. \A i \in Nat : Carries(r, i) => Carries(q, i)
  BY <1>2 DEF Carries
<1>4. ConnOK(q)
  BY <1>1, <1>2, <1>3 DEF ConnOK, Served, Running
<1>5. ~ Quiet(r)
  BY DEF Quiet
<1> QED BY <1>1, <1>3, <1>4, <1>5 DEF Preserves

(* The handler answers, or finds the client gone and ends the loop.         *)
LEMMA RespondPreserves ==
  ASSUME NEW r \in ConnState, ConnOK(r), r.busy # NoId, NEW closed \in BOOLEAN
  PROVE  Preserves(r, [r EXCEPT !.busy = NoId,
                                !.replies = IF closed THEN @ ELSE Append(@, r.busy),
                                !.serving = ~ closed])
<1> DEFINE q == [r EXCEPT !.busy = NoId,
                          !.replies = IF closed THEN @ ELSE Append(@, r.busy),
                          !.serving = ~ closed]
<1>0. r.replies \in Seq(Nat) /\ r.busy \in Nat
  BY DEF ConnState
<1>a. (IF closed THEN r.replies ELSE Append(r.replies, r.busy)) \in Seq(Nat)
  BY <1>0
<1>b. q \in ConnState
  BY <1>a DEF ConnState, NoId
<1>1. /\ q.wire = r.wire /\ q.scanner = r.scanner /\ q.held = r.held /\ q.busy = NoId
      /\ q.replies = IF closed THEN r.replies ELSE Append(r.replies, r.busy)
  BY DEF ConnState
<1>2. \A i \in Nat : Carries(r, i) => Running(r, i)
  BY DEF Carries, Quiet, OnWire, Scanned, Running, Answered
<1>3. \A i \in Nat : Carries(r, i) => Quiet(q) \/ Answered(q, i)
  <2> SUFFICES ASSUME NEW i \in Nat, Carries(r, i) PROVE Quiet(q) \/ Answered(q, i)
    OBVIOUS
  <2>1. Running(r, i)
    BY <1>2
  <2>2. Append(<< >>, i) = <<i>>
    OBVIOUS
  <2>3. q.replies = << >> \/ q.replies = <<i>>
    BY <1>1, <2>1, <2>2 DEF Running
  <2> QED BY <1>1, <2>1, <2>3 DEF Running, Quiet, Answered
<1>4. \A i \in Nat : Carries(r, i) => Carries(q, i)
  BY <1>3 DEF Carries
<1>5. ConnOK(q)
  BY <1>1, <1>2, <1>4 DEF ConnOK, Served, Running
<1>6. ~ Quiet(r)
  BY DEF Quiet
<1> QED BY <1>b, <1>4, <1>5, <1>6 DEF Preserves

(* The loop ends after the scanner has.                                     *)
LEMMA EndPreserves ==
  ASSUME NEW r \in ConnState, ConnOK(r), r.busy = NoId, r.scanner = "done"
  PROVE  Preserves(r, [r EXCEPT !.serving = FALSE])
<1> DEFINE q == [r EXCEPT !.serving = FALSE]
<1>1. /\ q \in ConnState
      /\ q.wire = r.wire /\ q.scanner = r.scanner /\ q.held = r.held
      /\ q.busy = r.busy /\ q.replies = r.replies
  BY DEF ConnState
<1>2. Quiet(r) => Quiet(q)
  BY <1>1 DEF Quiet
<1>3. \A i \in Nat : Carries(r, i) => Carries(q, i)
  BY <1>1, <1>2 DEF Carries, OnWire, Scanned, Running, Answered
<1>4. ConnOK(q)
  BY <1>1, <1>3 DEF ConnOK, Served
<1> QED BY <1>1, <1>2, <1>3, <1>4 DEF Preserves

(* The helper dies: only an answer already written survives.                *)
LEMMA OrphanPreserves ==
  ASSUME NEW r \in ConnState, ConnOK(r)
  PROVE  Preserves(r, Orphan(r))
<1> DEFINE q == Orphan(r)
<1>1. /\ q.wire = << >> /\ q.scanner = "done" /\ q.held = NoId
      /\ q.busy = NoId /\ q.replies = r.replies
  BY DEF ConnState, Orphan
<1>2. \A i \in Nat : Carries(r, i) => Quiet(q) \/ Answered(q, i)
  BY <1>1 DEF Carries, Quiet, OnWire, Scanned, Running, Answered
<1>3. Quiet(r) => Quiet(q)
  BY <1>1 DEF Quiet
<1>4. \A i \in Nat : Carries(r, i) => Carries(q, i)
  BY <1>2 DEF Carries
<1>5. ConnOK(q)
  BY <1>1, <1>4 DEF ConnOK, Served
<1> QED BY <1>3, <1>4, <1>5, OrphanType DEF Preserves

-----------------------------------------------------------------------------
(* One step of the helper on connection c, seen from the invariant.         *)
LEMMA ConnStepPreserves ==
  ASSUME TypeOK, NEW c \in 1 .. opened, ConnOK(conns[c]), ConnStep(c)
  PROVE  /\ UNCHANGED <<clientVars, helperUp, opened>>
         /\ \E q \in ConnState :
              /\ ConnBecomes(c, q) /\ Preserves(conns[c], q)
              /\ q.scanner = "done" /\ q.serving =>
                   ClientClosed(c) \/ (conns[c].scanner = "done" /\ conns[c].serving)
<1>0. conns[c] \in ConnState /\ ClientClosed(c) \in BOOLEAN
  BY DEF TypeOK, ClientClosed
<1>1. CASE ScanRequest(c)
  <2> DEFINE q == [conns[c] EXCEPT !.wire = Tail(@), !.scanner = "sending",
                                   !.held = Head(conns[c].wire)]
  <2>1. Preserves(conns[c], q)
    BY <1>0, <1>1, ScanPreserves DEF ScanRequest
  <2>2. q.scanner # "done"
    BY <1>0 DEF ConnState
  <2>3. ConnBecomes(c, q) /\ UNCHANGED <<clientVars, helperUp, opened>>
    BY <1>1 DEF ScanRequest
  <2> HIDE DEF q
  <2> QED BY <2>1, <2>2, <2>3 DEF Preserves
<1>2. CASE ScanEof(c)
  <2> DEFINE q == [conns[c] EXCEPT !.scanner = "done", !.ctxDone = TRUE]
  <2>1. Preserves(conns[c], q)
    BY <1>0, <1>2, EofPreserves DEF ScanEof
  <2>2. ClientClosed(c) /\ ConnBecomes(c, q) /\ UNCHANGED <<clientVars, helperUp, opened>>
    BY <1>2 DEF ScanEof
  <2> HIDE DEF q
  <2> QED BY <2>1, <2>2 DEF Preserves
<1>3. CASE Dispatch(c)
  <2> DEFINE q == [conns[c] EXCEPT !.busy = conns[c].held, !.held = NoId, !.scanner = "reading"]
  <2>1. Preserves(conns[c], q)
    BY <1>0, <1>3, DispatchPreserves DEF Dispatch
  <2>2. q.scanner # "done"
    BY <1>0 DEF ConnState
  <2>3. ConnBecomes(c, q) /\ UNCHANGED <<clientVars, helperUp, opened>>
    BY <1>3 DEF Dispatch
  <2> HIDE DEF q
  <2> QED BY <2>1, <2>2, <2>3 DEF Preserves
<1>4. CASE Respond(c)
  <2> DEFINE q == [conns[c] EXCEPT
                     !.busy    = NoId,
                     !.replies = IF ClientClosed(c) THEN @ ELSE Append(@, conns[c].busy),
                     !.serving = ~ ClientClosed(c)]
  <2>1. Preserves(conns[c], q)
    BY <1>0, <1>4, RespondPreserves DEF Respond
  <2>2. q.scanner = conns[c].scanner /\ conns[c].serving
    BY <1>0, <1>4 DEF ConnState, Respond
  <2>3. ConnBecomes(c, q) /\ UNCHANGED <<clientVars, helperUp, opened>>
    BY <1>4 DEF Respond
  <2> HIDE DEF q
  <2> QED BY <2>1, <2>2, <2>3 DEF Preserves
<1>5. CASE EndServing(c)
  <2> DEFINE q == [conns[c] EXCEPT !.serving = FALSE]
  <2>1. Preserves(conns[c], q)
    BY <1>0, <1>5, EndPreserves DEF EndServing
  <2>2. ~ q.serving
    BY <1>0 DEF ConnState
  <2>3. ConnBecomes(c, q) /\ UNCHANGED <<clientVars, helperUp, opened>>
    BY <1>5 DEF EndServing
  <2> HIDE DEF q
  <2> QED BY <2>1, <2>2, <2>3 DEF Preserves
<1> QED BY <1>1, <1>2, <1>3, <1>4, <1>5 DEF ConnStep

-----------------------------------------------------------------------------
(* Leaving call() has its types.                                            *)
LEMMA UnlockType ==
  ASSUME TypeOK, NEW j \in Callers, NEW result \in Outcomes, Unlock(j, result)
  PROVE  /\ lock' \in Callers \cup {Nobody}
         /\ pc' \in [Callers -> PcValues]
         /\ outcome' \in [Callers -> Outcomes]
BY DEF TypeOK, Unlock, PcValues

(* The types are preserved, given that receivers have a connection.         *)
LEMMA TypeOKInductive ==
  ASSUME TypeOK, OnePerConn, ReceiverConnected, [Next]_vars
  PROVE  TypeOK'
<1>1. ASSUME NEW j \in Callers, StartCall(j) PROVE TypeOK'
  <2>1. /\ derefs' \in [Callers -> BOOLEAN] /\ cancelled' \in [Callers -> BOOLEAN]
        /\ pc' \in [Callers -> PcValues] /\ outcome' \in [Callers -> Outcomes]
    BY <1>1 DEF StartCall, EnterCall, PollTick, StartJob, FetchThumbnail, TypeOK, PcValues, Outcomes
  <2> QED BY <1>1, <2>1 DEF StartCall, EnterCall, PollTick, StartJob, FetchThumbnail, TypeOK, serverVars
<1>2. ASSUME NEW j \in Callers, Lock(j) PROVE TypeOK'
  BY <1>2 DEF Lock, TypeOK, PcValues, serverVars
<1>3. ASSUME NEW j \in Callers, SendRequest(j) PROVE TypeOK'
  <2>1. cur \in 1 .. opened
    BY <1>3 DEF SendRequest, PeerOpen, TypeOK, NoConn
  <2>2. conns[cur] \in ConnState /\ reqId[j] \in Nat
    BY <2>1 DEF TypeOK
  <2>3. conns' \in [1 .. opened -> ConnState]
    BY <1>3, <2>1, <2>2, ClientUpdateType, ConnBecomesOne DEF SendRequest, TypeOK
  <2> QED BY <1>3, <2>3 DEF SendRequest, TypeOK, PcValues
<1>4. ASSUME NEW j \in Callers, SendFails(j) PROVE TypeOK'
  <2>1. Unlock(j, "error") /\ "error" \in Outcomes
    BY <1>4 DEF SendFails, Outcomes
  <2> QED BY <1>4, <2>1, UnlockType DEF SendFails, TypeOK, serverVars
<1>5. ASSUME NEW j \in Callers, SendDangling(j) PROVE TypeOK'
  <2>1. Unlock(j, "unset") /\ "unset" \in Outcomes
    BY <1>5 DEF SendDangling, Outcomes
  <2> QED BY <1>5, <2>1, UnlockType DEF SendDangling, TypeOK, serverVars
<1>6. ASSUME NEW j \in Callers, ReceiveReply(j) PROVE TypeOK'
  <2>1. cur \in 1 .. opened
    BY <1>6 DEF ReceiveReply, ReceiverConnected, TypeOK, NoConn
  <2>2. conns[cur] \in ConnState
    BY <2>1 DEF TypeOK
  <2>3. conns' \in [1 .. opened -> ConnState]
    BY <1>6, <2>1, <2>2, ClientUpdateType, ConnBecomesOne DEF ReceiveReply, TypeOK
  <2>4. Head(conns[cur].replies) \in Nat
    BY <1>6, <2>2 DEF ReceiveReply, ConnState
  <2>5. got' \in [Callers -> Nat]
    BY <1>6, <2>4 DEF ReceiveReply, TypeOK
  <2>6. Unlock(j, "reply") /\ "reply" \in Outcomes
    BY <1>6 DEF ReceiveReply, Outcomes
  <2> QED BY <1>6, <2>3, <2>5, <2>6, UnlockType DEF ReceiveReply, TypeOK
<1>7. ASSUME NEW j \in Callers, ReceiveEof(j) PROVE TypeOK'
  <2>1. PICK result \in {"error", "unset"} : Unlock(j, result)
    BY <1>7 DEF ReceiveEof
  <2>2. result \in Outcomes
    BY DEF Outcomes
  <2> QED BY <1>7, <2>1, <2>2, UnlockType DEF ReceiveEof, TypeOK, serverVars
<1>8. ASSUME NEW j \in Callers, ReceiveCancelled(j) PROVE TypeOK'
  BY <1>8 DEF ReceiveCancelled, TypeOK, PcValues, serverVars, NoConn
<1>9. ASSUME NEW j \in Callers, Reconnect(j) PROVE TypeOK'
  <2>1. Unlock(j, "cancelled") /\ "cancelled" \in Outcomes
    BY <1>9 DEF Reconnect, Outcomes
  <2>2. /\ opened' \in Nat \ {0} /\ cur' \in 0 .. opened'
        /\ conns' \in [1 .. opened' -> ConnState]
    <3>1. CASE UNCHANGED <<opened, cur, conns>>
      BY <3>1 DEF TypeOK
    <3>2. CASE /\ opened' = opened + 1 /\ cur' = opened + 1
               /\ conns' = [c \in 1 .. opened + 1 |->
                              IF c = opened + 1 THEN FreshConn ELSE conns[c]]
      BY <3>2, FreshConnOK DEF TypeOK
    <3> QED BY <1>9, <3>1, <3>2 DEF Reconnect
  <2> QED BY <1>9, <2>1, <2>2, UnlockType DEF Reconnect, TypeOK
<1>10. ASSUME NEW j \in Callers, Return(j) PROVE TypeOK'
  BY <1>10 DEF Return, TypeOK, PcValues, serverVars
<1>11. ASSUME NEW j \in Callers, CancelJob(j) PROVE TypeOK'
  BY <1>11 DEF CancelJob, TypeOK, serverVars
<1>12. ASSUME NEW c \in 1 .. opened, ConnStep(c) PROVE TypeOK'
  <2>1. PICK q \in ConnState : ConnBecomes(c, q)
    BY <1>12, ConnStepPreserves DEF OnePerConn
  <2>2. conns' \in [1 .. opened -> ConnState]
    BY <2>1, ConnBecomesOne DEF TypeOK
  <2>3. UNCHANGED <<clientVars, helperUp, opened>>
    BY <1>12, ConnStepPreserves DEF OnePerConn
  <2> QED BY <2>2, <2>3 DEF TypeOK, clientVars
<1>13. CASE HelperCrash
  <2>1. conns' \in [1 .. opened -> ConnState]
    BY <1>13, OrphanType DEF HelperCrash, TypeOK
  <2> QED BY <1>13, <2>1 DEF HelperCrash, TypeOK, clientVars
<1>14. CASE UNCHANGED vars
  BY <1>14 DEF vars, clientVars, serverVars, TypeOK
<1> QED BY <1>1, <1>2, <1>3, <1>4, <1>5, <1>6, <1>7, <1>8, <1>9, <1>10, <1>11, <1>12, <1>13, <1>14
        DEF Next, CallStep

-----------------------------------------------------------------------------
(* Mutual exclusion, the fresh outcome and the receiver's connection.       *)
ControlInv == LockInv /\ FreshOutcome /\ ReceiverConnected

(* Leaving call() frees the mutex; nobody else held it.                     *)
LEMMA UnlockControl ==
  ASSUME TypeOK, ControlInv, NEW j \in Callers, pc[j] \in InCall, NEW result,
         Unlock(j, result)
  PROVE  /\ LockInv' /\ FreshOutcome'
         /\ \A k \in Callers : pc'[k] # "receiving"
BY CallersAssumption DEF TypeOK, ControlInv, LockInv, FreshOutcome, Unlock, InCall

(* Every step keeps the control invariant.                                  *)
LEMMA ControlInductive ==
  ASSUME TypeOK, ControlInv, OnePerConn, [Next]_vars
  PROVE  ControlInv'
<1> USE DEF ControlInv
<1>1. ASSUME NEW j \in Callers, StartCall(j) PROVE ControlInv'
  BY <1>1 DEF StartCall, EnterCall, PollTick, StartJob, FetchThumbnail, TypeOK, LockInv, FreshOutcome, ReceiverConnected, InCall
<1>2. ASSUME NEW j \in Callers, Lock(j) PROVE ControlInv'
  BY <1>2, CallersAssumption DEF Lock, TypeOK, LockInv, FreshOutcome, ReceiverConnected, InCall
<1>3. ASSUME NEW j \in Callers, SendRequest(j) PROVE ControlInv'
  BY <1>3 DEF SendRequest, PeerOpen, TypeOK, LockInv, FreshOutcome, ReceiverConnected, InCall
<1>4. ASSUME NEW j \in Callers, SendFails(j) PROVE ControlInv'
  BY <1>4, UnlockControl DEF SendFails, ReceiverConnected, InCall
<1>5. ASSUME NEW j \in Callers, SendDangling(j) PROVE ControlInv'
  BY <1>5, UnlockControl DEF SendDangling, ReceiverConnected, InCall
<1>6. ASSUME NEW j \in Callers, ReceiveReply(j) PROVE ControlInv'
  BY <1>6, UnlockControl DEF ReceiveReply, ReceiverConnected, InCall
<1>7. ASSUME NEW j \in Callers, ReceiveEof(j) PROVE ControlInv'
  <2>1. PICK result \in {"error", "unset"} : Unlock(j, result)
    BY <1>7 DEF ReceiveEof
  <2> QED BY <1>7, <2>1, UnlockControl DEF ReceiveEof, ReceiverConnected, InCall
<1>8. ASSUME NEW j \in Callers, ReceiveCancelled(j) PROVE ControlInv'
  BY <1>8 DEF ReceiveCancelled, TypeOK, LockInv, FreshOutcome, ReceiverConnected, InCall
<1>9. ASSUME NEW j \in Callers, Reconnect(j) PROVE ControlInv'
  BY <1>9, UnlockControl DEF Reconnect, ReceiverConnected, InCall
<1>10. ASSUME NEW j \in Callers, Return(j) PROVE ControlInv'
  BY <1>10 DEF Return, TypeOK, LockInv, FreshOutcome, ReceiverConnected, InCall
<1>11. ASSUME NEW j \in Callers, CancelJob(j) PROVE ControlInv'
  BY <1>11 DEF CancelJob, LockInv, FreshOutcome, ReceiverConnected
<1>12. ASSUME UNCHANGED clientVars PROVE ControlInv'
  BY <1>12 DEF clientVars, LockInv, FreshOutcome, ReceiverConnected
<1>13. ASSUME NEW c \in 1 .. opened, ConnStep(c) PROVE ControlInv'
  BY <1>12, <1>13, ConnStepPreserves DEF OnePerConn
<1>14. CASE HelperCrash
  BY <1>12, <1>14 DEF HelperCrash
<1>15. CASE UNCHANGED vars
  BY <1>12, <1>15 DEF vars
<1> QED BY <1>1, <1>2, <1>3, <1>4, <1>5, <1>6, <1>7, <1>8, <1>9, <1>10, <1>11, <1>13, <1>14, <1>15
        DEF Next, CallStep

-----------------------------------------------------------------------------
(* What is in flight, where.                                                *)
WireInv == OnePerConn /\ CurrentCarries /\ EofMeansClosed

(* A client that is not receiving has nothing in flight.                    *)
LEMMA HolderAlone ==
  ASSUME ControlInv, CurrentCarries, NEW j \in Callers,
         pc[j] \in {"sending", "reconnecting"}, cur # NoConn
  PROVE  Quiet(conns[cur])
BY DEF ControlInv, LockInv, CurrentCarries, InCall

(* A step of the client that touches no connection, makes nobody stop       *)
(* receiving and changes no id of a receiver keeps the wire invariant.      *)
LEMMA WireFrame ==
  ASSUME WireInv, TypeOK, conns' = conns, opened' = opened,
         cur' \in {cur, NoConn}, alive' => alive,
         cur' # NoConn => \/ Quiet(conns[cur])
                          \/ \A j \in Callers : pc[j] = "receiving" =>
                               pc'[j] = "receiving" /\ reqId'[j] = reqId[j]
  PROVE  WireInv'
<1>1. OnePerConn'
  BY DEF WireInv, OnePerConn
<1>2. CurrentCarries'
  BY DEF WireInv, CurrentCarries
<1>3. EofMeansClosed'
  BY DEF WireInv, EofMeansClosed, ClientClosed, TypeOK, NoConn
<1> QED BY <1>1, <1>2, <1>3 DEF WireInv

(* Every step keeps the wire invariant.                                     *)
LEMMA WireInductive ==
  ASSUME TypeOK, TypeOK', ControlInv, WireInv, [Next]_vars
  PROVE  WireInv'
<1>0. conns \in [1 .. opened -> ConnState] /\ OnePerConn /\ CurrentCarries /\ EofMeansClosed
  BY DEF TypeOK, WireInv
<1>1. ASSUME NEW j \in Callers, StartCall(j) PROVE WireInv'
  BY <1>1, WireFrame DEF StartCall, EnterCall, PollTick, StartJob, FetchThumbnail, TypeOK, serverVars
<1>2. ASSUME NEW j \in Callers, Lock(j) PROVE WireInv'
  BY <1>2, WireFrame DEF Lock, TypeOK, serverVars
<1>3. ASSUME NEW j \in Callers, SendRequest(j) PROVE WireInv'
  <2> DEFINE q == [conns[cur] EXCEPT !.wire = Append(@, reqId[j])]
  <2>1. cur \in 1 .. opened /\ conns[cur] \in ConnState /\ reqId[j] \in Nat /\ conns[cur].serving
    BY <1>3 DEF SendRequest, PeerOpen, TypeOK, NoConn
  <2>2. Quiet(conns[cur])
    BY <1>0, <1>3, HolderAlone DEF SendRequest, PeerOpen
  <2>3. conns[cur].scanner # "done"
    BY <1>0, <1>3, <2>1 DEF EofMeansClosed, ClientClosed, SendRequest
  <2>4. /\ q.wire = <<reqId[j]>> /\ q.scanner = conns[cur].scanner /\ q.held = NoId
        /\ q.busy = NoId /\ q.replies = << >> /\ q.serving = conns[cur].serving
    <3>1. Append(<< >>, reqId[j]) = <<reqId[j]>>
      OBVIOUS
    <3> QED BY <2>1, <2>2, <3>1 DEF Quiet, ConnState
  <2>5. OnWire(q, reqId[j]) /\ q.scanner # "done"
    BY <2>2, <2>3, <2>4 DEF Quiet, OnWire
  <2>6. ConnOK(q)
    BY <2>1, <2>4, <2>5 DEF ConnOK, Carries, Served
  <2>7. /\ conns'[cur] = q /\ \A d \in (1 .. opened) \ {cur} : conns'[d] = conns[d]
        /\ opened' = opened /\ cur' = cur /\ alive' = alive
        /\ pc'[j] = "receiving" /\ reqId'[j] = reqId[j]
    BY <1>0, <1>3, <2>1, ClientUpdateType, ConnBecomesOne DEF SendRequest, TypeOK
  <2> HIDE DEF q
  <2>8. OnePerConn'
    BY <1>0, <2>6, <2>7 DEF OnePerConn
  <2>9. CurrentCarries'
    BY <2>5, <2>7 DEF CurrentCarries, Carries
  <2>10. EofMeansClosed'
    BY <1>0, <2>5, <2>7 DEF EofMeansClosed, ClientClosed
  <2> QED BY <2>8, <2>9, <2>10 DEF WireInv
<1>4. ASSUME NEW j \in Callers, SendFails(j) PROVE WireInv'
  BY <1>0, <1>4, HolderAlone, WireFrame DEF SendFails, serverVars
<1>5. ASSUME NEW j \in Callers, SendDangling(j) PROVE WireInv'
  BY <1>5, WireFrame DEF SendDangling, serverVars
<1>6. ASSUME NEW j \in Callers, ReceiveReply(j) PROVE WireInv'
  <2> DEFINE q == [conns[cur] EXCEPT !.replies = Tail(@)]
  <2>1. cur \in 1 .. opened /\ conns[cur] \in ConnState
    BY <1>6 DEF ReceiveReply, ControlInv, ReceiverConnected, TypeOK, NoConn
  <2>2. PICK i \in Nat : Carries(conns[cur], i)
    BY <1>0, <2>1 DEF OnePerConn, ConnOK
  <2>3. Answered(conns[cur], i)
    BY <1>6, <2>2 DEF ReceiveReply, Carries, Quiet, OnWire, Scanned, Running
  <2>4. /\ q.wire = << >> /\ q.scanner = conns[cur].scanner /\ q.held = NoId
        /\ q.busy = NoId /\ q.replies = << >> /\ q.serving = conns[cur].serving
    <3>1. Tail(<<i>>) = << >>
      OBVIOUS
    <3> QED BY <2>1, <2>3, <3>1 DEF Answered, ConnState
  <2>5. Quiet(q)
    BY <2>3, <2>4 DEF Answered, Quiet
  <2>6. ConnOK(q)
    BY <2>3, <2>4, <2>5 DEF ConnOK, Carries, Served, Answered
  <2>7. /\ conns'[cur] = q /\ \A d \in (1 .. opened) \ {cur} : conns'[d] = conns[d]
        /\ opened' = opened /\ cur' = cur /\ alive' = alive
    BY <1>0, <1>6, <2>1, ClientUpdateType, ConnBecomesOne DEF ReceiveReply, TypeOK
  <2>8. q.scanner = "done" /\ q.serving => ClientClosed(cur)
    BY <1>0, <2>1, <2>4 DEF EofMeansClosed
  <2> HIDE DEF q
  <2>9. OnePerConn'
    BY <1>0, <2>6, <2>7 DEF OnePerConn
  <2>10. CurrentCarries'
    BY <2>5, <2>7 DEF CurrentCarries
  <2>11. EofMeansClosed'
    BY <1>0, <2>7, <2>8 DEF EofMeansClosed, ClientClosed
  <2> QED BY <2>9, <2>10, <2>11 DEF WireInv
<1>7. ASSUME NEW j \in Callers, ReceiveEof(j) PROVE WireInv'
  <2>1. cur \in 1 .. opened
    BY <1>7 DEF ReceiveEof, ControlInv, ReceiverConnected, TypeOK, NoConn
  <2>2. ConnOK(conns[cur])
    BY <1>0, <2>1 DEF OnePerConn
  <2>3. Quiet(conns[cur])
    BY <1>7, <2>2 DEF ReceiveEof, ConnOK, Served, Carries, Quiet, OnWire, Scanned, Running, Answered
  <2> QED BY <1>7, <2>3, WireFrame DEF ReceiveEof, serverVars
<1>8. ASSUME NEW j \in Callers, ReceiveCancelled(j) PROVE WireInv'
  BY <1>8, WireFrame DEF ReceiveCancelled, serverVars
<1>9. ASSUME NEW j \in Callers, Reconnect(j) PROVE WireInv'
  <2>0. opened \in Nat /\ cur \in 0 .. opened
    BY DEF TypeOK
  <2>1. CASE UNCHANGED <<opened, cur, conns>>
    <3>1. cur # NoConn => Quiet(conns[cur])
      BY <1>0, <1>9, HolderAlone DEF Reconnect
    <3> QED BY <1>9, <2>1, <3>1, WireFrame DEF Reconnect
  <2>2. CASE /\ opened' = opened + 1 /\ cur' = opened + 1
             /\ conns' = [c \in 1 .. opened + 1 |->
                            IF c = opened + 1 THEN FreshConn ELSE conns[c]]
    <3>1. /\ conns'[opened + 1] = FreshConn
          /\ \A c \in 1 .. opened : conns'[c] = conns[c]
          /\ \A c \in 1 .. opened' : c = opened + 1 \/ c \in 1 .. opened
      BY <2>0, <2>2
    <3>2. OnePerConn'
      BY <1>0, <3>1, FreshConnOK DEF OnePerConn
    <3>3. CurrentCarries'
      BY <2>2, <3>1, FreshConnOK DEF CurrentCarries
    <3>4. FreshConn.scanner = "reading"
      BY DEF FreshConn
    <3>5. \A c \in 1 .. opened : cur' # c
      BY <2>0, <2>2
    <3>6. EofMeansClosed'
      BY <3>1, <3>4, <3>5 DEF EofMeansClosed, ClientClosed
    <3> QED BY <3>2, <3>3, <3>6 DEF WireInv
  <2> QED BY <1>9, <2>1, <2>2 DEF Reconnect
<1>10. ASSUME NEW j \in Callers, Return(j) PROVE WireInv'
  BY <1>10, WireFrame DEF Return, TypeOK, serverVars
<1>11. ASSUME NEW j \in Callers, CancelJob(j) PROVE WireInv'
  BY <1>11, WireFrame DEF CancelJob, serverVars
<1>12. ASSUME NEW c \in 1 .. opened, ConnStep(c) PROVE WireInv'
  <2>1. UNCHANGED <<clientVars, helperUp, opened>>
    BY <1>0, <1>12, ConnStepPreserves DEF OnePerConn
  <2>2. PICK q \in ConnState :
          /\ ConnBecomes(c, q) /\ Preserves(conns[c], q)
          /\ q.scanner = "done" /\ q.serving =>
               ClientClosed(c) \/ (conns[c].scanner = "done" /\ conns[c].serving)
    BY <1>0, <1>12, ConnStepPreserves DEF OnePerConn
  <2>3. conns'[c] = q /\ \A d \in (1 .. opened) \ {c} : conns'[d] = conns[d]
    BY <1>0, <2>2, ConnBecomesOne
  <2>4. OnePerConn'
    BY <1>0, <2>1, <2>2, <2>3 DEF OnePerConn, Preserves
  <2>5. CurrentCarries'
    <3>1. /\ cur' = cur /\ pc' = pc /\ reqId' = reqId
          /\ \A j \in Callers : reqId[j] \in Nat
          /\ cur # NoConn => cur \in 1 .. opened
      BY <2>1 DEF clientVars, TypeOK, NoConn
    <3>2. CASE cur = c
      BY <1>0, <2>2, <2>3, <3>1, <3>2 DEF CurrentCarries, Preserves
    <3>3. CASE cur # c
      BY <1>0, <2>3, <3>1, <3>3 DEF CurrentCarries
    <3> QED BY <3>2, <3>3
  <2>6. EofMeansClosed'
    <3>1. ASSUME NEW d \in 1 .. opened, conns'[d].scanner = "done", conns'[d].serving
          PROVE  ClientClosed(d)
      <4>1. CASE d = c
        BY <1>0, <2>2, <2>3, <3>1, <4>1 DEF EofMeansClosed
      <4>2. CASE d # c
        BY <1>0, <2>3, <3>1, <4>2 DEF EofMeansClosed
      <4> QED BY <4>1, <4>2
    <3> QED BY <2>1, <3>1 DEF EofMeansClosed, ClientClosed, clientVars
  <2> QED BY <2>4, <2>5, <2>6 DEF WireInv
<1>13. CASE HelperCrash
  <2>1. /\ \A c \in 1 .. opened : conns'[c] = Orphan(conns[c])
        /\ opened' = opened /\ UNCHANGED clientVars
    BY <1>13 DEF HelperCrash
  <2>2. \A c \in 1 .. opened : Preserves(conns[c], Orphan(conns[c]))
    BY <1>0, OrphanPreserves DEF OnePerConn
  <2>3. OnePerConn'
    BY <2>1, <2>2 DEF OnePerConn, Preserves
  <2>4. CurrentCarries'
    <3>1. /\ cur' = cur /\ pc' = pc /\ reqId' = reqId
          /\ \A j \in Callers : reqId[j] \in Nat
          /\ cur # NoConn => cur \in 1 .. opened
      BY <2>1 DEF clientVars, TypeOK, NoConn
    <3> QED BY <1>0, <2>1, <2>2, <3>1 DEF CurrentCarries, Preserves
  <2>5. \A c \in 1 .. opened : ~ conns'[c].serving
    BY <1>0, <2>1 DEF Orphan, ConnState
  <2>6. EofMeansClosed'
    BY <2>1, <2>5 DEF EofMeansClosed
  <2> QED BY <2>3, <2>4, <2>6 DEF WireInv
<1>14. CASE UNCHANGED vars
  BY <1>14, WireFrame DEF vars, clientVars, serverVars
<1> QED BY <1>1, <1>2, <1>3, <1>4, <1>5, <1>6, <1>7, <1>8, <1>9, <1>10, <1>11, <1>12, <1>13, <1>14
        DEF Next, CallStep

-----------------------------------------------------------------------------
(* The only step that hands out a response hands out the right one.         *)
LEMMA MatchInductive ==
  ASSUME TypeOK, ControlInv, WireInv, ResponseMatches, [Next]_vars
  PROVE  ResponseMatches'
<1>1. ASSUME NEW j \in Callers, ReceiveReply(j) PROVE ResponseMatches'
  <2>1. cur \in 1 .. opened /\ cur # NoConn
    BY <1>1 DEF ReceiveReply, ControlInv, ReceiverConnected, TypeOK, NoConn
  <2>2. ~ Quiet(conns[cur])
    BY <1>1 DEF ReceiveReply, Quiet
  <2>3. PICK k \in Callers : pc[k] = "receiving" /\ Carries(conns[cur], reqId[k])
    BY <2>1, <2>2 DEF WireInv, CurrentCarries
  <2>4. k = j
    BY <1>1, <2>3 DEF ReceiveReply, ControlInv, LockInv, InCall
  <2>5. conns[cur].replies = <<reqId[j]>>
    BY <1>1, <2>3, <2>4 DEF ReceiveReply, Carries, Quiet, OnWire, Scanned, Running, Answered
  <2>6. Head(<<reqId[j]>>) = reqId[j]
    OBVIOUS
  <2>7. got'[j] = reqId[j]
    BY <1>1, <2>5, <2>6 DEF ReceiveReply, TypeOK
  <2> QED BY <1>1, <2>7 DEF ReceiveReply, Unlock, ResponseMatches, TypeOK
<1>2. ASSUME NEW j \in Callers, NEW result \in Outcomes \ {"reply"}, Unlock(j, result),
             reqId' = reqId, got' = got
      PROVE  ResponseMatches'
  BY <1>2 DEF Unlock, ResponseMatches, TypeOK
<1>3. ASSUME outcome' = outcome, reqId' = reqId, got' = got
      PROVE  ResponseMatches'
  BY <1>3 DEF ResponseMatches
<1>4. ASSUME NEW j \in Callers, StartCall(j) PROVE ResponseMatches'
  BY <1>4 DEF StartCall, EnterCall, PollTick, StartJob, FetchThumbnail, ResponseMatches, TypeOK
<1>5. ASSUME NEW j \in Callers, Lock(j) PROVE ResponseMatches'
  BY <1>5 DEF Lock, ResponseMatches, TypeOK, ControlInv, FreshOutcome
<1>6. ASSUME NEW j \in Callers, SendRequest(j) \/ ReceiveCancelled(j) \/ Return(j) \/ CancelJob(j)
      PROVE  ResponseMatches'
  BY <1>3, <1>6 DEF SendRequest, ReceiveCancelled, Return, CancelJob
<1>7. ASSUME NEW j \in Callers,
             SendFails(j) \/ SendDangling(j) \/ ReceiveEof(j) \/ Reconnect(j)
      PROVE  ResponseMatches'
  <2>1. "error" \in Outcomes \ {"reply"} /\ "unset" \in Outcomes \ {"reply"}
        /\ "cancelled" \in Outcomes \ {"reply"}
    BY DEF Outcomes
  <2>2. reqId' = reqId /\ got' = got
    BY <1>7 DEF SendFails, SendDangling, ReceiveEof, Reconnect
  <2>3. \E result \in Outcomes \ {"reply"} : Unlock(j, result)
    BY <1>7, <2>1 DEF SendFails, SendDangling, ReceiveEof, Reconnect
  <2> QED BY <1>2, <2>2, <2>3
<1>8. ASSUME UNCHANGED clientVars PROVE ResponseMatches'
  BY <1>3, <1>8 DEF clientVars
<1>9. ASSUME NEW c \in 1 .. opened, ConnStep(c) PROVE ResponseMatches'
  BY <1>8, <1>9, ConnStepPreserves DEF WireInv, OnePerConn
<1>10. CASE HelperCrash
  BY <1>8, <1>10 DEF HelperCrash
<1>11. CASE UNCHANGED vars
  BY <1>8, <1>11 DEF vars
<1> QED BY <1>1, <1>4, <1>5, <1>6, <1>7, <1>9, <1>10, <1>11 DEF Next, CallStep

-----------------------------------------------------------------------------
(* The invariant holds of every behaviour of the channel.                   *)
LEMMA ChannelInvariant == Spec => []ChannelInv
<1>1. Init => ChannelInv
  <2> SUFFICES ASSUME Init PROVE ChannelInv
    OBVIOUS
  <2>1. TypeOK
    BY FreshConnOK DEF Init, TypeOK, PcValues, Outcomes, NoId
  <2>2. ControlInv
    BY CallersAssumption DEF Init, ControlInv, LockInv, FreshOutcome, ReceiverConnected, InCall
  <2>3. conns[1] = FreshConn /\ cur = 1 /\ opened = 1
    BY DEF Init
  <2>4. OnePerConn /\ CurrentCarries
    BY <2>3, FreshConnOK DEF OnePerConn, CurrentCarries
  <2>5. EofMeansClosed
    BY <2>3 DEF EofMeansClosed, FreshConn
  <2>6. ResponseMatches
    BY DEF Init, ResponseMatches
  <2> QED BY <2>1, <2>2, <2>4, <2>5, <2>6 DEF ChannelInv, ControlInv
<1>2. ChannelInv /\ [Next]_vars => ChannelInv'
  <2> SUFFICES ASSUME ChannelInv, [Next]_vars PROVE ChannelInv'
    OBVIOUS
  <2>1. ControlInv /\ WireInv /\ TypeOK /\ ResponseMatches
    BY DEF ChannelInv, ControlInv, WireInv
  <2>2. TypeOK'
    BY <2>1, TypeOKInductive DEF WireInv, ControlInv
  <2>3. ControlInv'
    BY <2>1, ControlInductive DEF WireInv
  <2>4. WireInv'
    BY <2>1, <2>2, WireInductive
  <2>5. ResponseMatches'
    BY <2>1, MatchInductive
  <2> QED BY <2>2, <2>3, <2>4, <2>5 DEF ChannelInv, ControlInv, WireInv
<1> QED BY <1>1, <1>2, PTL DEF Spec

(* The types, for any number of jobs, calls and connections.                *)
THEOREM ChannelTypeCorrect == Spec => []TypeOK
<1>1. ChannelInv => TypeOK
  BY DEF ChannelInv
<1> QED BY <1>1, ChannelInvariant, PTL

(* Whoever is given a response by call() is given the response to the       *)
(* request it sent: the mutex and the replaced connection do the work of    *)
(* the id comparison that recv_response leaves out.                         *)
THEOREM EveryResponseMatches == Spec => []ResponseMatches
<1>1. ChannelInv => ResponseMatches
  BY DEF ChannelInv
<1> QED BY <1>1, ChannelInvariant, PTL

(* handleConn never leaks its scanner goroutine on reqs <- req, because a   *)
(* connection never carries a second request while one is being handled.    *)
THEOREM NoScannerStuck == Spec => []ScannerNeverStuck
<1>1. ChannelInv => ScannerNeverStuck
  BY DEF ChannelInv, OnePerConn, ConnOK, Served, ScannerNeverStuck
<1> QED BY <1>1, ChannelInvariant, PTL

-----------------------------------------------------------------------------
(* The refinement.                                                          *)

(* The helper serves the connection in use as long as it lives.             *)
PeerServes == alive /\ helperUp /\ cur # NoConn => conns[cur].serving

(* Without a connection, one is being made or none can be.                  *)
Unconnected == cur = NoConn => ~ helperUp \/ \E j \in Callers : pc[j] = "reconnecting"

(* Only a cancelled call reconnects.                                        *)
ReconnectCancelled == \A j \in Callers : pc[j] = "reconnecting" => cancelled[j]

(* A call fails without an error set only after the helper died.            *)
UnsetMeansDead == \A j \in Callers : outcome[j] = "unset" => ~ helperUp

HealthInv ==
  PeerServes /\ Unconnected /\ ReconnectCancelled /\ UnsetMeansDead /\ BackendSurvives

-----------------------------------------------------------------------------
(* A call that finds no usable connection has a dead helper.                *)
LEMMA NoPeerMeansDead ==
  ASSUME ChannelInv, HealthInv, NEW j \in Callers, alive, pc[j] \in {"sending", "receiving"},
         cur = NoConn \/ ~ conns[cur].serving
  PROVE  ~ helperUp
<1>1. CASE cur = NoConn
  <2>1. \A k \in Callers : pc[k] # "reconnecting"
    BY DEF ChannelInv, LockInv, InCall
  <2> QED BY <1>1, <2>1 DEF HealthInv, Unconnected
<1>2. CASE cur # NoConn
  BY <1>2 DEF HealthInv, PeerServes
<1> QED BY <1>1, <1>2

(* A step of the client that touches no connection keeps the helper's       *)
(* health; what remains is what it says of the caller's own state.          *)
LEMMA HealthFrame ==
  ASSUME ChannelInv, HealthInv, conns' = conns, cur' = cur, helperUp' = helperUp,
         alive' = alive,
         \A k \in Callers : /\ pc'[k] = "reconnecting" <=> pc[k] = "reconnecting"
                            /\ pc[k] = "reconnecting" => cancelled'[k]
                            /\ outcome'[k] = "unset" => ~ helperUp
  PROVE  HealthInv'
BY DEF HealthInv, PeerServes, Unconnected, ReconnectCancelled, UnsetMeansDead, BackendSurvives

(* Every step keeps the health invariant.                                   *)
LEMMA HealthInductive ==
  ASSUME ChannelInv, ChannelInv', HealthInv, [Next]_vars
  PROVE  HealthInv'
<1>0. TypeOK /\ TypeOK' /\ ControlInv /\ OnePerConn /\ EofMeansClosed
  BY DEF ChannelInv, ControlInv
<1>a. /\ \A k \in Callers : pc[k] = "reconnecting" => cancelled[k]
      /\ \A k \in Callers : outcome[k] = "unset" => ~ helperUp
  BY DEF HealthInv, ReconnectCancelled, UnsetMeansDead
<1>1. ASSUME NEW j \in Callers, StartCall(j) PROVE HealthInv'
  BY <1>0, <1>1, <1>a, HealthFrame
     DEF StartCall, EnterCall, PollTick, StartJob, FetchThumbnail, TypeOK, serverVars
<1>2. ASSUME NEW j \in Callers, Lock(j) PROVE HealthInv'
  BY <1>0, <1>2, <1>a, HealthFrame DEF Lock, TypeOK, serverVars
<1>3. ASSUME NEW j \in Callers, SendRequest(j) PROVE HealthInv'
  <2>1. cur \in 1 .. opened /\ conns[cur] \in ConnState
    BY <1>0, <1>3 DEF SendRequest, PeerOpen, TypeOK, NoConn
  <2>2. conns'[cur].serving
    BY <1>0, <1>3, <2>1 DEF SendRequest, PeerOpen, ConnBecomes, TypeOK, ConnState
  <2>3. cur' = cur /\ alive' = alive /\ helperUp' = helperUp
    BY <1>3 DEF SendRequest
  <2>4. PeerServes'
    BY <2>2, <2>3 DEF PeerServes
  <2> QED BY <1>0, <1>3, <1>a, <2>1, <2>3, <2>4
          DEF SendRequest, HealthInv, Unconnected, ReconnectCancelled, UnsetMeansDead,
              BackendSurvives, TypeOK, NoConn
<1>4. ASSUME NEW j \in Callers, SendFails(j) PROVE HealthInv'
  BY <1>0, <1>4, <1>a, HealthFrame DEF SendFails, Unlock, TypeOK, serverVars
<1>5. ASSUME NEW j \in Callers, SendDangling(j) PROVE HealthInv'
  <2>1. ~ helperUp
    BY <1>5, NoPeerMeansDead DEF SendDangling
  <2> QED BY <1>0, <1>5, <1>a, <2>1
          DEF SendDangling, Unlock, HealthInv, PeerServes, Unconnected, ReconnectCancelled,
              UnsetMeansDead, BackendSurvives, TypeOK, serverVars
<1>6. ASSUME NEW j \in Callers, ReceiveReply(j) PROVE HealthInv'
  <2>1. cur \in 1 .. opened /\ conns[cur] \in ConnState
    BY <1>0, <1>6 DEF ReceiveReply, ControlInv, ReceiverConnected, TypeOK, NoConn
  <2>2. conns'[cur].serving = conns[cur].serving
    BY <1>0, <1>6, <2>1 DEF ReceiveReply, ConnBecomes, TypeOK, ConnState
  <2>3. cur' = cur /\ alive' = alive /\ helperUp' = helperUp
    BY <1>6 DEF ReceiveReply
  <2>4. PeerServes'
    BY <2>2, <2>3 DEF PeerServes, HealthInv
  <2> QED BY <1>0, <1>6, <1>a, <2>1, <2>3, <2>4
          DEF ReceiveReply, Unlock, HealthInv, Unconnected, ReconnectCancelled, UnsetMeansDead,
              BackendSurvives, TypeOK, NoConn
<1>7. ASSUME NEW j \in Callers, ReceiveEof(j) PROVE HealthInv'
  <2>1. ~ helperUp
    BY <1>7, NoPeerMeansDead DEF ReceiveEof
  <2> QED BY <1>0, <1>7, <1>a, <2>1, HealthFrame DEF ReceiveEof, Unlock, TypeOK, serverVars
<1>8. ASSUME NEW j \in Callers, ReceiveCancelled(j) PROVE HealthInv'
  BY <1>0, <1>8, <1>a
     DEF ReceiveCancelled, HealthInv, PeerServes, Unconnected, ReconnectCancelled, UnsetMeansDead,
         BackendSurvives, TypeOK, serverVars
<1>9. ASSUME NEW j \in Callers, Reconnect(j) PROVE HealthInv'
  <2>1. /\ \A k \in Callers : pc'[k] # "reconnecting"
        /\ \A k \in Callers : outcome'[k] = "unset" => ~ helperUp
        /\ alive' = alive /\ helperUp' = helperUp
    BY <1>0, <1>9, <1>a DEF Reconnect, Unlock, TypeOK, ControlInv, LockInv, InCall
  <2>2. PeerServes' /\ Unconnected'
    <3>1. CASE ~ helperUp
      BY <2>1, <3>1 DEF PeerServes, Unconnected
    <3>2. CASE helperUp
      <4>1. cur' = opened + 1 /\ conns'[cur'] = FreshConn
        BY <1>0, <1>9, <3>2 DEF Reconnect, TypeOK
      <4> QED BY <1>0, <4>1 DEF PeerServes, Unconnected, FreshConn, NoConn, TypeOK
    <3> QED BY <3>1, <3>2
  <2> QED BY <2>1, <2>2 DEF HealthInv, ReconnectCancelled, UnsetMeansDead, BackendSurvives
<1>10. ASSUME NEW j \in Callers, Return(j) PROVE HealthInv'
  <2>1. alive' = alive \/ ~ helperUp
    BY <1>a, <1>10 DEF Return
  <2> QED BY <1>0, <1>10, <1>a, <2>1
          DEF Return, HealthInv, PeerServes, Unconnected, ReconnectCancelled, UnsetMeansDead,
              BackendSurvives, TypeOK, serverVars
<1>11. ASSUME NEW j \in Callers, CancelJob(j) PROVE HealthInv'
  BY <1>0, <1>11, <1>a, HealthFrame DEF CancelJob, TypeOK, serverVars
<1>12. ASSUME NEW c \in 1 .. opened, ConnStep(c) PROVE HealthInv'
  <2>1. UNCHANGED <<clientVars, helperUp, opened>>
    BY <1>0, <1>12, ConnStepPreserves DEF OnePerConn
  <2>2. ASSUME alive, cur = c, conns[c].serving PROVE conns'[c].serving
    <3>0. ~ ClientClosed(c) /\ conns[c] \in ConnState /\ conns[c].scanner # "done"
      BY <1>0, <2>2 DEF ClientClosed, TypeOK, EofMeansClosed
    <3>1. CASE ScanRequest(c)
      <4> DEFINE q == [conns[c] EXCEPT !.wire = Tail(@), !.scanner = "sending", !.held = Head(conns[c].wire)]
      <4>1. ConnBecomes(c, q)
        BY <3>1 DEF ScanRequest
      <4>2. q.serving
        BY <2>2, <3>0 DEF ConnState
      <4> HIDE DEF q
      <4> QED BY <1>0, <4>1, <4>2 DEF ConnBecomes, TypeOK
    <3>2. CASE Dispatch(c)
      <4> DEFINE q == [conns[c] EXCEPT !.busy = conns[c].held, !.held = NoId, !.scanner = "reading"]
      <4>1. ConnBecomes(c, q)
        BY <3>2 DEF Dispatch
      <4>2. q.serving
        BY <2>2, <3>0 DEF ConnState
      <4> HIDE DEF q
      <4> QED BY <1>0, <4>1, <4>2 DEF ConnBecomes, TypeOK
    <3>3. CASE Respond(c)
      <4> DEFINE q == [conns[c] EXCEPT 
                        !.busy    = NoId,
                        !.replies = IF ClientClosed(c) THEN @ ELSE Append(@, conns[c].busy),
                        !.serving = ~ ClientClosed(c)]
      <4>1. ConnBecomes(c, q)
        BY <3>3 DEF Respond
      <4>2. q.serving
        BY <2>2, <3>0 DEF ConnState
      <4> HIDE DEF q
      <4> QED BY <1>0, <4>1, <4>2 DEF ConnBecomes, TypeOK
    <3>4. ~ ScanEof(c) /\ ~ EndServing(c)
      BY <3>0 DEF ScanEof, EndServing
    <3> QED BY <1>12, <3>1, <3>2, <3>3, <3>4 DEF ConnStep
  <2>3. ASSUME cur # c, cur # NoConn PROVE conns'[cur] = conns[cur]
    <3>1. cur \in 1 .. opened
      BY <1>0, <2>3 DEF TypeOK, NoConn
    <3> QED BY <1>0, <1>12, <2>3, <3>1
            DEF ConnStep, ScanRequest, ScanEof, Dispatch, Respond, EndServing, ConnBecomes, TypeOK
  <2>4. PeerServes'
    BY <2>1, <2>2, <2>3 DEF PeerServes, HealthInv, clientVars
  <2> QED BY <2>1, <2>4
          DEF HealthInv, Unconnected, ReconnectCancelled, UnsetMeansDead, BackendSurvives, clientVars
<1>13. CASE HelperCrash
  BY <1>13, <1>a DEF HelperCrash, HealthInv, PeerServes, Unconnected, ReconnectCancelled,
                    UnsetMeansDead, BackendSurvives, clientVars
<1>14. CASE UNCHANGED vars
  BY <1>14, <1>a, HealthFrame DEF vars, clientVars, serverVars
<1> QED BY <1>1, <1>2, <1>3, <1>4, <1>5, <1>6, <1>7, <1>8, <1>9, <1>10, <1>11, <1>12, <1>13, <1>14
        DEF Next, CallStep

(* The invariants hold of every behaviour of the channel.                   *)
LEMMA HealthInvariant == Spec => [](ChannelInv /\ HealthInv)
<1>1. Init => HealthInv
  BY DEF Init, HealthInv, PeerServes, Unconnected, ReconnectCancelled, UnsetMeansDead,
         BackendSurvives, FreshConn, NoConn
<1>2. ChannelInv /\ ChannelInv' /\ HealthInv /\ [Next]_vars => HealthInv'
  BY HealthInductive
<1> QED BY <1>1, <1>2, ChannelInvariant, PTL DEF Spec

(* Neither cancellations nor failed calls bring the backend down: a job     *)
(* that reads through an unset GError, or writes into a freed connection,   *)
(* does so only after the helper died.                                      *)
THEOREM BackendSurvivesHelper == Spec => []BackendSurvives
<1>1. HealthInv => BackendSurvives
  BY DEF HealthInv
<1> QED BY <1>1, HealthInvariant, PTL

-----------------------------------------------------------------------------
(* The refinement mapping, seen from one caller's step.                     *)

(* A caller that moves from one pc to another moves between their stages.   *)
LEMMA StageMoves ==
  ASSUME TypeOK, NEW j \in Callers, NEW p \in PcValues, pc' = [pc EXCEPT ![j] = p]
  PROVE  Stages[j] = StageOf(pc[j]) /\ Stages' = [Stages EXCEPT ![j] = StageOf(p)]
BY DEF TypeOK, Stages

(* The stage each pc stands for.                                            *)
LEMMA StageValues ==
  /\ StageOf("idle") = "out" /\ StageOf("waiting") = "queued" /\ StageOf("returned") = "back"
  /\ \A p \in InCall : StageOf(p) = "admitted"
  /\ \A p \in PcValues : StageOf(p) = "admitted" => p \in InCall
BY DEF StageOf, InCall, PcValues

(* Answers change only with the outcome and what was received.              *)
LEMMA AnswersKept ==
  ASSUME outcome' = outcome, got' = got
  PROVE  Answers' = Answers
BY DEF Answers

(* Entering call() asks.                                                    *)
LEMMA StartRefines ==
  ASSUME TypeOK, NEW j \in Callers, StartCall(j)
  PROVE  Calls!Ask(j)
<1>1. /\ alive /\ pc[j] = "idle" /\ pc' = [pc EXCEPT ![j] = "waiting"]
      /\ outcome' = [outcome EXCEPT ![j] = "none"]
      /\ UNCHANGED <<alive, nextId, reqId, got, helperUp>>
  BY DEF StartCall, PollTick, StartJob, FetchThumbnail, EnterCall, serverVars
<1>2. cancelled' = [cancelled EXCEPT ![j] = FALSE] \/ cancelled' = cancelled
  BY DEF StartCall, PollTick, StartJob, FetchThumbnail
<1>3. \E c \in {FALSE, cancelled[j]} : cancelled' = [cancelled EXCEPT ![j] = c]
  <2>1. cancelled = [cancelled EXCEPT ![j] = cancelled[j]]
    BY DEF TypeOK
  <2> QED BY <1>2, <2>1, Zenon
<1>4. Stages[j] = "out" /\ Stages' = [Stages EXCEPT ![j] = "queued"]
  BY <1>1, StageMoves, StageValues DEF PcValues
<1>5. Answers' = [Answers EXCEPT ![j] = 0]
  BY <1>1 DEF Answers, TypeOK, Outcomes
<1> QED BY <1>1, <1>3, <1>4, <1>5 DEF Calls!Ask, Calls!Moves, Calls!NoAnswer

(* Taking the mutex admits.                                                 *)
LEMMA LockRefines ==
  ASSUME TypeOK, LockInv, NEW j \in Callers, Lock(j)
  PROVE  Calls!Admit(j)
<1>1. Stages[j] = "queued" /\ Stages' = [Stages EXCEPT ![j] = "admitted"]
  BY StageMoves, StageValues DEF Lock, PcValues, InCall
<1>2. \A k \in Callers : Stages[k] # "admitted"
  <2> SUFFICES ASSUME NEW k \in Callers, Stages[k] = "admitted" PROVE FALSE
    OBVIOUS
  <2>1. pc[k] \in InCall
    BY StageValues DEF Stages, TypeOK
  <2> QED BY <2>1, CallersAssumption DEF Lock, LockInv
<1>3. Answers' = Answers
  BY AnswersKept DEF Lock
<1> QED BY <1>1, <1>2, <1>3 DEF Lock, serverVars, Calls!Admit, Calls!Moves

(* Leaving call() is going back.                                            *)
LEMMA UnlockMoves ==
  ASSUME TypeOK, NEW j \in Callers, pc[j] \in InCall, NEW result, Unlock(j, result)
  PROVE  Stages[j] = "admitted" /\ Stages' = [Stages EXCEPT ![j] = "back"]
BY StageMoves, StageValues DEF Unlock, PcValues

(* A response given is the caller's own answer.                             *)
LEMMA ReplyRefines ==
  ASSUME TypeOK, ResponseMatches', NEW j \in Callers, ReceiveReply(j)
  PROVE  Calls!Reply(j)
<1>1. Stages[j] = "admitted" /\ Stages' = [Stages EXCEPT ![j] = "back"]
  BY UnlockMoves DEF ReceiveReply, InCall
<1>2. outcome' = [outcome EXCEPT ![j] = "reply"] /\ reqId' = reqId
  BY DEF ReceiveReply, Unlock
<1>3. got'[j] = reqId[j]
  BY <1>2 DEF ResponseMatches, TypeOK
<1>4. PICK g : got' = [got EXCEPT ![j] = g]
  BY DEF ReceiveReply
<1>5. Answers' = [Answers EXCEPT ![j] = reqId[j]]
  BY <1>2, <1>3, <1>4 DEF Answers, TypeOK
<1> QED BY <1>1, <1>5 DEF ReceiveReply, Calls!Reply, Calls!Moves

(* A call that ends otherwise was cancelled, or the helper is dead.         *)
LEMMA AbortRefines ==
  ASSUME TypeOK, NEW j \in Callers, pc[j] \in InCall,
         NEW result \in Outcomes \ {"reply", "none"}, Unlock(j, result),
         outcome[j] = "none", alive, cancelled[j] \/ ~ helperUp, alive' \in {TRUE, helperUp},
         UNCHANGED <<nextId, reqId, cancelled, got, helperUp>>
  PROVE  Calls!Abort(j)
<1>1. Stages[j] = "admitted" /\ Stages' = [Stages EXCEPT ![j] = "back"]
  BY UnlockMoves
<1>2. Answers' = Answers
  BY DEF Answers, Unlock, TypeOK
<1> QED BY <1>1, <1>2 DEF Calls!Abort, Calls!Moves

(* Every step of the channel is a step of SerialCalls or none.              *)
LEMMA StepRefines ==
  ASSUME ChannelInv, ChannelInv', HealthInv, [Next]_vars
  PROVE  [Calls!Next]_(Calls!vars)
<1>0. TypeOK /\ LockInv /\ FreshOutcome /\ ResponseMatches'
  BY DEF ChannelInv
<1>a. ASSUME UNCHANGED <<alive, nextId, pc, reqId, cancelled, outcome, got, helperUp>>
      PROVE  UNCHANGED Calls!vars
  BY <1>a DEF Calls!vars, Stages, Answers
<1>b. ASSUME NEW j \in Callers, pc[j] \in InCall, NEW p \in InCall, pc' = [pc EXCEPT ![j] = p],
             UNCHANGED <<alive, nextId, reqId, cancelled, outcome, got, helperUp>>
      PROVE  UNCHANGED Calls!vars
  <2>1. Stages' = Stages
    BY <1>0, <1>b, StageValues DEF Stages, TypeOK
  <2> QED BY <1>b, <2>1, AnswersKept DEF Calls!vars
<1>1. ASSUME NEW j \in Callers, StartCall(j) PROVE Calls!Next
  BY <1>0, <1>1, StartRefines DEF Calls!Next
<1>2. ASSUME NEW j \in Callers, Lock(j) PROVE Calls!Next
  BY <1>0, <1>2, LockRefines DEF Calls!Next
<1>3. ASSUME NEW j \in Callers, SendRequest(j) PROVE UNCHANGED Calls!vars
  BY <1>3, <1>b DEF SendRequest, InCall
<1>4. ASSUME NEW j \in Callers, SendFails(j) PROVE Calls!Next
  <2>1. Calls!Abort(j)
    BY <1>0, <1>4, NoPeerMeansDead, AbortRefines
       DEF SendFails, serverVars, InCall, Outcomes, FreshOutcome, TypeOK
  <2> QED BY <2>1 DEF Calls!Next
<1>5. ASSUME NEW j \in Callers, SendDangling(j) PROVE Calls!Next
  <2>1. Calls!Abort(j)
    BY <1>0, <1>5, NoPeerMeansDead, AbortRefines
       DEF SendDangling, serverVars, InCall, Outcomes, FreshOutcome, TypeOK
  <2> QED BY <2>1 DEF Calls!Next
<1>6. ASSUME NEW j \in Callers, ReceiveReply(j) PROVE Calls!Next
  BY <1>0, <1>6, ReplyRefines DEF Calls!Next
<1>7. ASSUME NEW j \in Callers, ReceiveEof(j) PROVE Calls!Next
  <2>1. PICK result \in {"error", "unset"} : Unlock(j, result)
    BY <1>7 DEF ReceiveEof
  <2>2. Calls!Abort(j)
    BY <1>0, <1>7, <2>1, NoPeerMeansDead, AbortRefines
       DEF ReceiveEof, serverVars, InCall, Outcomes, FreshOutcome, TypeOK
  <2> QED BY <2>2 DEF Calls!Next
<1>8. ASSUME NEW j \in Callers, ReceiveCancelled(j) PROVE UNCHANGED Calls!vars
  BY <1>8, <1>b DEF ReceiveCancelled, serverVars, InCall
<1>9. ASSUME NEW j \in Callers, Reconnect(j) PROVE Calls!Next
  <2>1. Calls!Abort(j)
    BY <1>0, <1>9, AbortRefines
       DEF Reconnect, InCall, Outcomes, FreshOutcome, TypeOK, HealthInv, ReconnectCancelled
  <2> QED BY <2>1 DEF Calls!Next
<1>10. ASSUME NEW j \in Callers, Return(j) PROVE Calls!Next
  <2>1. Stages[j] = "back" /\ Stages' = [Stages EXCEPT ![j] = "out"]
    BY <1>0, <1>10, StageMoves, StageValues DEF Return, PcValues
  <2>2. alive' \in {TRUE, helperUp}
    BY <1>0, <1>10 DEF Return, HealthInv, UnsetMeansDead, TypeOK
  <2>3. Calls!Leave(j)
    BY <1>10, <2>1, <2>2, AnswersKept DEF Return, serverVars, Calls!Leave, Calls!Moves
  <2> QED BY <2>3 DEF Calls!Next
<1>11. ASSUME NEW j \in Callers, CancelJob(j) PROVE Calls!Next
  <2>1. Stages[j] # "out" /\ Stages' = Stages
    BY <1>0, <1>11 DEF CancelJob, Stages, StageOf, TypeOK, PcValues
  <2>2. Calls!Cancel(j)
    BY <1>11, <2>1, AnswersKept DEF CancelJob, serverVars, Calls!Cancel
  <2> QED BY <2>2 DEF Calls!Next
<1>12. ASSUME NEW c \in 1 .. opened, ConnStep(c) PROVE UNCHANGED Calls!vars
  <2>1. UNCHANGED <<clientVars, helperUp, opened>>
    BY <1>12, ConnStepPreserves DEF ChannelInv, OnePerConn
  <2> QED BY <1>a, <2>1 DEF clientVars
<1>13. CASE HelperCrash
  <2>1. Calls!HelperDies
    BY <1>13, AnswersKept DEF HelperCrash, clientVars, Stages, Calls!HelperDies
  <2> QED BY <2>1 DEF Calls!Next
<1>14. CASE UNCHANGED vars
  BY <1>a, <1>14 DEF vars, clientVars, serverVars
<1> QED BY <1>1, <1>2, <1>3, <1>4, <1>5, <1>6, <1>7, <1>8, <1>9, <1>10, <1>11, <1>12, <1>13, <1>14
        DEF Next, CallStep

(* The channel is the service proton-rpc.h describes: calls one at a time,  *)
(* each with its own answer, failing for no reason but a cancellation or    *)
(* the helper's death.                                                      *)
THEOREM ChannelImplementsSerialCalls == Spec => ImplementsSerialCalls
<1>1. Init => Calls!Init
  BY StageValues DEF Init, Calls!Init, Calls!NoAnswer, Stages, Answers, NoId
<1>2. ChannelInv /\ ChannelInv' /\ HealthInv /\ [Next]_vars => [Calls!Next]_(Calls!vars)
  BY StepRefines
<1> QED BY <1>1, <1>2, HealthInvariant, PTL DEF Spec, ImplementsSerialCalls, Calls!Spec
=============================================================================
