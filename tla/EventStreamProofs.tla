------------------------- MODULE EventStreamProofs --------------------------
(***************************************************************************)
(* What the anchor file promises, for any number of events, sessions and   *)
(* crashes.  AnchorCovered is about the file only; it is inductive together *)
(* with the same claim about what each poller is about to write there.     *)
(* Then what becomes of a notice, and that both together implement the     *)
(* feed that EventFeed describes.                                          *)
(***************************************************************************)
EXTENDS StreamRefinement, TLAPS

(* Events that were handled, refreshed over or skipped at a start.          *)
Known == handled \cup skipped

(* Every event up to n is in a set.                                         *)
Covered(n, known) == \A e \in 1 .. n : e \in known

(* What a poller's position promises: all before its anchor is covered, all *)
(* it has passed in a batch is, and all that it is about to save is.        *)
PollerCovered(s) ==
  /\ Covered(pollers[s].anchor, Known)
  /\ pollers[s].state = "handling" => Covered(pollers[s].next - 1, Known)
  /\ pollers[s].state \in {"saving", "writing"} => Covered(pollers[s].goal, Known)

AnchorInv ==
  /\ TypeOK
  /\ file # NoAnchor => Covered(file, Known)
  /\ \A s \in Sessions : PollerCovered(s)

-----------------------------------------------------------------------------
(* A poller that has just started, or was never started, has its type.      *)
LEMMA FreshPollerType ==
  ASSUME NEW state \in PollerStates, NEW anchor \in Nat
  PROVE  Poller(state, anchor) \in PollerType
BY DEF Poller, PollerType

(* Replacing one poller's record leaves the others alone.                   *)
LEMMA BecomeOne ==
  ASSUME pollers \in [Sessions -> PollerType],
         NEW s \in Sessions, NEW q \in PollerType, Become(s, q)
  PROVE  /\ pollers' \in [Sessions -> PollerType]
         /\ pollers'[s] = q
         /\ \A r \in Sessions \ {s} : pollers'[r] = pollers[r]
BY DEF Become

(* enqueue keeps a queue a queue, whether or not it is full.                *)
LEMMA EnqueueType ==
  ASSUME NEW queue \in Seq(Notices), NEW notice \in Notices
  PROVE  Enqueue(queue, notice) \in Seq(Notices)
<1>1. CASE Len(queue) >= BufferSize
  <2>1. queue # << >>
    BY <1>1, BufferSizeAssumption
  <2>2. Tail(queue) \in Seq(Notices)
    BY <2>1
  <2> QED BY <1>1, <2>2 DEF Enqueue
<1>2. CASE ~ (Len(queue) >= BufferSize)
  BY <1>2 DEF Enqueue
<1> QED BY <1>1, <1>2

(* What falls out of a full queue is a set of event numbers.                *)
LEMMA OverflowType ==
  ASSUME NEW queue \in Seq(Notices)
  PROVE  Overflow(queue) \subseteq Nat
<1>1. CASE Len(queue) >= BufferSize
  <2>1. Head(queue) \in Notices
    BY <1>1, BufferSizeAssumption
  <2> QED BY <1>1, <2>1 DEF Overflow, Covers, Notices
<1>2. CASE ~ (Len(queue) >= BufferSize)
  BY <1>2 DEF Overflow
<1> QED BY <1>1, <1>2

(* So is what a queue covers.                                               *)
LEMMA CoveredByType ==
  ASSUME NEW queue \in Seq(Notices)
  PROVE  CoveredBy(queue) \subseteq Nat
<1> SUFFICES ASSUME NEW n \in CoveredBy(queue) PROVE n \in Nat
  OBVIOUS
<1>1. PICK i \in DOMAIN queue : n \in Covers(queue[i])
  BY DEF CoveredBy
<1>2. queue[i] \in Notices
  BY <1>1
<1> QED BY <1>1, <1>2 DEF Covers, Notices

-----------------------------------------------------------------------------
(* The record each step of a poller leaves behind.                          *)
Polled(s)    == [pollers[s] EXCEPT !.state = "handling", !.next = pollers[s].anchor + 1,
                                   !.goal = head]
Handled(s)   == [pollers[s] EXCEPT
                   !.next = @ + 1,
                   !.queue = Enqueue(@, [from |-> pollers[s].next, to |-> pollers[s].next])]
Finished(s)  == [pollers[s] EXCEPT !.state = "saving"]
Refreshed(s) == [pollers[s] EXCEPT
                   !.state = "saving", !.goal = head, !.next = head + 1,
                   !.queue = Enqueue(@, [from |-> pollers[s].anchor + 1, to |-> head])]
Truncated(s) == [pollers[s] EXCEPT !.state = "writing"]
Saved(s)     == [pollers[s] EXCEPT !.state = "idle", !.anchor = pollers[s].goal]

(* Any of a poller's fields may be replaced by a value of its type.         *)
LEMMA RecordUpdateType ==
  ASSUME NEW r \in PollerType, NEW state \in PollerStates, NEW next \in Nat,
         NEW goal \in Nat, NEW queue \in Seq(Notices)
  PROVE  /\ [r EXCEPT !.state = state, !.next = next, !.goal = goal] \in PollerType
         /\ [r EXCEPT !.next = next, !.queue = queue] \in PollerType
         /\ [r EXCEPT !.state = state, !.goal = goal, !.next = next, !.queue = queue] \in PollerType
         /\ [r EXCEPT !.queue = queue] \in PollerType
BY DEF PollerType

(* An empty queue is a queue.                                               *)
LEMMA EmptyQueueType == << >> \in Seq(Notices)
OBVIOUS

(* Each of the records above is a poller's.                                 *)
LEMMA StepRecordTypes ==
  ASSUME TypeOK, NEW s \in Sessions
  PROVE  /\ Polled(s) \in PollerType /\ Handled(s) \in PollerType
         /\ Finished(s) \in PollerType /\ Refreshed(s) \in PollerType
         /\ Truncated(s) \in PollerType /\ Saved(s) \in PollerType
<1>0. pollers[s] \in PollerType /\ head \in Nat
  BY DEF TypeOK
<1>1. [from |-> pollers[s].next, to |-> pollers[s].next] \in Notices
  BY <1>0 DEF PollerType, Notices
<1>2. [from |-> pollers[s].anchor + 1, to |-> head] \in Notices
  BY <1>0 DEF PollerType, Notices
<1>3. pollers[s].queue \in Seq(Notices)
  BY <1>0 DEF PollerType
<1>4. /\ Enqueue(pollers[s].queue, [from |-> pollers[s].next, to |-> pollers[s].next]) \in Seq(Notices)
      /\ Enqueue(pollers[s].queue, [from |-> pollers[s].anchor + 1, to |-> head]) \in Seq(Notices)
  BY <1>1, <1>2, <1>3, EnqueueType
<1>a. pollers[s].next + 1 \in Nat /\ pollers[s].anchor + 1 \in Nat /\ head + 1 \in Nat
  BY <1>0 DEF PollerType
<1>b. "handling" \in PollerStates /\ "saving" \in PollerStates
  BY DEF PollerStates
<1>5. Polled(s) \in PollerType
  BY <1>0, <1>3, <1>a, <1>b, RecordUpdateType DEF Polled
<1>6. Handled(s) \in PollerType
  BY <1>0, <1>4, <1>a, <1>b, RecordUpdateType DEF Handled
<1>7. Finished(s) \in PollerType /\ Truncated(s) \in PollerType
  BY <1>0 DEF Finished, Truncated, PollerType, PollerStates
<1>8. Refreshed(s) \in PollerType
  BY <1>0, <1>4, <1>a, <1>b, RecordUpdateType DEF Refreshed
<1>9. Saved(s) \in PollerType
  BY <1>0 DEF Saved, PollerType, PollerStates
<1> QED BY <1>5, <1>6, <1>7, <1>8, <1>9

(* The type invariant is inductive, for any number of sessions and events.  *)
LEMMA TypeOKInductive == TypeOK /\ [Next]_vars => TypeOK'
<1> SUFFICES ASSUME TypeOK, [Next]_vars PROVE TypeOK'
  OBVIOUS
<1>1. CASE RemoteEvent
  BY <1>1 DEF RemoteEvent, TypeOK, history
<1>2. CASE StartSession
  <2>1. current + 1 \in Sessions /\ current' \in 0 .. MaxSessions
    BY <1>2, StreamBounds DEF StartSession, Sessions, TypeOK
  <2>2. pollers' \in [Sessions -> PollerType]
    <3>1. CASE file # NoAnchor /\ Become(current + 1, Poller("idle", file))
      <4>1. Poller("idle", file) \in PollerType
        BY <3>1, FreshPollerType DEF TypeOK, PollerStates
      <4> QED BY <2>1, <3>1, <4>1, BecomeOne DEF TypeOK
    <3>2. CASE Become(current + 1, Poller("idle", head))
      <4>1. Poller("idle", head) \in PollerType
        BY FreshPollerType DEF TypeOK, PollerStates
      <4> QED BY <2>1, <3>2, <4>1, BecomeOne DEF TypeOK
    <3>3. CASE pollers' = pollers
      BY <3>3 DEF TypeOK
    <3> QED BY <1>2, <3>1, <3>2, <3>3 DEF StartSession
  <2>3. skipped' \subseteq Nat
    <3>1. skipped' = skipped \/ skipped' = skipped \cup ((1 .. head) \ handled)
      BY <1>2 DEF StartSession
    <3>2. skipped \subseteq Nat /\ 1 .. head \subseteq Nat
      BY DEF TypeOK
    <3> QED BY <3>1, <3>2
  <2>4. reply' = << >>
    BY <1>2 DEF StartSession
  <2>5. reply' \in Seq(Notices)
    BY <2>4, EmptyQueueType, Zenon
  <2>6. seen' = {} /\ dropped' = {}
    BY <1>2 DEF StartSession
  <2> QED BY <1>2, <2>1, <2>2, <2>3, <2>5, <2>6 DEF StartSession, TypeOK
<1>3. CASE Drain
  <2>1. current \in Sessions
    BY <1>3, StreamBounds DEF Drain, Sessions, TypeOK
  <2>2. pollers[current] \in PollerType
    BY <2>1 DEF TypeOK
  <2>3. reply' \in Seq(Notices)
    BY <1>3, <2>2 DEF Drain, PollerType
  <2>4. [pollers[current] EXCEPT !.queue = << >>] \in PollerType
    BY <2>2, EmptyQueueType DEF PollerType
  <2>5. pollers' \in [Sessions -> PollerType]
    BY <1>3, <2>1, <2>4, BecomeOne DEF Drain, TypeOK
  <2> QED BY <1>3, <2>3, <2>5 DEF Drain, TypeOK, history
<1>4. CASE Deliver
  <2>1. CoveredBy(reply) \subseteq Nat
    BY CoveredByType DEF TypeOK
  <2>2. reply' \in Seq(Notices)
    BY <1>4, EmptyQueueType DEF Deliver
  <2> QED BY <1>4, <2>1, <2>2 DEF Deliver, TypeOK
<1>5. CASE Crash
  <2>1. Poller("off", 0) \in PollerType
    BY FreshPollerType DEF PollerStates
  <2>2. pollers' \in [Sessions -> PollerType]
    BY <1>5, <2>1 DEF Crash
  <2>3. reply' \in Seq(Notices)
    <3>1. reply' \in {reply, << >>} /\ reply \in Seq(Notices)
      BY <1>5 DEF Crash, TypeOK
    <3> QED BY <3>1, EmptyQueueType, Zenon
  <2>4. crashes \in Nat /\ crashes' = crashes + 1 /\ up' = FALSE
    BY <1>5 DEF Crash, TypeOK
  <2>5. crashes' \in Nat
    BY <2>4
  <2>6. /\ head' = head /\ file' = file /\ current' = current
        /\ handled' = handled /\ skipped' = skipped /\ seen' = seen /\ dropped' = dropped
    BY <1>5 DEF Crash, history
  <2> QED BY <2>2, <2>3, <2>4, <2>5, <2>6 DEF TypeOK
<1>6. CASE Respawn
  BY <1>6 DEF Respawn, TypeOK, history
<1>7. ASSUME NEW s \in Sessions, PollStep(s) PROVE TypeOK'
  <2>0. pollers[s] \in PollerType /\ pollers \in [Sessions -> PollerType]
    BY DEF TypeOK
  <2>1. CASE Poll(s)
    <3>1. pollers' \in [Sessions -> PollerType]
      BY <2>0, <2>1, StepRecordTypes, BecomeOne DEF Poll, Polled
    <3> QED BY <2>1, <3>1 DEF Poll, TypeOK, history
  <2>2. CASE Handle(s)
    <3>1. pollers' \in [Sessions -> PollerType]
      BY <2>0, <2>2, StepRecordTypes, BecomeOne DEF Handle, Handled
    <3>2. Overflow(pollers[s].queue) \subseteq Nat
      BY <2>0, OverflowType DEF PollerType
    <3>3. handled' \subseteq Nat /\ dropped' \subseteq Nat
      BY <2>0, <2>2, <3>2 DEF Handle, Drop, TypeOK, PollerType
    <3> QED BY <2>2, <3>1, <3>3 DEF Handle, TypeOK
  <2>3. CASE BatchDone(s)
    <3>1. pollers' \in [Sessions -> PollerType]
      BY <2>0, <2>3, StepRecordTypes, BecomeOne DEF BatchDone, Finished
    <3> QED BY <2>3, <3>1 DEF BatchDone, TypeOK, history
  <2>4. CASE PollRefresh(s)
    <3>1. pollers' \in [Sessions -> PollerType]
      BY <2>0, <2>4, StepRecordTypes, BecomeOne DEF PollRefresh, Refreshed
    <3>2. Overflow(pollers[s].queue) \subseteq Nat
      BY <2>0, OverflowType DEF PollerType
    <3>3. pollers[s].anchor \in Nat /\ head \in Nat
      BY <2>0 DEF TypeOK, PollerType
    <3>4. handled' \subseteq Nat /\ dropped' \subseteq Nat
      BY <2>4, <3>2, <3>3 DEF PollRefresh, Drop, TypeOK, Covers
    <3> QED BY <2>4, <3>1, <3>4 DEF PollRefresh, TypeOK
  <2>5. CASE SaveTruncate(s)
    <3>1. pollers' \in [Sessions -> PollerType]
      BY <2>0, <2>5, StepRecordTypes, BecomeOne DEF SaveTruncate, Truncated
    <3> QED BY <2>5, <3>1 DEF SaveTruncate, TypeOK, history
  <2>6. CASE SaveWrite(s)
    <3>1. pollers' \in [Sessions -> PollerType]
      BY <2>0, <2>6, StepRecordTypes, BecomeOne DEF SaveWrite, Saved
    <3>2. pollers[s].goal \in Nat
      BY <2>0 DEF PollerType
    <3> QED BY <2>6, <3>1, <3>2 DEF SaveWrite, TypeOK, history
  <2> QED BY <1>7, <2>1, <2>2, <2>3, <2>4, <2>5, <2>6 DEF PollStep
<1>8. CASE UNCHANGED vars
  BY <1>8 DEF vars, TypeOK
<1> QED BY <1>1, <1>2, <1>3, <1>4, <1>5, <1>6, <1>7, <1>8 DEF Next

(* The session starts in a state of the right type.                         *)
LEMMA InitTypeOK == Init => TypeOK
<1> SUFFICES ASSUME Init PROVE TypeOK
  OBVIOUS
<1>1. Poller("off", 0) \in PollerType
  BY FreshPollerType DEF PollerStates
<1> QED BY <1>1, EmptyQueueType, StreamBounds DEF Init, TypeOK

(* The type invariant, for every number of events, sessions and crashes.    *)
THEOREM StreamTypeCorrect == Spec => []TypeOK
BY InitTypeOK, TypeOKInductive, PTL DEF Spec

-----------------------------------------------------------------------------
(* A step that changes neither the file nor the pollers keeps the invariant.*)
LEMMA AnchorFrame ==
  ASSUME AnchorInv, TypeOK', file' = file, pollers' = pollers,
         handled \subseteq handled', skipped \subseteq skipped'
  PROVE  AnchorInv'
<1>1. ASSUME file' # NoAnchor PROVE Covered(file', Known')
  BY <1>1 DEF AnchorInv, Covered, Known
<1>2. ASSUME NEW s \in Sessions PROVE PollerCovered(s)'
  BY DEF AnchorInv, PollerCovered, Covered, Known
<1> QED BY <1>1, <1>2 DEF AnchorInv

(* A step that replaces poller s keeps the others' part of the invariant.   *)
LEMMA OtherPollers ==
  ASSUME AnchorInv, handled \subseteq handled', skipped \subseteq skipped',
         NEW s \in Sessions, NEW r \in Sessions \ {s}, pollers'[r] = pollers[r]
  PROVE  PollerCovered(r)'
BY DEF AnchorInv, PollerCovered, Covered, Known

(* The invariant is inductive: see the comment at the top.                  *)
LEMMA AnchorInductive == AnchorInv /\ [Next]_vars => AnchorInv'
<1> SUFFICES ASSUME AnchorInv, [Next]_vars PROVE AnchorInv'
  OBVIOUS
<1>0. TypeOK /\ TypeOK'
  BY TypeOKInductive DEF AnchorInv
<1>1. CASE RemoteEvent
  BY <1>0, <1>1, AnchorFrame DEF RemoteEvent, history
<1>2. CASE StartSession
  <2>1. /\ current + 1 \in Sessions /\ head \in Nat
        /\ pollers \in [Sessions -> PollerType]
        /\ file' = file /\ handled' = handled
    BY <1>0, <1>2, StreamBounds DEF StartSession, Sessions, TypeOK
  <2>c. PICK c \in Sessions : c = current + 1
    BY <2>1
  <2>2. skipped \subseteq skipped'
    BY <1>2 DEF StartSession
  <2>3. ASSUME file' # NoAnchor PROVE Covered(file', Known')
    BY <2>1, <2>2, <2>3 DEF AnchorInv, Covered, Known
  <2>4. CASE pollers' = pollers
    BY <1>0, <2>1, <2>2, <2>4, AnchorFrame
  <2>5. ASSUME NEW a \in Nat, Become(c, Poller("idle", a)), Covered(a, Known')
        PROVE  AnchorInv'
    <3>1. Poller("idle", a) \in PollerType
      BY FreshPollerType DEF PollerStates
    <3>2. /\ pollers'[c] = Poller("idle", a)
          /\ \A r \in Sessions \ {c} : pollers'[r] = pollers[r]
      BY <2>1, <2>5, <3>1, BecomeOne
    <3>3. PollerCovered(c)'
      BY <2>5, <3>2 DEF PollerCovered, Poller
    <3>4. \A r \in Sessions \ {c} : PollerCovered(r)'
      BY <2>1, <2>2, <3>2, OtherPollers
    <3> QED BY <1>0, <2>3, <3>3, <3>4 DEF AnchorInv
  <2>6. CASE file # NoAnchor /\ Become(c, Poller("idle", file))
    <3>1. file \in Nat /\ Covered(file, Known')
      BY <1>0, <2>1, <2>3, <2>6 DEF TypeOK
    <3> QED BY <2>5, <2>6, <3>1
  <2>7. CASE /\ Become(c, Poller("idle", head))
             /\ skipped' = skipped \cup ((1 .. head) \ handled)
    <3>1. Covered(head, Known')
      BY <1>2, <2>1, <2>7 DEF Covered, Known, StartSession
    <3> QED BY <2>1, <2>5, <2>7, <3>1
  <2> QED BY <1>2, <2>c, <2>4, <2>6, <2>7 DEF StartSession
<1>3. CASE Drain
  <2>1. current \in Sessions /\ pollers \in [Sessions -> PollerType]
    BY <1>0, <1>3, StreamBounds DEF Drain, Sessions, TypeOK
  <2>c. PICK c \in Sessions : c = current
    BY <2>1
  <2>2. [pollers[c] EXCEPT !.queue = << >>] \in PollerType
    BY <2>1, EmptyQueueType DEF PollerType
  <2>3. /\ pollers'[c] = [pollers[c] EXCEPT !.queue = << >>]
        /\ \A r \in Sessions \ {c} : pollers'[r] = pollers[r]
        /\ handled' = handled /\ skipped' = skipped /\ file' = file
    BY <1>3, <2>1, <2>c, <2>2, BecomeOne DEF Drain, history
  <2>4. /\ pollers'[c].anchor = pollers[c].anchor
        /\ pollers'[c].state = pollers[c].state
        /\ pollers'[c].next = pollers[c].next
        /\ pollers'[c].goal = pollers[c].goal
    BY <2>1, <2>3 DEF PollerType
  <2>5. PollerCovered(c)'
    BY <2>1, <2>3, <2>4 DEF AnchorInv, PollerCovered, Covered, Known
  <2>6. \A r \in Sessions \ {c} : PollerCovered(r)'
    BY <2>1, <2>3, OtherPollers
  <2>7. ASSUME file' # NoAnchor PROVE Covered(file', Known')
    BY <2>3, <2>7 DEF AnchorInv, Covered, Known
  <2> QED BY <1>0, <2>5, <2>6, <2>7 DEF AnchorInv
<1>4. CASE Deliver
  BY <1>0, <1>4, AnchorFrame DEF Deliver
<1>5. CASE Crash
  <2>1. ASSUME NEW s \in Sessions PROVE PollerCovered(s)'
    <3>1. pollers'[s].anchor = 0 /\ pollers'[s].state = "off"
      BY <1>5 DEF Crash, Poller
    <3> QED BY <3>1 DEF PollerCovered, Covered, Known
  <2>2. ASSUME file' # NoAnchor PROVE Covered(file', Known')
    BY <1>5, <2>2 DEF Crash, history, AnchorInv, Covered, Known
  <2> QED BY <1>0, <2>1, <2>2 DEF AnchorInv
<1>6. CASE Respawn
  BY <1>0, <1>6, AnchorFrame DEF Respawn, history
<1>7. ASSUME NEW s \in Sessions, PollStep(s) PROVE AnchorInv'
  <2>0. /\ pollers[s] \in PollerType /\ pollers \in [Sessions -> PollerType]
        /\ pollers[s].anchor \in Nat /\ pollers[s].next \in Nat /\ pollers[s].goal \in Nat
        /\ head \in Nat
    BY <1>0 DEF TypeOK, PollerType
  <2>a. ASSUME NEW q \in PollerType, Become(s, q),
               handled \subseteq handled', skipped \subseteq skipped',
               file' \in {file, NoAnchor} \/ file' = q.anchor,
               Covered(q.anchor, Known'),
               q.state = "handling" => Covered(q.next - 1, Known'),
               q.state \in {"saving", "writing"} => Covered(q.goal, Known')
        PROVE  AnchorInv'
    <3>1. pollers'[s] = q /\ \A r \in Sessions \ {s} : pollers'[r] = pollers[r]
      BY <2>0, <2>a, BecomeOne
    <3>2. PollerCovered(s)'
      BY <2>a, <3>1 DEF PollerCovered
    <3>3. \A r \in Sessions \ {s} : PollerCovered(r)'
      BY <2>a, <3>1, OtherPollers
    <3>4. ASSUME file' # NoAnchor PROVE Covered(file', Known')
      BY <2>a, <3>4 DEF AnchorInv, Covered, Known
    <3> QED BY <1>0, <3>2, <3>3, <3>4 DEF AnchorInv
  <2>b. PollerCovered(s)
    BY DEF AnchorInv
  <2>1. CASE Poll(s)
    <3>1. /\ Polled(s).anchor = pollers[s].anchor /\ Polled(s).state = "handling"
          /\ Polled(s).next - 1 = pollers[s].anchor
      BY <2>0 DEF Polled, PollerType
    <3>2. Covered(pollers[s].anchor, Known')
      BY <2>1, <2>b DEF Poll, history, PollerCovered, Covered, Known
    <3>3. Polled(s) \in PollerType /\ Become(s, Polled(s))
      BY <1>0, <2>1, StepRecordTypes DEF Poll, Polled
    <3> QED BY <2>1, <2>a, <3>1, <3>2, <3>3 DEF Poll, history
  <2>2. CASE Handle(s)
    <3>1. /\ Handled(s).anchor = pollers[s].anchor /\ Handled(s).state = "handling"
          /\ Handled(s).next - 1 = pollers[s].next
      BY <2>0, <2>2 DEF Handle, Handled, PollerType
    <3>2. /\ handled' = handled \cup {pollers[s].next}
          /\ skipped' = skipped /\ file' = file
      BY <2>2 DEF Handle
    <3>3. Covered(pollers[s].anchor, Known')
      BY <2>b, <3>2 DEF PollerCovered, Covered, Known
    <3>4. Covered(pollers[s].next, Known')
      BY <2>0, <2>2, <2>b, <3>2 DEF Handle, PollerCovered, Covered, Known
    <3>5. Handled(s) \in PollerType /\ Become(s, Handled(s))
      BY <1>0, <2>2, StepRecordTypes DEF Handle, Handled
    <3> QED BY <2>a, <3>1, <3>2, <3>3, <3>4, <3>5
  <2>3. CASE BatchDone(s)
    <3>1. /\ Finished(s).anchor = pollers[s].anchor /\ Finished(s).state = "saving"
          /\ Finished(s).goal = pollers[s].goal
      BY <2>0 DEF Finished, PollerType
    <3>2. handled' = handled /\ skipped' = skipped /\ file' = file
      BY <2>3 DEF BatchDone, history
    <3>3. Covered(pollers[s].anchor, Known') /\ Covered(pollers[s].goal, Known')
      BY <2>0, <2>3, <2>b, <3>2 DEF BatchDone, PollerCovered, Covered, Known
    <3>4. Finished(s) \in PollerType /\ Become(s, Finished(s))
      BY <1>0, <2>3, StepRecordTypes DEF BatchDone, Finished
    <3> QED BY <2>a, <3>1, <3>2, <3>3, <3>4
  <2>4. CASE PollRefresh(s)
    <3>1. /\ Refreshed(s).anchor = pollers[s].anchor /\ Refreshed(s).state = "saving"
          /\ Refreshed(s).goal = head
      BY <2>0 DEF Refreshed, PollerType
    <3>2. /\ handled' = handled \cup (pollers[s].anchor + 1 .. head)
          /\ skipped' = skipped /\ file' = file
      BY <2>4 DEF PollRefresh, Covers
    <3>3. Covered(pollers[s].anchor, Known') /\ Covered(head, Known')
      BY <2>0, <2>b, <3>2 DEF PollerCovered, Covered, Known
    <3>4. Refreshed(s) \in PollerType /\ Become(s, Refreshed(s))
      BY <1>0, <2>4, StepRecordTypes DEF PollRefresh, Refreshed
    <3> QED BY <2>a, <3>1, <3>2, <3>3, <3>4
  <2>5. CASE SaveTruncate(s)
    <3>1. /\ Truncated(s).anchor = pollers[s].anchor /\ Truncated(s).state = "writing"
          /\ Truncated(s).goal = pollers[s].goal
      BY <2>0 DEF Truncated, PollerType
    <3>2. handled' = handled /\ skipped' = skipped /\ file' \in {file, NoAnchor}
      BY <2>5 DEF SaveTruncate, history
    <3>3. Covered(pollers[s].anchor, Known') /\ Covered(pollers[s].goal, Known')
      BY <2>5, <2>b, <3>2 DEF SaveTruncate, PollerCovered, Covered, Known
    <3>4. Truncated(s) \in PollerType /\ Become(s, Truncated(s))
      BY <1>0, <2>5, StepRecordTypes DEF SaveTruncate, Truncated
    <3> QED BY <2>a, <3>1, <3>2, <3>3, <3>4
  <2>6. CASE SaveWrite(s)
    <3>1. Saved(s).anchor = pollers[s].goal /\ Saved(s).state = "idle"
      BY <2>0 DEF Saved, PollerType
    <3>2. handled' = handled /\ skipped' = skipped /\ file' \in {file, pollers[s].goal}
      BY <2>6 DEF SaveWrite, history
    <3>3. Covered(pollers[s].goal, Known')
      BY <2>6, <2>b, <3>2 DEF SaveWrite, PollerCovered, Covered, Known
    <3>4. Saved(s) \in PollerType /\ Become(s, Saved(s))
      BY <1>0, <2>6, StepRecordTypes DEF SaveWrite, Saved
    <3> QED BY <2>a, <3>1, <3>2, <3>3, <3>4
  <2> QED BY <1>7, <2>1, <2>2, <2>3, <2>4, <2>5, <2>6 DEF PollStep
<1>8. CASE UNCHANGED vars
  BY <1>0, <1>8, AnchorFrame DEF vars
<1> QED BY <1>1, <1>2, <1>3, <1>4, <1>5, <1>6, <1>7, <1>8 DEF Next

(* Nothing is saved and nobody polls at first.                              *)
LEMMA InitAnchor == Init => AnchorInv
<1> SUFFICES ASSUME Init PROVE AnchorInv
  OBVIOUS
<1>1. ASSUME NEW s \in Sessions PROVE PollerCovered(s)
  <2>1. pollers[s].anchor = 0 /\ pollers[s].state = "off"
    BY DEF Init, Poller
  <2> QED BY <2>1 DEF PollerCovered, Covered, Known
<1> QED BY <1>1, InitTypeOK DEF AnchorInv, Init

(* Resuming from the anchor file passes over no event, through any number   *)
(* of crashes, leaked pollers and interrupted writes.                       *)
THEOREM ResumeMissesNothing == Spec => []AnchorCovered
<1>1. AnchorInv => AnchorCovered
  BY DEF AnchorInv, AnchorCovered, Covered, Known
<1> QED BY <1>1, InitAnchor, AnchorInductive, PTL DEF Spec

-----------------------------------------------------------------------------
(* How far each poller has come.  Sessions not started yet, and a session   *)
(* that could not start polling, have passed no event; a poller between two *)
(* batches is past its anchor, one that saves is past what it saves.        *)
PollerPlaced(s) ==
  /\ s > current => pollers[s].state = "off"
  /\ pollers[s].state = "off" => pollers[s].next = pollers[s].start + 1
  /\ pollers[s].state = "idle" => pollers[s].next > pollers[s].anchor
  /\ pollers[s].state \in {"saving", "writing"} => pollers[s].next > pollers[s].goal

DeliveryInv ==
  /\ TypeOK
  /\ \A s \in Sessions : PollerPlaced(s)
  /\ NothingLostButOverflow

(* A full queue gives up its first notice and no other.                     *)
LEMMA EnqueueCovers ==
  ASSUME NEW queue \in Seq(Notices), NEW notice \in Notices
  PROVE  /\ CoveredBy(queue) \subseteq CoveredBy(Enqueue(queue, notice)) \cup Overflow(queue)
         /\ Covers(notice) \subseteq CoveredBy(Enqueue(queue, notice))
<1> DEFINE kept == IF Len(queue) >= BufferSize THEN Tail(queue) ELSE queue
           result == Append(kept, notice)
<1>1. kept \in Seq(Notices)
  <2>1. CASE Len(queue) >= BufferSize
    BY <2>1, BufferSizeAssumption
  <2>2. CASE ~ (Len(queue) >= BufferSize)
    BY <2>2
  <2> QED BY <2>1, <2>2
<1>2. Enqueue(queue, notice) = result
  BY DEF Enqueue
<1> HIDE DEF kept
<1>3. /\ DOMAIN result = 1 .. Len(kept) + 1 /\ result[Len(kept) + 1] = notice
      /\ \A i \in 1 .. Len(kept) : result[i] = kept[i]
  BY <1>1
<1> HIDE DEF result
<1>4. Covers(notice) \subseteq CoveredBy(result)
  <2>1. Len(kept) + 1 \in DOMAIN result
    BY <1>1, <1>3
  <2> QED BY <1>3, <2>1 DEF CoveredBy
<1>5. ASSUME NEW n \in CoveredBy(queue) PROVE n \in CoveredBy(result) \cup Overflow(queue)
  <2>1. PICK i \in DOMAIN queue : n \in Covers(queue[i])
    BY DEF CoveredBy
  <2>2. ASSUME NEW j \in 1 .. Len(kept), kept[j] = queue[i] PROVE n \in CoveredBy(result)
    BY <1>1, <1>3, <2>1, <2>2 DEF CoveredBy
  <2>3. CASE ~ (Len(queue) >= BufferSize)
    <3>1. kept = queue
      BY <2>3 DEF kept
    <3> QED BY <2>1, <2>2, <3>1
  <2>4. CASE Len(queue) >= BufferSize /\ i = 1
    <3>1. Head(queue) = queue[i]
      BY <2>4
    <3> QED BY <2>1, <2>4, <3>1 DEF Overflow
  <2>5. CASE Len(queue) >= BufferSize /\ i # 1
    <3>1. kept = Tail(queue)
      BY <2>5 DEF kept
    <3>2. queue # << >>
      BY <2>5, BufferSizeAssumption
    <3>3. i - 1 \in 1 .. Len(kept) /\ kept[i - 1] = queue[i]
      BY <2>1, <2>5, <3>1, <3>2
    <3> QED BY <2>2, <3>3
  <2> QED BY <2>3, <2>4, <2>5
<1> QED BY <1>2, <1>4, <1>5

(* What is told of an event: the queue of the session in use, the answer on *)
(* its way, what has arrived and what was dropped.                          *)
LEMMA DeliveryFrame ==
  ASSUME DeliveryInv, TypeOK', pollers' = pollers, current' = current,
         CoveredBy(reply) \subseteq CoveredBy(reply') \cup seen', seen \subseteq seen',
         dropped \subseteq dropped'
  PROVE  DeliveryInv'
<1>1. \A s \in Sessions : PollerPlaced(s)'
  BY DEF DeliveryInv, PollerPlaced
<1>2. NothingLostButOverflow'
  BY DEF DeliveryInv, NothingLostButOverflow
<1> QED BY <1>1, <1>2 DEF DeliveryInv

(* A step of a poller: it stays placed, and what it passes or drops from    *)
(* its queue is told or dropped.                                            *)
LEMMA PollerDelivers ==
  ASSUME DeliveryInv, TypeOK', NEW s \in Sessions, NEW q \in PollerType, Become(s, q),
         pollers[s].state # "off", q.state # "off",
         current' = current, reply' = reply, seen' = seen, dropped \subseteq dropped',
         q.start = pollers[s].start,
         q.state = "idle" => q.next > q.anchor,
         q.state \in {"saving", "writing"} => q.next > q.goal,
         \A n \in q.start + 1 .. q.next - 1 :
           n \in pollers[s].start + 1 .. pollers[s].next - 1 \/ n \in CoveredBy(q.queue),
         s = current => CoveredBy(pollers[s].queue) \subseteq CoveredBy(q.queue) \cup dropped'
  PROVE  DeliveryInv'
<1>1. /\ pollers \in [Sessions -> PollerType] /\ current \in Nat
      /\ pollers'[s] = q /\ \A r \in Sessions \ {s} : pollers'[r] = pollers[r]
  BY BecomeOne, StreamBounds DEF DeliveryInv, TypeOK
<1>2. ASSUME NEW r \in Sessions PROVE PollerPlaced(r)'
  <2>1. CASE r # s
    BY <1>1, <2>1 DEF DeliveryInv, PollerPlaced
  <2>2. CASE r = s
    <3>1. ~ (s > current)
      BY DEF DeliveryInv, PollerPlaced
    <3> QED BY <1>1, <2>2, <3>1 DEF PollerPlaced
  <2> QED BY <2>1, <2>2
<1>3. NothingLostButOverflow'
  <2>1. CASE current = s
    BY <1>1, <2>1 DEF DeliveryInv, NothingLostButOverflow
  <2>2. CASE current # s
    <3>1. current # 0 => pollers'[current] = pollers[current]
      BY <1>1, <2>2, StreamBounds DEF Sessions, DeliveryInv, TypeOK
    <3> QED BY <3>1 DEF DeliveryInv, NothingLostButOverflow
  <2> QED BY <2>1, <2>2
<1> QED BY <1>2, <1>3 DEF DeliveryInv

(* DeliveryInv is inductive.                                                *)
LEMMA DeliveryInductive == DeliveryInv /\ [Next]_vars => DeliveryInv'
<1> SUFFICES ASSUME DeliveryInv, [Next]_vars PROVE DeliveryInv'
  OBVIOUS
<1>0. TypeOK /\ TypeOK'
  BY TypeOKInductive DEF DeliveryInv
<1>1. CASE RemoteEvent
  BY <1>0, <1>1, DeliveryFrame DEF RemoteEvent, history
<1>2. CASE StartSession
  <2>1. /\ current + 1 \in Sessions /\ current' = current + 1 /\ current \in Nat
        /\ pollers \in [Sessions -> PollerType] /\ head \in Nat
    BY <1>0, <1>2, StreamBounds DEF StartSession, Sessions, TypeOK
  <2>c. PICK c \in Sessions : c = current + 1
    BY <2>1
  <2>2. pollers[c].state = "off"
    BY <2>1, <2>c DEF DeliveryInv, PollerPlaced
  <2>3. ASSUME NEW a \in Nat, Become(c, Poller("idle", a)) PROVE DeliveryInv'
    <3>1. Poller("idle", a) \in PollerType
      BY FreshPollerType DEF PollerStates
    <3>2. /\ pollers'[c] = Poller("idle", a)
          /\ \A r \in Sessions \ {c} : pollers'[r] = pollers[r]
      BY <2>1, <2>3, <3>1, BecomeOne
    <3>3. ASSUME NEW r \in Sessions PROVE PollerPlaced(r)'
      <4>1. CASE r = c
        BY <2>1, <2>c, <3>2, <4>1 DEF PollerPlaced, Poller, Sessions
      <4>2. CASE r # c
        BY <2>1, <3>2, <4>2 DEF DeliveryInv, PollerPlaced, Sessions
      <4> QED BY <4>1, <4>2
    <3>4. NothingLostButOverflow'
      <4>1. pollers'[current'].start + 1 = a + 1 /\ pollers'[current'].next - 1 = a
        BY <2>1, <2>c, <3>2 DEF Poller
      <4> QED BY <4>1 DEF NothingLostButOverflow
    <3> QED BY <1>0, <3>3, <3>4 DEF DeliveryInv
  <2>4. CASE pollers' = pollers
    <3>1. ASSUME NEW r \in Sessions PROVE PollerPlaced(r)'
      BY <2>1, <2>4 DEF DeliveryInv, PollerPlaced, Sessions
    <3>2. NothingLostButOverflow'
      <4>1. pollers[c].next = pollers[c].start + 1
        BY <2>2 DEF DeliveryInv, PollerPlaced
      <4>2. pollers[c].start \in Nat
        BY <2>1 DEF PollerType
      <4> QED BY <2>1, <2>c, <2>4, <4>1, <4>2 DEF NothingLostButOverflow
    <3> QED BY <1>0, <3>1, <3>2 DEF DeliveryInv
  <2>5. CASE file # NoAnchor /\ Become(c, Poller("idle", file))
    BY <1>0, <2>3, <2>5 DEF TypeOK
  <2>6. CASE Become(c, Poller("idle", head))
    BY <2>1, <2>3, <2>6
  <2> QED BY <1>2, <2>c, <2>4, <2>5, <2>6 DEF StartSession
<1>3. CASE Drain
  <2>1. current \in Sessions /\ pollers \in [Sessions -> PollerType]
    BY <1>0, <1>3, StreamBounds DEF Drain, Sessions, TypeOK
  <2>c. PICK c \in Sessions : c = current
    BY <2>1
  <2>2. [pollers[c] EXCEPT !.queue = << >>] \in PollerType
    BY <2>1, EmptyQueueType DEF PollerType
  <2>3. /\ pollers'[c] = [pollers[c] EXCEPT !.queue = << >>]
        /\ \A r \in Sessions \ {c} : pollers'[r] = pollers[r]
        /\ reply = << >> /\ reply' = pollers[c].queue
        /\ current' = current /\ seen' = seen /\ dropped' = dropped
    BY <1>3, <2>1, <2>c, <2>2, BecomeOne DEF Drain, history
  <2>4. /\ pollers'[c].anchor = pollers[c].anchor
        /\ pollers'[c].state = pollers[c].state
        /\ pollers'[c].next = pollers[c].next
        /\ pollers'[c].start = pollers[c].start
        /\ pollers'[c].goal = pollers[c].goal
    BY <2>1, <2>3 DEF PollerType
  <2>5. ASSUME NEW r \in Sessions PROVE PollerPlaced(r)'
    <3>1. CASE r = c
      <4>1. ~ (r > current)
        BY <2>1, <2>c, <3>1 DEF Sessions
      <4>2. PollerPlaced(c)
        BY DEF DeliveryInv
      <4> QED BY <2>3, <2>4, <3>1, <4>1, <4>2 DEF PollerPlaced
    <3>2. CASE r # c
      BY <2>3, <3>2 DEF DeliveryInv, PollerPlaced
    <3> QED BY <3>1, <3>2
  <2>6. CoveredBy(reply) = {}
    BY <2>3 DEF CoveredBy
  <2>7. NothingLostButOverflow'
    BY <2>c, <2>3, <2>4, <2>6 DEF DeliveryInv, NothingLostButOverflow
  <2> QED BY <1>0, <2>5, <2>7 DEF DeliveryInv
<1>4. CASE Deliver
  BY <1>0, <1>4, DeliveryFrame DEF Deliver
<1>5. CASE Crash
  <2>1. /\ \A s \in Sessions : pollers'[s] = Poller("off", 0)
        /\ current' = current
    BY <1>5 DEF Crash
  <2>2. ASSUME NEW s \in Sessions PROVE PollerPlaced(s)'
    BY <2>1 DEF PollerPlaced, Poller
  <2>3. NothingLostButOverflow'
    <3>1. current # 0 => current \in Sessions
      BY <1>0, StreamBounds DEF TypeOK, Sessions
    <3>2. current # 0 => pollers'[current'].start = 0 /\ pollers'[current'].next = 1
      BY <2>1, <3>1 DEF Poller
    <3> QED BY <2>1, <3>2 DEF NothingLostButOverflow
  <2> QED BY <1>0, <2>2, <2>3 DEF DeliveryInv
<1>6. CASE Respawn
  BY <1>0, <1>6, DeliveryFrame DEF Respawn, history
<1>7. ASSUME NEW s \in Sessions, PollStep(s) PROVE DeliveryInv'
  <2>0. /\ pollers[s] \in PollerType /\ pollers[s].queue \in Seq(Notices)
        /\ pollers[s].anchor \in Nat /\ pollers[s].next \in Nat /\ pollers[s].goal \in Nat
        /\ pollers[s].start \in Nat /\ head \in Nat
    BY <1>0 DEF TypeOK, PollerType
  <2>a. PollerPlaced(s)
    BY DEF DeliveryInv
  <2>1. CASE Poll(s)
    <3>1. /\ Polled(s).state = "handling" /\ Polled(s).next - 1 = pollers[s].anchor
          /\ Polled(s).start = pollers[s].start /\ Polled(s).queue = pollers[s].queue
      BY <2>0 DEF Polled, PollerType
    <3>2. pollers[s].state = "idle" /\ pollers[s].next > pollers[s].anchor
      BY <2>1, <2>a DEF Poll, PollerPlaced
    <3>3. Polled(s) \in PollerType /\ Become(s, Polled(s))
      BY <1>0, <2>1, StepRecordTypes DEF Poll, Polled
    <3>4. current' = current /\ reply' = reply /\ seen' = seen /\ dropped' = dropped
      BY <2>1 DEF Poll, history
    <3>5. \A n \in Polled(s).start + 1 .. Polled(s).next - 1 :
            n \in pollers[s].start + 1 .. pollers[s].next - 1
      BY <2>0, <3>1, <3>2
    <3> HIDE DEF Polled
    <3> QED BY <1>0, <3>1, <3>2, <3>3, <3>4, <3>5, PollerDelivers
  <2>2. CASE Handle(s)
    <3> DEFINE notice == [from |-> pollers[s].next, to |-> pollers[s].next]
    <3>1. /\ Handled(s).state = "handling" /\ Handled(s).next - 1 = pollers[s].next
          /\ Handled(s).start = pollers[s].start
          /\ Handled(s).queue = Enqueue(pollers[s].queue, notice)
      BY <2>0, <2>2 DEF Handle, Handled, PollerType
    <3>2. pollers[s].state = "handling"
      BY <2>2 DEF Handle
    <3>3. Handled(s) \in PollerType /\ Become(s, Handled(s))
      BY <1>0, <2>2, StepRecordTypes DEF Handle, Handled
    <3>4. /\ current' = current /\ reply' = reply /\ seen' = seen
          /\ dropped \subseteq dropped'
          /\ s = current => dropped' = dropped \cup Overflow(pollers[s].queue)
      BY <2>2 DEF Handle, Drop
    <3>5. notice \in Notices /\ pollers[s].next \in Covers(notice)
      BY <2>0 DEF Notices, Covers
    <3>6. /\ CoveredBy(pollers[s].queue) \subseteq
               CoveredBy(Handled(s).queue) \cup Overflow(pollers[s].queue)
          /\ pollers[s].next \in CoveredBy(Handled(s).queue)
      BY <2>0, <3>1, <3>5, EnqueueCovers
    <3>7. \A n \in Handled(s).start + 1 .. Handled(s).next - 1 :
            n \in pollers[s].start + 1 .. pollers[s].next - 1 \/ n \in CoveredBy(Handled(s).queue)
      BY <2>0, <3>1, <3>6
    <3> QED BY <1>0, <3>1, <3>2, <3>3, <3>4, <3>6, <3>7, PollerDelivers
  <2>3. CASE BatchDone(s)
    <3>1. /\ Finished(s).state = "saving" /\ Finished(s).next = pollers[s].next
          /\ Finished(s).goal = pollers[s].goal
          /\ Finished(s).start = pollers[s].start /\ Finished(s).queue = pollers[s].queue
      BY <2>0 DEF Finished, PollerType
    <3>2. pollers[s].state = "handling" /\ pollers[s].next > pollers[s].goal
      BY <2>3 DEF BatchDone
    <3>3. Finished(s) \in PollerType /\ Become(s, Finished(s))
      BY <1>0, <2>3, StepRecordTypes DEF BatchDone, Finished
    <3>4. current' = current /\ reply' = reply /\ seen' = seen /\ dropped' = dropped
      BY <2>3 DEF BatchDone, history
    <3> QED BY <1>0, <3>1, <3>2, <3>3, <3>4, PollerDelivers
  <2>4. CASE PollRefresh(s)
    <3> DEFINE notice == [from |-> pollers[s].anchor + 1, to |-> head]
    <3>1. /\ Refreshed(s).state = "saving" /\ Refreshed(s).next = head + 1
          /\ Refreshed(s).goal = head /\ Refreshed(s).start = pollers[s].start
          /\ Refreshed(s).queue = Enqueue(pollers[s].queue, notice)
      BY <2>0 DEF Refreshed, PollerType
    <3>2. pollers[s].state = "idle" /\ pollers[s].next > pollers[s].anchor
      BY <2>4, <2>a DEF PollRefresh, PollerPlaced
    <3>3. Refreshed(s) \in PollerType /\ Become(s, Refreshed(s))
      BY <1>0, <2>4, StepRecordTypes DEF PollRefresh, Refreshed
    <3>4. /\ current' = current /\ reply' = reply /\ seen' = seen
          /\ dropped \subseteq dropped'
          /\ s = current => dropped' = dropped \cup Overflow(pollers[s].queue)
      BY <2>4 DEF PollRefresh, Drop
    <3>5. notice \in Notices /\ Covers(notice) = pollers[s].anchor + 1 .. head
      BY <2>0 DEF Notices, Covers
    <3>6. /\ CoveredBy(pollers[s].queue) \subseteq
               CoveredBy(Refreshed(s).queue) \cup Overflow(pollers[s].queue)
          /\ pollers[s].anchor + 1 .. head \subseteq CoveredBy(Refreshed(s).queue)
      BY <2>0, <3>1, <3>5, EnqueueCovers
    <3>7. \A n \in Refreshed(s).start + 1 .. Refreshed(s).next - 1 :
            n \in pollers[s].start + 1 .. pollers[s].next - 1 \/ n \in CoveredBy(Refreshed(s).queue)
      BY <2>0, <3>1, <3>2, <3>6
    <3>8. Refreshed(s).next > Refreshed(s).goal
      BY <2>0, <3>1
    <3> HIDE DEF notice
    <3> QED BY <1>0, <3>1, <3>2, <3>3, <3>4, <3>6, <3>7, <3>8, PollerDelivers
  <2>5. CASE SaveTruncate(s)
    <3>1. /\ Truncated(s).state = "writing" /\ Truncated(s).next = pollers[s].next
          /\ Truncated(s).goal = pollers[s].goal
          /\ Truncated(s).start = pollers[s].start /\ Truncated(s).queue = pollers[s].queue
      BY <2>0 DEF Truncated, PollerType
    <3>2. pollers[s].state = "saving" /\ pollers[s].next > pollers[s].goal
      BY <2>5, <2>a DEF SaveTruncate, PollerPlaced
    <3>3. Truncated(s) \in PollerType /\ Become(s, Truncated(s))
      BY <1>0, <2>5, StepRecordTypes DEF SaveTruncate, Truncated
    <3>4. current' = current /\ reply' = reply /\ seen' = seen /\ dropped' = dropped
      BY <2>5 DEF SaveTruncate, history
    <3> QED BY <1>0, <3>1, <3>2, <3>3, <3>4, PollerDelivers
  <2>6. CASE SaveWrite(s)
    <3>1. /\ Saved(s).state = "idle" /\ Saved(s).next = pollers[s].next
          /\ Saved(s).anchor = pollers[s].goal
          /\ Saved(s).start = pollers[s].start /\ Saved(s).queue = pollers[s].queue
      BY <2>0 DEF Saved, PollerType
    <3>2. pollers[s].state = "writing" /\ pollers[s].next > pollers[s].goal
      BY <2>6, <2>a DEF SaveWrite, PollerPlaced
    <3>3. Saved(s) \in PollerType /\ Become(s, Saved(s))
      BY <1>0, <2>6, StepRecordTypes DEF SaveWrite, Saved
    <3>4. current' = current /\ reply' = reply /\ seen' = seen /\ dropped' = dropped
      BY <2>6 DEF SaveWrite, history
    <3> QED BY <1>0, <3>1, <3>2, <3>3, <3>4, PollerDelivers
  <2> QED BY <1>7, <2>1, <2>2, <2>3, <2>4, <2>5, <2>6 DEF PollStep
<1>8. CASE UNCHANGED vars
  BY <1>0, <1>8, DeliveryFrame DEF vars
<1> QED BY <1>1, <1>2, <1>3, <1>4, <1>5, <1>6, <1>7, <1>8 DEF Next

(* No session has started at first.                                         *)
LEMMA InitDelivery == Init => DeliveryInv
<1> SUFFICES ASSUME Init PROVE DeliveryInv
  OBVIOUS
<1>1. ASSUME NEW s \in Sessions PROVE PollerPlaced(s)
  BY DEF Init, Poller, PollerPlaced
<1>2. NothingLostButOverflow
  BY DEF Init, NothingLostButOverflow
<1> QED BY <1>1, <1>2, InitTypeOK DEF DeliveryInv

(* Between handle() and the backend a notice is lost only out of a full     *)
(* queue, whatever the number of sessions, bursts, crashes and remounts.    *)
THEOREM OnlyOverflowLoses == Spec => []NothingLostButOverflow
<1>1. DeliveryInv => NothingLostButOverflow
  BY DEF DeliveryInv
<1> QED BY <1>1, InitDelivery, DeliveryInductive, PTL DEF Spec

-----------------------------------------------------------------------------
(* Notices come later the further back they are in a queue.                 *)
InOrder(queue) ==
  \A i, j \in DOMAIN queue : i < j => Before(Covers(queue[i]), Covers(queue[j]))

(* Where a poller is between two batches, in one or saving: nothing is left *)
(* out and nothing passed that was not made.                                *)
PollerInOrder(q) ==
  /\ q.state = "off" => q = Poller("off", 0)
  /\ q.anchor <= head /\ q.anchor < q.next
  /\ q.state = "idle" => q.next = q.anchor + 1
  /\ q.state = "handling" => q.goal <= head /\ q.next <= q.goal + 1
  /\ q.state \in {"saving", "writing"} => q.goal <= head /\ q.next = q.goal + 1
  /\ InOrder(q.queue) /\ \A n \in CoveredBy(q.queue) : n < q.next

(* The backend has been told, and is being told, of less than the poller of *)
(* its session has come to.                                                 *)
ToldInv ==
  /\ Before(seen, CoveredBy(reply))
  /\ Before(CoveredBy(reply), CoveredBy(Now.queue)) /\ Before(seen, CoveredBy(Now.queue))
  /\ Now.state # "off" => \A n \in seen \cup CoveredBy(reply) : n < Now.next

FeedInv ==
  /\ AnchorInv /\ DeliveryInv
  /\ file # NoAnchor => file <= head
  /\ \A s \in Sessions : PollerInOrder(pollers[s])
  /\ ToldInv

(* What a full queue gives up is its oldest, and the notice added its       *)
(* latest.                                                                  *)
LEMMA EnqueueInOrder ==
  ASSUME NEW queue \in Seq(Notices), NEW notice \in Notices, InOrder(queue),
         Before(CoveredBy(queue), Covers(notice))
  PROVE  /\ InOrder(Enqueue(queue, notice))
         /\ CoveredBy(Enqueue(queue, notice)) =
              (CoveredBy(queue) \ Overflow(queue)) \cup Covers(notice)
         /\ Overflow(queue) \subseteq CoveredBy(queue)
         /\ Before(Overflow(queue), CoveredBy(queue) \ Overflow(queue))
<1> DEFINE full == Len(queue) >= BufferSize
           kept == IF full THEN Tail(queue) ELSE queue
           result == Append(kept, notice)
<1>a. Enqueue(queue, notice) = result
  BY DEF Enqueue
<1>b. full => queue # << >>
  BY BufferSizeAssumption
<1>1. PICK shift \in {0, 1} : shift = IF full THEN 1 ELSE 0
  OBVIOUS
<1>2. PICK n \in Nat : n = Len(queue)
  OBVIOUS
<1>3. PICK m \in Nat : m = Len(kept) /\ n = m + shift
  BY <1>1, <1>2, <1>b
<1>4. /\ kept \in Seq(Notices) /\ DOMAIN queue = 1 .. n
      /\ \A i \in 1 .. m : kept[i] = queue[i + shift]
  <2>1. CASE full
    BY <1>1, <1>2, <1>3, <1>b, <2>1
  <2>2. CASE ~ full
    BY <1>1, <1>2, <1>3, <2>2
  <2> QED BY <2>1, <2>2
<1>5. Overflow(queue) = IF shift = 1 THEN Covers(queue[1]) ELSE {}
  BY <1>1, <1>b DEF Overflow
<1> HIDE DEF kept
<1>6. /\ DOMAIN result = 1 .. m + 1 /\ result[m + 1] = notice
      /\ \A i \in 1 .. m : result[i] = queue[i + shift]
  BY <1>3, <1>4
<1> HIDE DEF result, full
<1>7. \A i \in 1 .. m : i + shift \in DOMAIN queue /\ i + shift > shift
  BY <1>1, <1>3, <1>4
<1>8. \A i \in DOMAIN queue : Covers(queue[i]) \subseteq CoveredBy(queue)
  BY DEF CoveredBy
<1>9. \A i \in 1 .. m : Covers(result[i]) \subseteq CoveredBy(queue)
  BY <1>6, <1>7, <1>8
<1>10. InOrder(result)
  <2> SUFFICES ASSUME NEW i \in 1 .. m + 1, NEW j \in 1 .. m + 1, i < j
               PROVE  Before(Covers(result[i]), Covers(result[j]))
    BY <1>6 DEF InOrder
  <2>1. i \in 1 .. m
    OBVIOUS
  <2>2. CASE j = m + 1
    BY <1>6, <1>9, <2>1, <2>2 DEF Before
  <2>3. CASE j # m + 1
    <3>1. j \in 1 .. m /\ i + shift < j + shift
      BY <1>1, <2>3
    <3> QED BY <1>6, <1>7, <2>1, <3>1 DEF InOrder
  <2> QED BY <2>2, <2>3
<1>11. Overflow(queue) \subseteq CoveredBy(queue)
  <2>1. shift = 1 => 1 \in DOMAIN queue
    BY <1>3, <1>4
  <2> QED BY <1>5, <1>8, <2>1
<1>12. ASSUME NEW i \in 1 .. m PROVE Before(Overflow(queue), Covers(result[i]))
  <2>1. CASE shift = 1
    <3>1. 1 \in DOMAIN queue /\ i + shift \in DOMAIN queue /\ 1 < i + shift
      BY <1>3, <1>4, <2>1
    <3> QED BY <1>5, <1>6, <2>1, <3>1 DEF InOrder
  <2>2. CASE shift # 1
    BY <1>5, <2>2 DEF Before
  <2> QED BY <2>1, <2>2
<1>13. ASSUME NEW e \in CoveredBy(queue), e \notin Overflow(queue)
       PROVE  \E i \in 1 .. m : e \in Covers(result[i])
  <2>1. PICK k \in DOMAIN queue : e \in Covers(queue[k])
    BY DEF CoveredBy
  <2>2. ~ (shift = 1 /\ k = 1)
    BY <1>5, <1>13, <2>1
  <2>3. k - shift \in 1 .. m
    BY <1>1, <1>3, <1>4, <2>1, <2>2
  <2>4. result[k - shift] = queue[k]
    <3>1. (k - shift) + shift = k
      BY <1>1, <1>4, <2>1
    <3> QED BY <1>6, <2>3, <3>1
  <2> QED BY <2>1, <2>3, <2>4
<1>14. ASSUME NEW i \in 1 .. m, NEW e \in Covers(result[i]) PROVE e \notin Overflow(queue)
  <2>1. e \in Nat
    <3>1. e \in CoveredBy(queue)
      BY <1>9
    <3> QED BY <3>1, CoveredByType
  <2> QED BY <1>12, <2>1 DEF Before
<1>15. CoveredBy(result) = (CoveredBy(queue) \ Overflow(queue)) \cup Covers(notice)
  <2>1. ASSUME NEW e \in CoveredBy(result)
        PROVE  e \in (CoveredBy(queue) \ Overflow(queue)) \cup Covers(notice)
    <3>1. PICK i \in 1 .. m + 1 : e \in Covers(result[i])
      BY <1>6 DEF CoveredBy
    <3>2. i \in 1 .. m \/ i = m + 1
      OBVIOUS
    <3> QED BY <1>6, <1>9, <1>14, <3>1, <3>2
  <2>2. ASSUME NEW e \in CoveredBy(queue), e \notin Overflow(queue) PROVE e \in CoveredBy(result)
    <3>1. PICK i \in 1 .. m : e \in Covers(result[i])
      BY <1>13, <2>2
    <3>2. i \in DOMAIN result
      BY <1>6
    <3> QED BY <3>1, <3>2 DEF CoveredBy
  <2>3. Covers(notice) \subseteq CoveredBy(result)
    <3>1. m + 1 \in DOMAIN result
      BY <1>6
    <3> QED BY <1>6, <3>1 DEF CoveredBy
  <2> QED BY <2>1, <2>2, <2>3
<1>16. Before(Overflow(queue), CoveredBy(queue) \ Overflow(queue))
  BY <1>12, <1>13 DEF Before
<1> QED BY <1>a, <1>10, <1>11, <1>15, <1>16

(* Nothing is queued, and so nothing out of order, in an empty queue.       *)
LEMMA EmptyQueue == CoveredBy(<< >>) = {} /\ InOrder(<< >>)
BY DEF CoveredBy, InOrder

(* The session in use.                                                      *)
LEMMA NowFacts ==
  ASSUME TypeOK
  PROVE  /\ Now \in PollerType
         /\ current # 0 => current \in Sessions /\ Now = pollers[current]
         /\ current = 0 => Now = Poller("off", 0)
<1>1. current # 0 => current \in Sessions
  BY StreamBounds DEF TypeOK, Sessions
<1>2. Poller("off", 0) \in PollerType
  BY FreshPollerType DEF PollerStates
<1> QED BY <1>1, <1>2 DEF Now, TypeOK

(* A poller that has just started has passed and queued nothing.            *)
LEMMA FreshPollerInOrder ==
  ASSUME NEW state \in {"off", "idle"}, NEW a \in Nat, a <= head, head \in Nat, state = "off" => a = 0
  PROVE  PollerInOrder(Poller(state, a))
<1>1. /\ Poller(state, a).state = state /\ Poller(state, a).anchor = a
      /\ Poller(state, a).next = a + 1 /\ Poller(state, a).queue = << >>
  BY DEF Poller
<1>2. state = "off" => Poller(state, a) = Poller("off", 0)
  BY Zenon
<1> HIDE DEF Poller
<1> QED BY <1>1, <1>2, EmptyQueue DEF PollerInOrder

(* A step that leaves the pollers alone, but for the head that grows.       *)
LEMMA FeedFrame ==
  ASSUME FeedInv, AnchorInv', DeliveryInv', head' >= head, file' = file,
         pollers' = pollers, current' = current, ToldInv'
  PROVE  FeedInv'
<1>1. TypeOK /\ TypeOK'
  BY DEF FeedInv, AnchorInv
<1>2. head \in Nat /\ head' \in Nat /\ file \in Nat \cup {NoAnchor}
  BY <1>1 DEF TypeOK
<1>3. ASSUME NEW s \in Sessions PROVE PollerInOrder(pollers[s])'
  <2>1. pollers[s] \in PollerType /\ PollerInOrder(pollers[s])
    BY <1>1 DEF TypeOK, FeedInv
  <2>2. PICK q \in PollerType : q = pollers[s] /\ q = pollers'[s]
    BY <2>1
  <2>3. q.anchor \in Nat /\ q.goal \in Nat
    BY DEF PollerType
  <2> QED BY <1>2, <2>1, <2>2, <2>3 DEF PollerInOrder
<1>4. file' # NoAnchor => file' <= head'
  BY <1>2 DEF FeedInv
<1> QED BY <1>3, <1>4 DEF FeedInv

(* A step of a poller that keeps its own order.  What it queues is beyond   *)
(* all it had come to.                                                      *)
LEMMA PollerFeeds ==
  ASSUME FeedInv, AnchorInv', DeliveryInv', NEW s \in Sessions, NEW q \in PollerType, Become(s, q),
         pollers[s].state # "off", q.state # "off", PollerInOrder(q), head' = head,
         file' \in {file, NoAnchor} \/ file' = q.anchor,
         current' = current, reply' = reply, seen' = seen,
         q.next >= pollers[s].next,
         \A n \in CoveredBy(q.queue) : n \in CoveredBy(pollers[s].queue) \/ n >= pollers[s].next
  PROVE  FeedInv'
<1>1. TypeOK /\ TypeOK'
  BY DEF FeedInv, AnchorInv
<1>2. /\ pollers \in [Sessions -> PollerType] /\ head \in Nat /\ reply \in Seq(Notices)
      /\ pollers'[s] = q /\ \A r \in Sessions \ {s} : pollers'[r] = pollers[r]
  BY <1>1, BecomeOne DEF TypeOK
<1>3. ASSUME NEW r \in Sessions PROVE PollerInOrder(pollers[r])'
  <2>1. PICK p \in PollerType : p = pollers'[r]
    BY <1>1 DEF TypeOK
  <2>2. PollerInOrder(p)
    BY <1>2, <2>1 DEF FeedInv
  <2> QED BY <2>1, <2>2 DEF PollerInOrder
<1>4. file' # NoAnchor => file' <= head'
  BY DEF FeedInv, PollerInOrder
<1>5. ToldInv'
  <2>1. CASE current = s
    <3>1. Now = pollers[s] /\ Now' = q
      BY <1>1, <1>2, <2>1, NowFacts, StreamBounds DEF Now, Sessions
    <3>2. PICK o \in PollerType : o = pollers[s]
      BY <1>2
    <3>3. \A n \in seen \cup CoveredBy(reply) : n < o.next /\ n \in Nat
      BY <1>1, <1>2, <3>1, <3>2, CoveredByType DEF FeedInv, ToldInv, TypeOK
    <3>4. o.next \in Nat /\ q.next \in Nat /\ q.queue \in Seq(Notices)
      BY DEF PollerType
    <3>5. \A n \in CoveredBy(q.queue) : n \in Nat
      BY <3>4, CoveredByType
    <3>6. /\ Before(seen, CoveredBy(reply)) /\ Before(CoveredBy(reply), CoveredBy(o.queue))
          /\ Before(seen, CoveredBy(o.queue))
      BY <3>1, <3>2 DEF FeedInv, ToldInv
    <3>7. Before(CoveredBy(reply), CoveredBy(q.queue)) /\ Before(seen, CoveredBy(q.queue))
      BY <3>2, <3>3, <3>4, <3>5, <3>6 DEF Before
    <3>8. \A n \in seen \cup CoveredBy(reply) : n < q.next
      BY <3>2, <3>3, <3>4
    <3> QED BY <3>1, <3>6, <3>7, <3>8 DEF ToldInv
  <2>2. CASE current # s
    <3>1. Now' = Now
      BY <1>1, <1>2, <2>2, NowFacts DEF Now
    <3> QED BY <3>1 DEF FeedInv, ToldInv
  <2> QED BY <2>1, <2>2
<1> QED BY <1>3, <1>4, <1>5 DEF FeedInv

(* The record each step leaves is in order, and queues only what is new.    *)
LEMMA StepsInOrder ==
  ASSUME FeedInv, NEW s \in Sessions, PollStep(s)
  PROVE  \E q \in PollerType :
           /\ Become(s, q) /\ pollers[s].state # "off" /\ q.state # "off" /\ PollerInOrder(q)
           /\ q.start = pollers[s].start /\ q.next >= pollers[s].next
           /\ \A n \in CoveredBy(q.queue) : n \in CoveredBy(pollers[s].queue) \/ n >= pollers[s].next
           /\ file' \in {file, NoAnchor} \/ file' = q.anchor
<1>1. TypeOK /\ pollers[s] \in PollerType
  BY DEF FeedInv, AnchorInv, TypeOK
<1>2. PICK p \in PollerType : p = pollers[s]
  BY <1>1
<1>3. /\ p.anchor \in Nat /\ p.next \in Nat /\ p.goal \in Nat /\ p.start \in Nat
      /\ p.queue \in Seq(Notices) /\ head \in Nat
  BY <1>1 DEF PollerType, TypeOK
<1>4. PollerInOrder(p)
  BY <1>2 DEF FeedInv
<1>5. \A n \in CoveredBy(p.queue) : n \in Nat /\ n < p.next
  BY <1>3, <1>4, CoveredByType DEF PollerInOrder
<1>6. /\ Polled(s) \in PollerType /\ Handled(s) \in PollerType /\ Finished(s) \in PollerType
      /\ Refreshed(s) \in PollerType /\ Truncated(s) \in PollerType /\ Saved(s) \in PollerType
  BY <1>1, StepRecordTypes
(* Of a record whose queue is the same.                                     *)
<1>a. ASSUME NEW q \in PollerType, Become(s, q), p.state # "off", q.state # "off",
             q.queue = p.queue, q.start = p.start, q.next = p.next, q.anchor <= head, q.anchor < q.next,
             q.state = "idle" => q.next = q.anchor + 1,
             q.state = "handling" => q.goal <= head /\ q.next <= q.goal + 1,
             q.state \in {"saving", "writing"} => q.goal <= head /\ q.next = q.goal + 1,
             file' \in {file, NoAnchor} \/ file' = q.anchor
      PROVE  \E r \in PollerType :
               /\ Become(s, r) /\ pollers[s].state # "off" /\ r.state # "off" /\ PollerInOrder(r)
               /\ r.start = pollers[s].start /\ r.next >= pollers[s].next
               /\ \A n \in CoveredBy(r.queue) : n \in CoveredBy(pollers[s].queue) \/ n >= pollers[s].next
               /\ file' \in {file, NoAnchor} \/ file' = r.anchor
  <2>1. PollerInOrder(q)
    BY <1>4, <1>a DEF PollerInOrder
  <2>2. q.next >= p.next
    BY <1>3, <1>a
  <2> QED BY <1>2, <1>a, <2>1, <2>2
(* Of a record with a new notice.                                           *)
<1>b. ASSUME NEW q \in PollerType, Become(s, q), p.state # "off", q.state \in {"handling", "saving"},
             NEW notice \in Notices, q.queue = Enqueue(p.queue, notice), notice.from = p.next,
             q.start = p.start, q.next = notice.to + 1, q.next >= p.next, q.anchor = p.anchor,
             q.state = "handling" => q.goal <= head /\ q.next <= q.goal + 1,
             q.state = "saving" => q.goal <= head /\ q.next = q.goal + 1,
             file' = file
      PROVE  \E r \in PollerType :
               /\ Become(s, r) /\ pollers[s].state # "off" /\ r.state # "off" /\ PollerInOrder(r)
               /\ r.start = pollers[s].start /\ r.next >= pollers[s].next
               /\ \A n \in CoveredBy(r.queue) : n \in CoveredBy(pollers[s].queue) \/ n >= pollers[s].next
               /\ file' \in {file, NoAnchor} \/ file' = r.anchor
  <2>1. PICK to \in Nat : to = notice.to
    BY DEF Notices
  <2>2. Covers(notice) = p.next .. to
    BY <1>b, <2>1 DEF Covers
  <2>3. Before(CoveredBy(p.queue), Covers(notice))
    BY <1>3, <1>5, <2>1, <2>2 DEF Before
  <2>4. InOrder(p.queue)
    BY <1>4 DEF PollerInOrder
  <2>5. /\ InOrder(q.queue)
        /\ CoveredBy(q.queue) = (CoveredBy(p.queue) \ Overflow(p.queue)) \cup Covers(notice)
    BY <1>3, <1>b, <2>3, <2>4, EnqueueInOrder
  <2>6. \A n \in CoveredBy(q.queue) :
          (n \in CoveredBy(p.queue) /\ n < p.next /\ n \in Nat) \/ n \in p.next .. to
    BY <1>5, <2>2, <2>5
  <2>7. \A n \in CoveredBy(q.queue) : n < q.next
    BY <1>3, <1>b, <2>1, <2>6
  <2>8. q.next \in Nat /\ q.anchor < q.next /\ q.anchor <= head
    BY <1>3, <1>4, <1>b DEF PollerInOrder, PollerType
  <2>9. PollerInOrder(q)
    BY <1>b, <2>5, <2>7, <2>8 DEF PollerInOrder
  <2>10. \A n \in CoveredBy(q.queue) : n \in CoveredBy(p.queue) \/ n >= p.next
    BY <1>3, <2>1, <2>6
  <2> QED BY <1>2, <1>b, <2>9, <2>10
<1>7. CASE Poll(s)
  <2>1. /\ Become(s, Polled(s)) /\ p.state = "idle" /\ file' = file
    BY <1>2, <1>7 DEF Poll, Polled
  <2>2. /\ Polled(s).state = "handling" /\ Polled(s).next = p.anchor + 1 /\ Polled(s).goal = head
        /\ Polled(s).anchor = p.anchor /\ Polled(s).start = p.start /\ Polled(s).queue = p.queue
    BY <1>2 DEF Polled, PollerType
  <2>3. p.next = p.anchor + 1 /\ p.anchor <= head
    BY <1>4, <2>1 DEF PollerInOrder
  <2> HIDE DEF Polled
  <2> QED BY <1>3, <1>6, <1>a, <2>1, <2>2, <2>3
<1>8. CASE Handle(s)
  <2> DEFINE notice == [from |-> p.next, to |-> p.next]
  <2>1. Become(s, Handled(s)) /\ p.state = "handling" /\ p.next <= p.goal /\ file' = file
    BY <1>2, <1>8 DEF Handle, Handled
  <2>2. /\ Handled(s).state = "handling" /\ Handled(s).next = p.next + 1 /\ Handled(s).goal = p.goal
        /\ Handled(s).anchor = p.anchor /\ Handled(s).start = p.start
        /\ Handled(s).queue = Enqueue(p.queue, notice)
    BY <1>2, <2>1 DEF Handled, PollerType
  <2>3. p.goal <= head
    BY <1>4, <2>1 DEF PollerInOrder
  <2>4. notice \in Notices /\ notice.from = p.next /\ notice.to = p.next
    BY <1>3 DEF Notices
  <2> HIDE DEF Handled, notice
  <2> QED BY <1>3, <1>6, <1>b, <2>1, <2>2, <2>3, <2>4
<1>9. CASE BatchDone(s)
  <2>1. Become(s, Finished(s)) /\ p.state = "handling" /\ p.next > p.goal /\ file' = file
    BY <1>2, <1>9 DEF BatchDone, Finished
  <2>2. /\ Finished(s).state = "saving" /\ Finished(s).next = p.next /\ Finished(s).goal = p.goal
        /\ Finished(s).anchor = p.anchor /\ Finished(s).start = p.start /\ Finished(s).queue = p.queue
    BY <1>2 DEF Finished, PollerType
  <2>3. p.goal <= head /\ p.next = p.goal + 1 /\ p.anchor <= head /\ p.anchor < p.next
    BY <1>3, <1>4, <2>1 DEF PollerInOrder
  <2> HIDE DEF Finished
  <2> QED BY <1>6, <1>a, <2>1, <2>2, <2>3
<1>10. CASE PollRefresh(s)
  <2> DEFINE notice == [from |-> p.anchor + 1, to |-> head]
  <2>1. Become(s, Refreshed(s)) /\ p.state = "idle" /\ file' = file
    BY <1>2, <1>10 DEF PollRefresh, Refreshed
  <2>2. /\ Refreshed(s).state = "saving" /\ Refreshed(s).next = head + 1 /\ Refreshed(s).goal = head
        /\ Refreshed(s).anchor = p.anchor /\ Refreshed(s).start = p.start
        /\ Refreshed(s).queue = Enqueue(p.queue, notice)
    BY <1>2, <2>1 DEF Refreshed, PollerType
  <2>3. p.next = p.anchor + 1 /\ p.anchor <= head
    BY <1>4, <2>1 DEF PollerInOrder
  <2>4. notice \in Notices /\ notice.from = p.next /\ notice.to = head
    BY <1>3, <2>3 DEF Notices
  <2> HIDE DEF Refreshed, notice
  <2> QED BY <1>3, <1>6, <1>b, <2>1, <2>2, <2>3, <2>4
<1>11. CASE SaveTruncate(s)
  <2>1. Become(s, Truncated(s)) /\ p.state = "saving" /\ file' \in {file, NoAnchor}
    BY <1>2, <1>11 DEF SaveTruncate, Truncated
  <2>2. /\ Truncated(s).state = "writing" /\ Truncated(s).next = p.next /\ Truncated(s).goal = p.goal
        /\ Truncated(s).anchor = p.anchor /\ Truncated(s).start = p.start /\ Truncated(s).queue = p.queue
    BY <1>2 DEF Truncated, PollerType
  <2>3. p.goal <= head /\ p.next = p.goal + 1 /\ p.anchor <= head /\ p.anchor < p.next
    BY <1>4, <2>1 DEF PollerInOrder
  <2> HIDE DEF Truncated
  <2> QED BY <1>6, <1>a, <2>1, <2>2, <2>3
<1>12. CASE SaveWrite(s)
  <2>1. Become(s, Saved(s)) /\ p.state = "writing" /\ file' \in {file, p.goal}
    BY <1>2, <1>12 DEF SaveWrite, Saved
  <2>2. /\ Saved(s).state = "idle" /\ Saved(s).next = p.next /\ Saved(s).goal = p.goal
        /\ Saved(s).anchor = p.goal /\ Saved(s).start = p.start /\ Saved(s).queue = p.queue
    BY <1>2 DEF Saved, PollerType
  <2>3. p.goal <= head /\ p.next = p.goal + 1 /\ p.goal < p.next
    BY <1>3, <1>4, <2>1 DEF PollerInOrder
  <2> HIDE DEF Saved
  <2> QED BY <1>6, <1>a, <2>1, <2>2, <2>3
<1> QED BY <1>7, <1>8, <1>9, <1>10, <1>11, <1>12 DEF PollStep

(* FeedInv is inductive.                                                    *)
LEMMA FeedInductive == FeedInv /\ [Next]_vars => FeedInv'
<1> SUFFICES ASSUME FeedInv, [Next]_vars PROVE FeedInv'
  OBVIOUS
<1>0. AnchorInv' /\ DeliveryInv' /\ TypeOK /\ TypeOK'
  BY AnchorInductive, DeliveryInductive DEF FeedInv, AnchorInv
<1>a. ASSUME pollers' = pollers, current' = current PROVE Now' = Now
  BY <1>a DEF Now
<1>h. /\ head \in Nat /\ pollers \in [Sessions -> PollerType] /\ reply \in Seq(Notices)
      /\ file \in Nat \cup {NoAnchor} /\ current \in Nat
  BY <1>0, StreamBounds DEF TypeOK
<1>1. CASE RemoteEvent
  <2>1. ToldInv'
    BY <1>1, <1>a DEF RemoteEvent, history, FeedInv, ToldInv
  <2> QED BY <1>0, <1>1, <1>h, <2>1, FeedFrame DEF RemoteEvent
<1>2. CASE StartSession
  <2>1. PICK c \in Sessions : c = current + 1 /\ current' = c
    BY <1>0, <1>2, StreamBounds DEF StartSession, Sessions, TypeOK
  <2>2. pollers[c] = Poller("off", 0)
    <3>1. pollers[c].state = "off"
      BY <1>h, <2>1 DEF FeedInv, DeliveryInv, PollerPlaced
    <3> QED BY <3>1 DEF FeedInv, PollerInOrder
  <2>3. seen' = {} /\ CoveredBy(reply') = {} /\ head' = head /\ file' = file
    BY <1>2, EmptyQueue DEF StartSession
  <2>4. ASSUME NEW state \in {"off", "idle"}, NEW a \in Nat, Become(c, Poller(state, a)), a <= head,
               state = "off" => a = 0
        PROVE  FeedInv'
    <3>1. Poller(state, a) \in PollerType
      BY FreshPollerType DEF PollerStates
    <3>2. /\ pollers'[c] = Poller(state, a)
          /\ \A r \in Sessions \ {c} : pollers'[r] = pollers[r]
      BY <1>h, <2>4, <3>1, BecomeOne
    <3>3. PollerInOrder(Poller(state, a))
      BY <1>h, <2>4, FreshPollerInOrder
    <3>4. ASSUME NEW r \in Sessions PROVE PollerInOrder(pollers[r])'
      <4>1. PICK p \in PollerType : p = pollers'[r]
        BY <1>0 DEF TypeOK
      <4>2. PollerInOrder(p)
        BY <3>2, <3>3, <4>1 DEF FeedInv
      <4> QED BY <2>3, <4>1, <4>2 DEF PollerInOrder
    <3>5. ToldInv'
      BY <2>3 DEF ToldInv, Before
    <3>6. file' # NoAnchor => file' <= head'
      BY <2>3 DEF FeedInv
    <3> QED BY <1>0, <3>4, <3>5, <3>6 DEF FeedInv
  <2>5. CASE file # NoAnchor /\ Become(c, Poller("idle", file))
    <3>1. file \in Nat /\ file <= head
      BY <1>h, <2>5 DEF FeedInv
    <3> QED BY <2>4, <2>5, <3>1
  <2>6. CASE Become(c, Poller("idle", head))
    BY <1>h, <2>4, <2>6
  <2>7. CASE UNCHANGED pollers
    <3>1. Become(c, Poller("off", 0))
      BY <1>h, <2>2, <2>7 DEF Become
    <3> QED BY <1>h, <2>4, <3>1
  <2> QED BY <1>2, <2>1, <2>5, <2>6, <2>7 DEF StartSession
<1>3. CASE Drain
  <2>1. PICK c \in Sessions : c = current /\ current # 0
    BY <1>0, <1>3, StreamBounds DEF Drain, Sessions, TypeOK
  <2>2. PICK p \in PollerType : p = pollers[c] /\ p = Now
    BY <1>h, <2>1, NowFacts, <1>0
  <2>3. PICK q \in PollerType : q = [p EXCEPT !.queue = << >>]
    BY EmptyQueueType DEF PollerType
  <2>4. /\ pollers'[c] = q /\ \A r \in Sessions \ {c} : pollers'[r] = pollers[r]
        /\ reply = << >> /\ reply' = p.queue /\ p.queue # << >>
        /\ current' = current /\ seen' = seen /\ head' = head /\ file' = file
    BY <1>3, <1>h, <2>1, <2>2, <2>3, BecomeOne DEF Drain, history
  <2>5. /\ q.state = p.state /\ q.anchor = p.anchor /\ q.next = p.next /\ q.goal = p.goal
        /\ q.start = p.start /\ q.queue = << >>
    BY <2>3 DEF PollerType
  <2>6. Now' = q
    BY <2>1, <2>4 DEF Now
  <2>7. PollerInOrder(p) /\ p.state # "off"
    <3>1. PollerInOrder(p)
      BY <2>2 DEF FeedInv
    <3>2. p.state = "off" => p.queue = << >>
      BY <3>1 DEF PollerInOrder, Poller
    <3> QED BY <2>4, <3>1, <3>2
  <2>8. PollerInOrder(q)
    BY <2>5, <2>7, EmptyQueue DEF PollerInOrder
  <2>9. ASSUME NEW r \in Sessions PROVE PollerInOrder(pollers[r])'
    <3>1. PICK o \in PollerType : o = pollers'[r]
      BY <1>0 DEF TypeOK
    <3>2. PollerInOrder(o)
      BY <2>4, <2>8, <3>1 DEF FeedInv
    <3> QED BY <2>4, <3>1, <3>2 DEF PollerInOrder
  <2>10. ToldInv'
    <3>1. /\ Before(seen, CoveredBy(p.queue)) /\ \A n \in seen : n < p.next
      BY <2>2, <2>7 DEF FeedInv, ToldInv
    <3>2. \A n \in CoveredBy(p.queue) : n < p.next
      BY <2>7 DEF PollerInOrder
    <3>3. CoveredBy(q.queue) = {}
      BY <2>5, EmptyQueue
    <3>4. Before(seen', CoveredBy(reply'))
      BY <2>4, <3>1
    <3>5. \A n \in seen' \cup CoveredBy(reply') : n < q.next
      BY <2>4, <2>5, <3>1, <3>2
    <3> QED BY <2>6, <3>3, <3>4, <3>5 DEF ToldInv, Before
  <2>11. file' # NoAnchor => file' <= head'
    BY <2>4 DEF FeedInv
  <2> QED BY <1>0, <2>9, <2>10, <2>11 DEF FeedInv
<1>4. CASE Deliver
  <2>1. Now' = Now /\ seen' = seen \cup CoveredBy(reply) /\ CoveredBy(reply') = {}
    BY <1>4, <1>a, EmptyQueue DEF Deliver
  <2>2. ToldInv'
    BY <2>1 DEF FeedInv, ToldInv, Before
  <2> QED BY <1>0, <1>4, <1>h, <2>2, FeedFrame DEF Deliver
<1>5. CASE Crash
  <2>1. /\ \A s \in Sessions : pollers'[s] = Poller("off", 0)
        /\ current' = current /\ head' = head /\ file' = file /\ seen' = seen
        /\ reply' \in {reply, << >>}
    BY <1>5 DEF Crash, history
  <2>2. Now' = Poller("off", 0)
    BY <1>0, <2>1, NowFacts DEF Now
  <2>3. Now'.queue = << >> /\ Now'.state = "off"
    BY <2>2 DEF Poller
  <2>4. CoveredBy(reply') \subseteq CoveredBy(reply)
    BY <2>1, EmptyQueue
  <2>5. ToldInv'
    BY <2>1, <2>3, <2>4, EmptyQueue DEF FeedInv, ToldInv, Before
  <2>6. PollerInOrder(Poller("off", 0))
    BY <1>h, FreshPollerInOrder
  <2>7. ASSUME NEW s \in Sessions PROVE PollerInOrder(pollers[s])'
    BY <2>1, <2>6 DEF PollerInOrder
  <2>8. file' # NoAnchor => file' <= head'
    BY <2>1 DEF FeedInv
  <2> QED BY <1>0, <2>5, <2>7, <2>8 DEF FeedInv
<1>6. CASE Respawn
  <2>1. ToldInv'
    BY <1>6, <1>a DEF Respawn, history, FeedInv, ToldInv
  <2> QED BY <1>0, <1>6, <1>h, <2>1, FeedFrame DEF Respawn
<1>7. ASSUME NEW s \in Sessions, PollStep(s) PROVE FeedInv'
  <2>1. head' = head /\ current' = current /\ reply' = reply /\ seen' = seen
    BY <1>7 DEF PollStep, Poll, Handle, BatchDone, PollRefresh, SaveTruncate, SaveWrite, history
  <2> QED BY <1>0, <1>7, <2>1, StepsInOrder, PollerFeeds
<1>8. CASE UNCHANGED vars
  <2>1. ToldInv'
    BY <1>8, <1>a DEF vars, FeedInv, ToldInv
  <2> QED BY <1>0, <1>8, <1>h, <2>1, FeedFrame DEF vars
<1> QED BY <1>1, <1>2, <1>3, <1>4, <1>5, <1>6, <1>7, <1>8 DEF Next

(* The event stream starts with nothing handled and nothing saved.          *)
LEMMA InitFeed == Init => FeedInv
<1> SUFFICES ASSUME Init PROVE FeedInv
  OBVIOUS
<1>1. AnchorInv /\ DeliveryInv /\ TypeOK
  BY InitAnchor, InitDelivery DEF AnchorInv
<1>2. head \in Nat /\ file = NoAnchor /\ current = 0 /\ reply = << >> /\ seen = {}
      /\ \A s \in Sessions : pollers[s] = Poller("off", 0)
  BY DEF Init
<1>3. \A s \in Sessions : PollerInOrder(pollers[s])
  <2>1. PollerInOrder(Poller("off", 0))
    BY <1>2, FreshPollerInOrder
  <2> QED BY <1>2, <2>1
<1>4. ToldInv
  <2>1. Now.queue = << >> /\ Now.state = "off"
    BY <1>2 DEF Now, Poller
  <2> QED BY <1>2, <2>1, EmptyQueue DEF ToldInv, Before
<1> QED BY <1>1, <1>2, <1>3, <1>4 DEF FeedInv

(* The backend in use hears of events in the order they were made, and of   *)
(* each at most once, whatever the number of bursts, crashes and remounts.  *)
THEOREM ToldInOrder == Spec => []ToldOnceInOrder
<1>1. FeedInv => ToldOnceInOrder
  <2> SUFFICES ASSUME FeedInv PROVE ToldOnceInOrder
    OBVIOUS
  <2>1. current = 0 => CoveredBy(Now.queue) = {}
    BY EmptyQueue DEF Now, Poller
  <2>2. current # 0 => Now = pollers[current]
    BY DEF Now
  <2> QED BY <2>1, <2>2 DEF FeedInv, ToldInv, ToldOnceInOrder
<1> QED BY <1>1, InitFeed, FeedInductive, PTL DEF Spec

-----------------------------------------------------------------------------
(* The steps of EventFeed, in the words of EventStream.                     *)

(* Taking a notice and, with a full queue, giving up the oldest.            *)
LEMMA TakeStep ==
  ASSUME FeedInv, NEW p \in PollerType, NEW q \in PollerType, NEW notice \in Notices,
         Now = p, Now' = q, p.state # "off", q.state # "off", PollerInOrder(p), q.start = p.start,
         q.queue = Enqueue(p.queue, notice), q.next = notice.to + 1,
         notice.from = p.next, p.next - 1 <= notice.to, notice.to <= head,
         handled' = handled \cup Covers(notice), dropped' = dropped \cup Overflow(p.queue),
         UNCHANGED <<head, file, reply, skipped, seen>>
  PROVE  Feed!Take
<1>1. PICK to \in Nat : to = notice.to
  BY DEF Notices
<1>2. p.next \in Nat /\ p.next > 0 /\ p.queue \in Seq(Notices) /\ p.next - 1 \in Nat
  BY DEF PollerType, PollerInOrder
<1>3. Covers(notice) = p.next .. to
  BY <1>1 DEF Covers
<1>4. Before(CoveredBy(p.queue), Covers(notice))
  <2>1. \A n \in CoveredBy(p.queue) : n < p.next /\ n \in Nat
    BY <1>2, CoveredByType DEF PollerInOrder
  <2> QED BY <1>2, <1>3, <2>1 DEF Before
<1>5. InOrder(p.queue)
  BY DEF PollerInOrder
<1>6. /\ CoveredBy(q.queue) = (CoveredBy(p.queue) \ Overflow(p.queue)) \cup Covers(notice)
      /\ Overflow(p.queue) \subseteq CoveredBy(p.queue)
      /\ Before(Overflow(p.queue), CoveredBy(p.queue) \ Overflow(p.queue))
  BY <1>2, <1>4, <1>5, EnqueueInOrder
<1>7. q.next - 1 = to /\ (p.next - 1) + 1 .. to = Covers(notice)
  BY <1>1, <1>2, <1>3
<1>8. to \in p.next - 1 .. head
  <2>1. head \in Nat
    BY DEF FeedInv, AnchorInv, TypeOK
  <2> QED BY <1>1, <1>2, <2>1
<1>9. handled' \cup skipped' = (handled \cup skipped) \cup Covers(notice)
  OBVIOUS
<1>10. \E oldest \in SUBSET CoveredBy(p.queue) :
         /\ Feed!Older(oldest, CoveredBy(p.queue) \ oldest)
         /\ CoveredBy(q.queue) = (CoveredBy(p.queue) \ oldest) \cup Covers(notice)
         /\ dropped' = dropped \cup oldest
  <2>1. Feed!Older(Overflow(p.queue), CoveredBy(p.queue) \ Overflow(p.queue))
    BY <1>6 DEF Before, Feed!Older
  <2> QED BY <1>6, <2>1
<1> QED BY <1>7, <1>8, <1>9, <1>10 DEF Feed!Take

(* What is saved, by whichever poller, passes over nothing.                 *)
LEMMA SaveStep ==
  ASSUME FeedInv, NEW s \in Sessions, SaveTruncate(s) \/ SaveWrite(s), UNCHANGED Feed!reader
  PROVE  [Feed!Next]_(Feed!vars)
<1>1. UNCHANGED <<head, handled, skipped>>
  BY DEF SaveTruncate, SaveWrite, history
<1>2. file' = file \/ file' = NoAnchor \/ (SaveWrite(s) /\ file' = pollers[s].goal)
  BY DEF SaveTruncate, SaveWrite
<1>3. CASE file' = file
  BY <1>1, <1>3 DEF Feed!vars
<1>4. CASE file' = NoAnchor
  BY <1>1, <1>4 DEF Feed!Save, Feed!Next
<1>5. CASE SaveWrite(s) /\ file' = pollers[s].goal
  <2>1. PICK goal \in Nat : goal = pollers[s].goal
    BY DEF FeedInv, AnchorInv, TypeOK, PollerType
  <2>2. pollers[s].state = "writing"
    BY <1>5 DEF SaveWrite
  <2>3. goal <= head /\ Covered(goal, Known)
    BY <2>1, <2>2 DEF FeedInv, PollerInOrder, AnchorInv, PollerCovered
  <2>4. goal \in 0 .. head /\ 1 .. goal \subseteq handled \cup skipped
    <3>1. head \in Nat
      BY DEF FeedInv, AnchorInv, TypeOK
    <3> QED BY <2>1, <2>3, <3>1 DEF Covered, Known
  <2> QED BY <1>1, <1>5, <2>1, <2>4 DEF Feed!Save, Feed!Next
<1> QED BY <1>2, <1>3, <1>4, <1>5

(* A poller of a session that was replaced deals with events, saves what it *)
(* has dealt with, and tells nobody.                                        *)
LEMMA UnusedFeeds ==
  ASSUME FeedInv, NEW s \in Sessions, PollStep(s), s # current
  PROVE  [Feed!Next]_(Feed!vars)
<1>1. TypeOK /\ pollers \in [Sessions -> PollerType] /\ head \in Nat
  BY DEF FeedInv, AnchorInv, TypeOK
<1>2. PICK p \in PollerType : p = pollers[s]
  BY <1>1
<1>3. p.anchor \in Nat /\ p.next \in Nat /\ p.goal \in Nat /\ p.anchor < p.next
  BY <1>2 DEF PollerType, FeedInv, PollerInOrder
<1>4. Now' = Now
  <2>1. current' = current /\ \E q : Become(s, q)
    BY DEF PollStep, Poll, Handle, BatchDone, PollRefresh, SaveTruncate, SaveWrite
  <2>2. current # 0 => pollers'[current] = pollers[current]
    BY <1>1, <2>1, NowFacts DEF Become
  <2> QED BY <2>1, <2>2 DEF Now
<1>5. UNCHANGED <<head, reply, seen, dropped, skipped>>
  BY DEF PollStep, Poll, Handle, BatchDone, PollRefresh, SaveTruncate, SaveWrite, Drop, history
<1>6. UNCHANGED Feed!reader
  BY <1>4, <1>5 DEF Feed!reader
<1>7. CASE UNCHANGED <<handled, file>>
  BY <1>5, <1>6, <1>7 DEF Feed!vars
<1>8. ASSUME NEW first \in Nat, NEW last \in Nat, 0 < first, last <= head,
             handled' = handled \cup first .. last, file' = file
      PROVE  Feed!TakeUnused
  <2>1. first .. last \subseteq 1 .. head
    BY <1>1, <1>8
  <2> QED BY <1>5, <1>6, <1>8, <2>1 DEF Feed!TakeUnused
<1>9. CASE Handle(s)
  <2>1. handled' = handled \cup {p.next} /\ file' = file /\ p.next <= p.goal /\ p.state = "handling"
    BY <1>2, <1>9 DEF Handle
  <2>2. p.goal <= head
    BY <1>2, <2>1 DEF FeedInv, PollerInOrder
  <2>3. {p.next} = p.next .. p.next /\ 0 < p.next /\ p.next <= head
    BY <1>1, <1>3, <2>1, <2>2
  <2> QED BY <1>3, <1>8, <2>1, <2>3 DEF Feed!Next
<1>10. CASE PollRefresh(s)
  <2>1. handled' = handled \cup p.anchor + 1 .. head /\ file' = file
    BY <1>2, <1>10 DEF PollRefresh, Covers
  <2>2. p.anchor + 1 \in Nat /\ 0 < p.anchor + 1
    BY <1>3
  <2> QED BY <1>1, <1>8, <2>1, <2>2 DEF Feed!Next
<1>11. CASE SaveTruncate(s) \/ SaveWrite(s)
  BY <1>6, <1>11, SaveStep
<1>12. CASE Poll(s) \/ BatchDone(s)
  BY <1>7, <1>12 DEF Poll, BatchDone, history
<1> QED BY <1>9, <1>10, <1>11, <1>12 DEF PollStep

(* So does the poller in use, and what it deals with waits for the backend. *)
LEMMA PollerInUseFeeds ==
  ASSUME FeedInv, NEW s \in Sessions, PollStep(s), s = current
  PROVE  [Feed!Next]_(Feed!vars)
<1>1. TypeOK /\ pollers \in [Sessions -> PollerType] /\ head \in Nat /\ s # 0
  BY StreamBounds DEF FeedInv, AnchorInv, TypeOK, Sessions
<1>2. PICK p \in PollerType : p = pollers[s]
  BY <1>1
<1>3. /\ p.anchor \in Nat /\ p.next \in Nat /\ p.goal \in Nat /\ p.anchor < p.next
      /\ PollerInOrder(p)
  BY <1>2 DEF PollerType, FeedInv, PollerInOrder
<1>4. Now = p
  BY <1>1, <1>2 DEF Now
<1>5. UNCHANGED <<head, current, reply, seen, skipped>>
  BY DEF PollStep, Poll, Handle, BatchDone, PollRefresh, SaveTruncate, SaveWrite, history
<1>6. ASSUME NEW q \in PollerType, Become(s, q) PROVE Now' = q
  BY <1>1, <1>5, <1>6, BecomeOne DEF Now
<1>7. /\ Polled(s) \in PollerType /\ Handled(s) \in PollerType /\ Finished(s) \in PollerType
      /\ Refreshed(s) \in PollerType /\ Truncated(s) \in PollerType /\ Saved(s) \in PollerType
  BY <1>1, StepRecordTypes
<1>8. ASSUME NEW q \in PollerType, Become(s, q), p.state # "off", q.state # "off",
             q.start = p.start, q.next = p.next, q.queue = p.queue, dropped' = dropped, handled' = handled
      PROVE  UNCHANGED Feed!reader /\ ((file' = file) => UNCHANGED Feed!vars)
  <2>1. Now' = q
    BY <1>6, <1>8
  <2>2. UNCHANGED Feed!reader
    BY <1>4, <1>5, <1>8, <2>1 DEF Feed!reader
  <2> QED BY <1>5, <1>8, <2>2 DEF Feed!vars
<1>9. CASE Poll(s)
  <2>1. Become(s, Polled(s)) /\ p.state = "idle" /\ UNCHANGED <<file, handled, dropped>>
    BY <1>2, <1>9 DEF Poll, Polled, history
  <2>2. /\ Polled(s).state = "handling" /\ Polled(s).next = p.anchor + 1
        /\ Polled(s).start = p.start /\ Polled(s).queue = p.queue
    BY <1>2 DEF Polled, PollerType
  <2>3. p.next = p.anchor + 1
    BY <1>3, <2>1 DEF PollerInOrder
  <2> HIDE DEF Polled
  <2> QED BY <1>7, <1>8, <2>1, <2>2, <2>3
<1>10. CASE Handle(s)
  <2> DEFINE notice == [from |-> p.next, to |-> p.next]
  <2>1. /\ Become(s, Handled(s)) /\ p.state = "handling" /\ p.next <= p.goal /\ file' = file
        /\ handled' = handled \cup {p.next} /\ dropped' = dropped \cup Overflow(p.queue)
    BY <1>2, <1>10 DEF Handle, Handled, Drop
  <2>2. /\ Handled(s).state = "handling" /\ Handled(s).next = p.next + 1
        /\ Handled(s).start = p.start /\ Handled(s).queue = Enqueue(p.queue, notice)
    BY <1>2, <2>1 DEF Handled, PollerType
  <2>3. p.goal <= head
    BY <1>3, <2>1 DEF PollerInOrder
  <2>4. notice \in Notices /\ notice.from = p.next /\ notice.to = p.next /\ Covers(notice) = {p.next}
    BY <1>3 DEF Notices, Covers
  <2>5. Now' = Handled(s)
    BY <1>6, <1>7, <2>1
  <2>6. p.next - 1 <= p.next /\ p.next <= head
    BY <1>1, <1>3, <2>1, <2>3
  <2> HIDE DEF Handled, notice
  <2>7. Feed!Take
    BY <1>3, <1>4, <1>5, <1>7, <2>1, <2>2, <2>4, <2>5, <2>6, TakeStep
  <2> QED BY <2>7 DEF Feed!Next
<1>11. CASE BatchDone(s)
  <2>1. Become(s, Finished(s)) /\ p.state = "handling" /\ UNCHANGED <<file, handled, dropped>>
    BY <1>2, <1>11 DEF BatchDone, Finished, history
  <2>2. /\ Finished(s).state = "saving" /\ Finished(s).next = p.next
        /\ Finished(s).start = p.start /\ Finished(s).queue = p.queue
    BY <1>2 DEF Finished, PollerType
  <2> HIDE DEF Finished
  <2> QED BY <1>7, <1>8, <2>1, <2>2
<1>12. CASE PollRefresh(s)
  <2> DEFINE notice == [from |-> p.anchor + 1, to |-> head]
  <2>1. /\ Become(s, Refreshed(s)) /\ p.state = "idle" /\ file' = file
        /\ handled' = handled \cup Covers(notice) /\ dropped' = dropped \cup Overflow(p.queue)
    BY <1>2, <1>12 DEF PollRefresh, Refreshed, Drop
  <2>2. /\ Refreshed(s).state = "saving" /\ Refreshed(s).next = head + 1
        /\ Refreshed(s).start = p.start /\ Refreshed(s).queue = Enqueue(p.queue, notice)
    BY <1>2, <2>1 DEF Refreshed, PollerType
  <2>3. p.next = p.anchor + 1 /\ p.anchor <= head
    BY <1>3, <2>1 DEF PollerInOrder
  <2>4. notice \in Notices /\ notice.from = p.next /\ notice.to = head
    BY <1>1, <1>3, <2>3 DEF Notices
  <2>5. Now' = Refreshed(s)
    BY <1>6, <1>7, <2>1
  <2>6. p.next - 1 <= head
    BY <1>1, <1>3, <2>3
  <2> HIDE DEF Refreshed, notice
  <2>7. Feed!Take
    BY <1>1, <1>3, <1>4, <1>5, <1>7, <2>1, <2>2, <2>4, <2>5, <2>6, TakeStep
  <2> QED BY <2>7 DEF Feed!Next
<1>13. CASE SaveTruncate(s)
  <2>1. Become(s, Truncated(s)) /\ p.state = "saving" /\ UNCHANGED <<handled, dropped>>
    BY <1>2, <1>13 DEF SaveTruncate, Truncated, history
  <2>2. /\ Truncated(s).state = "writing" /\ Truncated(s).next = p.next
        /\ Truncated(s).start = p.start /\ Truncated(s).queue = p.queue
    BY <1>2 DEF Truncated, PollerType
  <2> HIDE DEF Truncated
  <2> QED BY <1>7, <1>8, <1>13, <2>1, <2>2, SaveStep
<1>14. CASE SaveWrite(s)
  <2>1. Become(s, Saved(s)) /\ p.state = "writing" /\ UNCHANGED <<handled, dropped>>
    BY <1>2, <1>14 DEF SaveWrite, Saved, history
  <2>2. /\ Saved(s).state = "idle" /\ Saved(s).next = p.next
        /\ Saved(s).start = p.start /\ Saved(s).queue = p.queue
    BY <1>2 DEF Saved, PollerType
  <2> HIDE DEF Saved
  <2> QED BY <1>7, <1>8, <1>14, <2>1, <2>2, SaveStep
<1> QED BY <1>9, <1>10, <1>11, <1>12, <1>13, <1>14 DEF PollStep

(* A mount begins where the file says, and anew where it says nothing.      *)
LEMMA MountFeeds ==
  ASSUME FeedInv, StartSession
  PROVE  Feed!Next
<1>1. /\ TypeOK /\ pollers \in [Sessions -> PollerType] /\ head \in Nat /\ current \in Nat
      /\ file \in Nat \cup {NoAnchor}
  BY StreamBounds DEF FeedInv, AnchorInv, TypeOK
<1>2. PICK c \in Sessions : c = current + 1 /\ current' = c /\ c # 0
  BY <1>1, StreamBounds DEF StartSession, Sessions
<1>3. pollers[c] = Poller("off", 0)
  <2>1. pollers[c].state = "off"
    BY <1>1, <1>2 DEF FeedInv, DeliveryInv, PollerPlaced
  <2> QED BY <2>1 DEF FeedInv, PollerInOrder
<1>4. /\ UNCHANGED <<head, file, handled>> /\ seen' = {} /\ dropped' = {} /\ CoveredBy(reply') = {}
  BY EmptyQueue DEF StartSession
<1>5. ASSUME NEW state \in {"off", "idle"}, NEW a \in Nat, Become(c, Poller(state, a)),
             NEW isReading, isReading = (state # "off")
      PROVE  Feed!Begin(isReading, a)
  <2>1. Poller(state, a) \in PollerType
    BY FreshPollerType DEF PollerStates
  <2>2. pollers'[c] = Poller(state, a)
    BY <1>1, <1>5, <2>1, BecomeOne
  <2>3. Now' = Poller(state, a)
    BY <1>2, <2>2 DEF Now
  <2>4. /\ Now'.state = state /\ Now'.start = a /\ Now'.next - 1 = a /\ Now'.queue = << >>
    BY <2>3 DEF Poller
  <2>5. CoveredBy(Now'.queue) = {}
    BY <2>4, EmptyQueue
  <2> QED BY <1>4, <1>5, <2>4, <2>5 DEF Feed!Begin
<1>6. CASE file # NoAnchor /\ Become(c, Poller("idle", file)) /\ UNCHANGED skipped
  <2>1. Feed!Begin(TRUE, file)
    BY <1>1, <1>5, <1>6
  <2> QED BY <1>4, <1>6, <2>1 DEF Feed!Resume, Feed!Next
<1>7. CASE /\ file = NoAnchor /\ Become(c, Poller("idle", head))
           /\ skipped' = skipped \cup ((1 .. head) \ handled)
  <2>1. Feed!Begin(TRUE, head)
    BY <1>1, <1>5, <1>7
  <2>2. handled' \cup skipped' = (handled \cup skipped) \cup 1 .. head
    BY <1>4, <1>7
  <2> QED BY <1>7, <2>1, <2>2 DEF Feed!BeginAnew, Feed!Next
<1>8. CASE file = NoAnchor /\ UNCHANGED <<pollers, skipped>>
  <2>1. Become(c, Poller("off", 0))
    BY <1>1, <1>3, <1>8 DEF Become
  <2>2. Feed!Begin(FALSE, 0)
    BY <1>5, <2>1
  <2> QED BY <1>4, <1>8, <2>2 DEF Feed!BeginNever, Feed!Next
<1> QED BY <1>2, <1>6, <1>7, <1>8 DEF StartSession

(* GetEvents sends what is waiting.                                         *)
LEMMA DrainFeeds ==
  ASSUME FeedInv, Drain
  PROVE  Feed!Send
<1>1. /\ TypeOK /\ pollers \in [Sessions -> PollerType]
  BY DEF FeedInv, AnchorInv, TypeOK
<1>2. PICK c \in Sessions : c = current /\ c # 0
  BY <1>1, NowFacts DEF Drain
<1>3. PICK p \in PollerType : p = pollers[c] /\ p = Now
  BY <1>1, <1>2, NowFacts
<1>4. PICK q \in PollerType : q = [p EXCEPT !.queue = << >>]
  BY EmptyQueueType DEF PollerType
<1>5. /\ Become(c, q) /\ reply = << >> /\ reply' = p.queue /\ p.queue # << >>
      /\ UNCHANGED <<head, file, current, handled, skipped, seen, dropped>>
  BY <1>2, <1>3, <1>4 DEF Drain, history
<1>6. Now' = q
  BY <1>1, <1>2, <1>5, BecomeOne DEF Now
<1>7. q.state = p.state /\ q.start = p.start /\ q.next = p.next /\ q.queue = << >>
  BY <1>4 DEF PollerType
<1>8. p.state # "off"
  <2>1. PollerInOrder(p)
    BY <1>3 DEF FeedInv
  <2>2. p.state = "off" => p.queue = << >>
    BY <2>1 DEF PollerInOrder, Poller
  <2> QED BY <1>5, <2>2
<1>9. CoveredBy(reply) = {} /\ CoveredBy(q.queue) = {}
  BY <1>5, <1>7, EmptyQueue
<1> QED BY <1>3, <1>5, <1>6, <1>7, <1>8, <1>9 DEF Feed!Send

(* A crash ends the reader.                                                 *)
LEMMA CrashFeeds ==
  ASSUME FeedInv, Crash
  PROVE  Feed!End
<1>1. /\ UNCHANGED <<head, file, current, handled, skipped, seen, dropped>>
      /\ \A s \in Sessions : pollers'[s] = Poller("off", 0)
      /\ reply' \in {reply, << >>}
  BY DEF Crash, history
<1>2. Now' = Poller("off", 0)
  BY <1>1, NowFacts DEF Now, FeedInv, AnchorInv
<1>3. Now'.state = "off" /\ Now'.start = 0 /\ Now'.next - 1 = 0 /\ Now'.queue = << >>
  BY <1>2 DEF Poller
<1>4. CoveredBy(Now'.queue) = {} /\ CoveredBy(reply') \in {CoveredBy(reply), {}}
  BY <1>1, <1>3, EmptyQueue
<1> QED BY <1>1, <1>3, <1>4 DEF Feed!End

(* Every step is one of EventFeed or leaves what it speaks of alone.        *)
LEMMA FeedSimulates == FeedInv /\ [Next]_vars => [Feed!Next]_(Feed!vars)
<1> SUFFICES ASSUME FeedInv, [Next]_vars PROVE [Feed!Next]_(Feed!vars)
  OBVIOUS
<1>a. ASSUME pollers' = pollers, current' = current PROVE Now' = Now
  BY <1>a DEF Now
<1>1. CASE RemoteEvent
  <2>1. Now' = Now
    BY <1>1, <1>a DEF RemoteEvent
  <2> QED BY <1>1, <2>1 DEF RemoteEvent, history, Feed!Happen, Feed!reader, Feed!Next
<1>2. CASE StartSession
  BY <1>2, MountFeeds
<1>3. CASE Drain
  BY <1>3, DrainFeeds DEF Feed!Next
<1>4. CASE Deliver
  <2>1. Now' = Now /\ CoveredBy(reply') = {}
    BY <1>4, <1>a, EmptyQueue DEF Deliver
  <2> QED BY <1>4, <2>1 DEF Deliver, Feed!Arrive, Feed!Next
<1>5. CASE Crash
  BY <1>5, CrashFeeds DEF Feed!Next
<1>6. CASE Respawn \/ UNCHANGED vars
  <2>1. Now' = Now
    BY <1>6, <1>a DEF Respawn, vars
  <2> QED BY <1>6, <2>1 DEF Respawn, vars, history, Feed!vars, Feed!reader
<1>7. ASSUME NEW s \in Sessions, PollStep(s) PROVE [Feed!Next]_(Feed!vars)
  BY <1>7, UnusedFeeds, PollerInUseFeeds
<1> QED BY <1>1, <1>2, <1>3, <1>4, <1>5, <1>6, <1>7 DEF Next

(* Whatever the number of events, sessions and crashes and the size of the  *)
(* buffer, the backend in use is fed as EventFeed says: in order, losing    *)
(* only the oldest to overflow, from a mark that passes over nothing.       *)
THEOREM StreamImplementsFeed == Spec => ImplementsFeed
<1>1. Init => Feed!Init
  <2> SUFFICES ASSUME Init PROVE Feed!Init
    OBVIOUS
  <2>1. Now.state = "off" /\ Now.start = 0 /\ Now.next - 1 = 0 /\ Now.queue = << >>
    BY DEF Init, Now, Poller
  <2> QED BY <2>1, EmptyQueue DEF Init, Feed!Init
<1> QED BY <1>1, InitFeed, FeedInductive, FeedSimulates, PTL DEF Spec, ImplementsFeed, Feed!Spec
=============================================================================
