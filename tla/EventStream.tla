---------------------------- MODULE EventStream -----------------------------
(***************************************************************************)
(* From the volume's event stream to the backend's monitors: the polling   *)
(* loop of EventPoller (helper/drive/events.go), its anchor file, the      *)
(* bounded queue, GetEvents, and what a crash of the helper or a second    *)
(* mount does to them.                                                     *)
(*                                                                         *)
(* Volume events are numbered in the order the server made them.  What     *)
(* handle() does to the caches is in DriveSession; here handling event n   *)
(* enqueues a notice of n.                                                 *)
(***************************************************************************)
EXTENDS Naturals, Sequences

CONSTANTS
  MaxEvents,    \* bound: volume events made
  MaxSessions,  \* bound: calls of ResumeSession, in all helper processes
  MaxCrashes,   \* bound: helper crashes
  BufferSize,   \* eventBufferSize
  NoAnchor      \* loadAnchor() returned the empty string

ASSUME StreamBounds == MaxEvents \in Nat /\ MaxSessions \in Nat /\ MaxCrashes \in Nat
ASSUME BufferSizeAssumption == BufferSize \in Nat \ {0}
ASSUME NoAnchorAssumption == NoAnchor \notin Nat

Sessions == 1 .. MaxSessions

VARIABLES
  head,     \* remote: number of the latest volume event
  file,     \* the anchor file: absent and empty read the same
  up,       \* the helper process runs
  current,  \* number of the session the RPC handlers use (0: none yet)
  pollers,  \* every session's poller; a replaced session's is never stopped
  reply,    \* notices drained by GetEvents, on their way to the backend
  crashes,
  (* history *)
  handled,  \* events some poller has handled or covered by a full refresh
  skipped,  \* events passed over by a start that found no anchor
  seen,     \* events whose notice reached the backend that mounted last
  dropped   \* events whose notice fell out of the full queue of the session in use

vars == <<head, file, up, current, pollers, reply, crashes, handled, skipped, seen, dropped>>
history == <<handled, skipped, seen, dropped>>

(* A notice of one event, or CHANGED "/" for all events up to a number.     *)
Notices == [from : Nat, to : Nat]
Covers(n) == n.from .. n.to
CoveredBy(notices) == UNION {Covers(notices[i]) : i \in DOMAIN notices}

Before(events, others) == \A x \in events, y \in others : x < y

PollerStates == {"off", "idle", "handling", "saving", "writing"}

PollerType ==
  [state : PollerStates,
   anchor : Nat,          \* the loop's eventID
   next : Nat,            \* next event of the batch being handled
   goal : Nat,            \* the anchor that comes with the batch
   start : Nat,           \* the anchor the session started from
   queue : Seq(Notices)]

Poller(state, anchor) ==
  [state |-> state, anchor |-> anchor, next |-> anchor + 1, goal |-> anchor,
   start |-> anchor, queue |-> << >>]

TypeOK ==
  /\ head \in Nat /\ current \in 0 .. MaxSessions /\ crashes \in Nat
  /\ file \in Nat \cup {NoAnchor}
  /\ up \in BOOLEAN
  /\ pollers \in [Sessions -> PollerType]
  /\ reply \in Seq(Notices)
  /\ handled \subseteq Nat /\ skipped \subseteq Nat
  /\ seen \subseteq Nat /\ dropped \subseteq Nat

Init ==
  /\ head \in 0 .. 1
  /\ file = NoAnchor
  /\ up = TRUE
  /\ current = 0
  /\ pollers = [s \in Sessions |-> Poller("off", 0)]
  /\ reply = << >>
  /\ crashes = 0
  /\ handled = {} /\ skipped = {} /\ seen = {} /\ dropped = {}

Become(s, poller) == pollers' = [pollers EXCEPT ![s] = poller]

-----------------------------------------------------------------------------
RemoteEvent ==
  /\ head < MaxEvents
  /\ head' = head + 1
  /\ UNCHANGED <<file, up, current, pollers, reply, crashes, history>>

(* Mutant: the saved anchor is not looked at.                               *)
StartSessionAtHead ==
  /\ up /\ current < MaxSessions
  /\ current' = current + 1
  /\ Become(current + 1, Poller("idle", head))
  /\ skipped' = skipped \cup ((1 .. head) \ handled)
  /\ reply' = << >> /\ seen' = {} /\ dropped' = {}
  /\ UNCHANGED <<head, file, up, crashes, handled>>

(* A new backend mounts: ResumeSession replaces the session without closing *)
(* the old one (what the old backend was told or missed no longer counts),  *)
(* then StartPoller: the anchor comes from the file, else from the API;     *)
(* when the API cannot be reached either, polling stays off.                *)
StartSession ==
  /\ up /\ current < MaxSessions
  /\ current' = current + 1
  /\ \/ /\ file # NoAnchor
        /\ Become(current + 1, Poller("idle", file))
        /\ UNCHANGED skipped
     \/ /\ file = NoAnchor
        /\ Become(current + 1, Poller("idle", head))
        /\ skipped' = skipped \cup ((1 .. head) \ handled)
     \/ /\ file = NoAnchor
        /\ UNCHANGED <<pollers, skipped>>
  /\ reply' = << >> /\ seen' = {} /\ dropped' = {}
  /\ UNCHANGED <<head, file, up, crashes, handled>>

(* Mutant: the newest notice is dropped.                                    *)
EnqueueDropNewest(queue, notice) ==
  IF Len(queue) >= BufferSize THEN queue ELSE Append(queue, notice)

(* Append, dropping the oldest notice when the buffer is full.              *)
Enqueue(queue, notice) ==
  Append(IF Len(queue) >= BufferSize THEN Tail(queue) ELSE queue, notice)

Overflow(queue) == IF Len(queue) >= BufferSize THEN Covers(Head(queue)) ELSE {}

(* A notice nobody will ask for is not missed.                              *)
Drop(s) ==
  dropped' = IF s = current THEN dropped \cup Overflow(pollers[s].queue) ELSE dropped

(* Mutant: the last event of a batch is left for a next one.                *)
PollExclusive(s) ==
  /\ up /\ pollers[s].state = "idle"
  /\ Become(s, [pollers[s] EXCEPT !.state = "handling", !.next = pollers[s].anchor + 1,
                                  !.goal = IF head > pollers[s].anchor THEN head - 1 ELSE head])
  /\ UNCHANGED <<head, file, up, current, reply, crashes, history>>

(* A tick: GetVolumeEvent returns everything since the anchor.  A failed    *)
(* request changes nothing.                                                 *)
Poll(s) ==
  /\ up /\ pollers[s].state = "idle"
  /\ Become(s, [pollers[s] EXCEPT !.state = "handling", !.next = pollers[s].anchor + 1,
                                  !.goal = head])
  /\ UNCHANGED <<head, file, up, current, reply, crashes, history>>

Handle(s) ==
  /\ up /\ pollers[s].state = "handling"
  /\ pollers[s].next <= pollers[s].goal
  /\ Become(s, [pollers[s] EXCEPT
                  !.next = @ + 1,
                  !.queue = Enqueue(@, [from |-> pollers[s].next, to |-> pollers[s].next])])
  /\ handled' = handled \cup {pollers[s].next}
  /\ Drop(s)
  /\ UNCHANGED <<head, file, up, current, reply, crashes, skipped, seen>>

(* Mutant: the anchor is saved before the batch has been handled.           *)
BatchDoneEarly(s) ==
  /\ up /\ pollers[s].state = "handling"
  /\ Become(s, [pollers[s] EXCEPT !.state = "saving"])
  /\ UNCHANGED <<head, file, up, current, reply, crashes, history>>

BatchDone(s) ==
  /\ up /\ pollers[s].state = "handling"
  /\ pollers[s].next > pollers[s].goal
  /\ Become(s, [pollers[s] EXCEPT !.state = "saving"])
  /\ UNCHANGED <<head, file, up, current, reply, crashes, history>>

(* The server asks for a refresh, or has forgotten the anchor and the       *)
(* latest event is asked for: one notice covers all of it.                  *)
PollRefresh(s) ==
  /\ up /\ pollers[s].state = "idle"
  /\ LET notice == [from |-> pollers[s].anchor + 1, to |-> head]
     IN  /\ Become(s, [pollers[s] EXCEPT !.state = "saving", !.goal = head,
                                         !.next = head + 1, !.queue = Enqueue(@, notice)])
         /\ handled' = handled \cup Covers(notice)
  /\ Drop(s)
  /\ UNCHANGED <<head, file, up, current, reply, crashes, skipped, seen>>

(* saveAnchor: os.WriteFile truncates the file and then writes it.  Either   *)
(* may fail, or the folder may be missing; the poller goes on regardless.   *)
SaveTruncate(s) ==
  /\ up /\ pollers[s].state = "saving"
  /\ file' \in {file, NoAnchor}
  /\ Become(s, [pollers[s] EXCEPT !.state = "writing"])
  /\ UNCHANGED <<head, up, current, reply, crashes, history>>

(* Mutant: the number before the anchor is saved.                           *)
SaveWriteOffByOne(s) ==
  /\ up /\ pollers[s].state = "writing"
  /\ file' \in {file, pollers[s].goal - 1}
  /\ Become(s, [pollers[s] EXCEPT !.state = "idle", !.anchor = pollers[s].goal])
  /\ UNCHANGED <<head, up, current, reply, crashes, history>>

SaveWrite(s) ==
  /\ up /\ pollers[s].state = "writing"
  /\ file' \in {file, pollers[s].goal}
  /\ Become(s, [pollers[s] EXCEPT !.state = "idle", !.anchor = pollers[s].goal])
  /\ UNCHANGED <<head, up, current, reply, crashes, history>>

(* Mutant: the answer is a copy of the queue.                               *)
DrainCopies ==
  /\ up /\ current # 0 /\ reply = << >>
  /\ pollers[current].queue # << >>
  /\ reply' = pollers[current].queue
  /\ UNCHANGED <<head, file, up, current, pollers, crashes, history>>

(* GetEvents drains the current session's queue; poll_events_cb passes on   *)
(* what the answer holds before it asks again.                              *)
Drain ==
  /\ up /\ current # 0 /\ reply = << >>
  /\ pollers[current].queue # << >>
  /\ reply' = pollers[current].queue
  /\ Become(current, [pollers[current] EXCEPT !.queue = << >>])
  /\ UNCHANGED <<head, file, up, current, crashes, history>>

Deliver ==
  /\ reply # << >>
  /\ seen' = seen \cup CoveredBy(reply)
  /\ reply' = << >>
  /\ UNCHANGED <<head, file, up, current, pollers, crashes, handled, skipped, dropped>>

(* The helper dies with everything but the file and, perhaps, an answer it  *)
(* has already written; the next mount spawns a new one.                    *)
Crash ==
  /\ up /\ crashes < MaxCrashes
  /\ up' = FALSE
  /\ crashes' = crashes + 1
  /\ pollers' = [s \in Sessions |-> Poller("off", 0)]
  /\ reply' \in {reply, << >>}
  /\ UNCHANGED <<head, file, current, history>>

Respawn ==
  /\ ~ up
  /\ up' = TRUE
  /\ UNCHANGED <<head, file, current, pollers, reply, crashes, history>>

PollStep(s) ==
  Poll(s) \/ Handle(s) \/ BatchDone(s) \/ PollRefresh(s) \/ SaveTruncate(s) \/ SaveWrite(s)

Next ==
  \/ RemoteEvent \/ StartSession \/ Drain \/ Deliver \/ Crash \/ Respawn
  \/ \E s \in Sessions : PollStep(s)

Spec == Init /\ [][Next]_vars

(* Tickers fire, goroutines run, requests to the API eventually succeed.    *)
FairSpec == Spec /\ \A s \in Sessions : WF_vars(PollStep(s))

-----------------------------------------------------------------------------
(* Resuming from the anchor file never passes over an event: whatever       *)
(* number the file holds, every event up to it was handled, was covered by  *)
(* a full refresh, or preceded a start that found no anchor.  Crashes       *)
(* inside a batch or a save and leaked pollers included.                    *)
AnchorCovered ==
  file # NoAnchor => \A n \in 1 .. file : n \in handled \cup skipped

(* The queue and GetEvents lose nothing but what overflows: for the session *)
(* in use, each event handled so far is queued, on its way, seen, or was    *)
(* dropped from a full buffer.                                              *)
NothingLostButOverflow ==
  current # 0 =>
    \A n \in pollers[current].start + 1 .. pollers[current].next - 1 :
      n \in CoveredBy(pollers[current].queue) \cup CoveredBy(reply) \cup seen \cup dropped

(* Through bursts, full refreshes, crashes and remounts a backend is told   *)
(* of events in the order they were made and of each at most once: what it  *)
(* has seen comes before the answer on its way, and that before the queue.  *)
ToldOnceInOrder ==
  LET queued == IF current = 0 THEN {} ELSE CoveredBy(pollers[current].queue)
  IN  /\ Before(seen, CoveredBy(reply)) /\ Before(CoveredBy(reply), queued)
      /\ Before(seen, queued)

(* Every event is handled in the end, as long as the session in use polls.  *)
EventuallyHandled ==
  \A n \in 1 .. MaxEvents :
    (head >= n) ~> \/ n \in handled \cup skipped
                   \/ ~ up \/ current = 0 \/ pollers[current].state = "off"
=============================================================================
