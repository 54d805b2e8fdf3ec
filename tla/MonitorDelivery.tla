-------------------------- MODULE MonitorDelivery ---------------------------
(***************************************************************************)
(* The last leg of a remote change: from the notices GetEvents hands over  *)
(* to the file monitors of GVfs clients (backend/gvfsbackendproton.c).     *)
(*                                                                         *)
(* Job threads append to self->monitors while the main loop, inside        *)
(* poll_events_cb, goes through it; nothing locks the array.  A client may *)
(* drop its monitor whenever the main loop is free; the entry stays, with  *)
(* its weak pointer zeroed.                                                *)
(***************************************************************************)
EXTENDS Naturals, Sequences, SequencesExt

CONSTANTS
  Monitors,   \* monitors clients ask for, each in a job of its own
  Chars,      \* the characters of names
  Paths,      \* what is watched and what changes: sequences of names, and
              \* a name is a sequence of characters
  NoPath,     \* a notice without a path
  NoMonitor,  \* a zeroed weak pointer
  MaxEvents   \* bound: notices handed over

ASSUME PathsAssumption == << >> \in Paths /\ NoPath \notin Paths /\ NoMonitor \notin Monitors
(* Names are what lies between two slashes of a GFile path, or is joined    *)
(* with slashes by the helper.                                              *)
ASSUME NamesAssumption == Paths \subseteq Seq(Seq(Chars) \ {<< >>}) /\ "/" \notin Chars
ASSUME MaxEventsAssumption == MaxEvents \in Nat

VARIABLES
  up,        \* the process runs and the backend is not finalised
  array,     \* self->monitors->pdata: the places written so far
  len,       \* self->monitors->len
  state,     \* of each monitor: "none", "adding", "live", "gone"
  path,      \* what each monitor watches
  slot,      \* the array length its g_ptr_array_add has read
  events,    \* every notice handed over, in order
  pos,       \* the notice poll_events_cb is at; after the last: idle
  cursor,    \* emit_on_monitors' index into the array
  emitted,   \* history: what was emitted on each monitor
  overlapped,\* history: monitors added while another was being added
  audience   \* history: monitors in place when the notice's turn came

arrayVars == <<array, len, state, path, slot, overlapped>>
eventVars == <<events, pos, cursor, emitted, audience>>
vars == <<up, arrayVars, eventVars>>

Entries == [path : Paths, monitor : Monitors \cup {NoMonitor}]
Types == {"changed", "deleted", "created"}
Notices == [type : Types, refresh : BOOLEAN, path : Paths \cup {NoPath}]

TypeOK ==
  /\ up \in BOOLEAN
  /\ array \in Seq(Entries) /\ len \in 0 .. Len(array)
  /\ state \in [Monitors -> {"none", "adding", "live", "gone"}]
  /\ path \in [Monitors -> Paths]
  /\ slot \in [Monitors -> Nat]
  /\ events \in Seq(Notices)
  /\ pos \in 1 .. Len(events) + 1
  /\ cursor \in Nat \ {0}
  /\ emitted \in [Monitors -> Seq([event : 1 .. Len(events), type : Types, path : Paths])]
  /\ overlapped \subseteq Monitors /\ audience \subseteq Monitors

(* The backend has just been mounted: no monitors, the poll timer set.      *)
Init ==
  /\ up = TRUE
  /\ array = << >> /\ len = 0
  /\ state = [m \in Monitors |-> "none"]
  /\ path \in [Monitors -> Paths]
  /\ slot = [m \in Monitors |-> 0]
  /\ events = << >>
  /\ pos = 1
  /\ cursor = 1
  /\ emitted = [m \in Monitors |-> << >>]
  /\ overlapped = {}
  /\ audience = {}

Adding == {m \in Monitors : state[m] = "adding"}
Dispatching == pos <= Len(events)
Audience == {m \in Monitors : state[m] = "live"} \ overlapped

-----------------------------------------------------------------------------
(* Job threads: do_create_dir_monitor and do_create_file_monitor, both of   *)
(* which call register_monitor.                                            *)

(* g_ptr_array_add reads the length ...                                    *)
AddBegin(m) ==
  /\ up /\ state[m] = "none"
  /\ state' = [state EXCEPT ![m] = "adding"]
  /\ slot' = [slot EXCEPT ![m] = len]
  /\ overlapped' = IF Adding = {} THEN overlapped ELSE overlapped \cup Adding \cup {m}
  /\ UNCHANGED <<up, array, len, path, eventVars>>

(* The array with an entry at place n, the next one at most.                *)
Placed(entry, n) ==
  IF n <= Len(array) THEN [array EXCEPT ![n] = entry] ELSE Append(array, entry)

(* Mutant: an entry takes the last place, not the next.                     *)
AddEndOverLast(m) ==
  /\ up /\ state[m] = "adding"
  /\ LET n == IF slot[m] = 0 THEN 1 ELSE slot[m]
     IN  array' = Placed([path |-> path[m], monitor |-> m], n) /\ len' = n
  /\ state' = [state EXCEPT ![m] = "live"]
  /\ UNCHANGED <<up, path, slot, overlapped, eventVars>>

(* ... and writes the place there and the length after it, over what others *)
(* have written meanwhile; the job succeeds and the client has its monitor. *)
AddEnd(m) ==
  /\ up /\ state[m] = "adding"
  /\ array' = Placed([path |-> path[m], monitor |-> m], slot[m] + 1)
  /\ len' = slot[m] + 1
  /\ state' = [state EXCEPT ![m] = "live"]
  /\ UNCHANGED <<up, path, slot, overlapped, eventVars>>

(* Undefined behaviour: a second add or the main loop meets an array being  *)
(* moved, or a place counted and not yet written.                           *)
RaceFault ==
  /\ up /\ Adding # {}
  /\ Dispatching \/ \E m \in Adding : Adding # {m}
  /\ up' = FALSE
  /\ UNCHANGED <<arrayVars, eventVars>>

-----------------------------------------------------------------------------
(* The main loop.                                                          *)

(* A client drops its monitor: the object is finalised and GLib zeroes the  *)
(* entry's weak pointer.                                                   *)
MonitorGone(m) ==
  /\ up /\ state[m] = "live" /\ ~ Dispatching
  /\ state' = [state EXCEPT ![m] = "gone"]
  /\ array' = [i \in DOMAIN array |->
                 IF array[i].monitor = m THEN [array[i] EXCEPT !.monitor = NoMonitor]
                 ELSE array[i]]
  /\ UNCHANGED <<up, len, path, slot, overlapped, eventVars>>

(* A notice of a full refresh is CHANGED "/" with no link.                  *)
Sent == {n \in Notices : n.refresh => n.type = "changed" /\ n.path = << >>}

(* poll_events_cb got an answer from proton_rpc_get_events: a batch.        *)
PollEvents ==
  /\ up /\ ~ Dispatching
  /\ \E k \in 1 .. MaxEvents - Len(events) : \E batch \in [1 .. k -> Sent] :
       events' = events \o batch
  /\ cursor' = 1
  /\ audience' = Audience
  /\ UNCHANGED <<up, pos, emitted, arrayVars>>

(* The path as the string the code compares.                               *)
Str(p) == IF p = << >> THEN <<"/">> ELSE FlattenSeq([i \in DOMAIN p |-> <<"/">> \o p[i]])

(* Mutant: any string prefix will do.                                       *)
MatchesAnyPrefix(watched, changed) == IsPrefix(Str(watched), Str(changed))

(* emit_on_monitors' test: the same path, or a prefix of it that ends where *)
(* a name ends.                                                            *)
Matches(watched, changed) ==
  LET w == Str(watched) c == Str(changed)
  IN  \/ w = c
      \/ IsStrictPrefix(w, c) /\ (w[Len(w)] = "/" \/ c[Len(w) + 1] = "/")

(* What is emitted for an entry, if anything.                              *)
Emission(entry, notice, n) ==
  IF notice.path = NoPath
  THEN <<[event |-> n, type |-> "changed", path |-> entry.path]>>
  ELSE IF Matches(entry.path, notice.path)
  THEN <<[event |-> n, type |-> notice.type, path |-> notice.path]>>
  ELSE << >>

(* One round of emit_on_monitors' loop; the length is read anew each time.  *)
EmitOne ==
  /\ up /\ Dispatching /\ cursor <= len
  /\ LET entry == array[cursor]
     IN  emitted' = IF entry.monitor = NoMonitor THEN emitted
                    ELSE [emitted EXCEPT ![entry.monitor] =
                            @ \o Emission(entry, events[pos], pos)]
  /\ cursor' = cursor + 1
  /\ UNCHANGED <<up, events, pos, audience, arrayVars>>

(* Mutant: the index of the inner loop moves the outer one on.              *)
EmitDoneByCursor ==
  /\ up /\ Dispatching /\ cursor > len
  /\ pos' = pos + cursor
  /\ cursor' = 1
  /\ audience' = Audience
  /\ UNCHANGED <<up, events, emitted, arrayVars>>

(* Mutant: the round starts over on the same notice when an entry was added *)
(* meanwhile.                                                              *)
EmitDoneRestarts ==
  /\ up /\ Dispatching /\ cursor > len
  /\ pos' = IF audience = Audience THEN pos + 1 ELSE pos
  /\ cursor' = 1
  /\ audience' = Audience
  /\ UNCHANGED <<up, events, emitted, arrayVars>>

(* The loop is over: on to the next notice, or back to the main loop.       *)
EmitDone ==
  /\ up /\ Dispatching /\ cursor > len
  /\ pos' = pos + 1
  /\ cursor' = 1
  /\ audience' = Audience
  /\ UNCHANGED <<up, events, emitted, arrayVars>>

(* The last reference is dropped: the timer and every entry go.             *)
Finalize ==
  /\ up /\ ~ Dispatching /\ Adding = {}
  /\ up' = FALSE
  /\ array' = << >> /\ len' = 0
  /\ UNCHANGED <<state, path, slot, overlapped, eventVars>>

Next ==
  \/ \E m \in Monitors : AddBegin(m) \/ AddEnd(m) \/ MonitorGone(m)
  \/ RaceFault \/ PollEvents \/ EmitOne \/ EmitDone \/ Finalize

Spec == Init /\ [][Next]_vars

-----------------------------------------------------------------------------
Emitted(m) == Range(emitted[m])
Concerns(m, notice) == notice.path = NoPath \/ IsPrefix(path[m], notice.path)

(* By the time a notice has been gone through, every monitor that was in    *)
(* place when its turn came and watches the changed path or any folder      *)
(* above it has been told, though job threads keep adding to the array -- a *)
(* monitor added while another was being added excepted: its entry may have *)
(* been overwritten, and then its client is never told anything.  This is   *)
(* what emit_on_monitors does: its comment speaks of the path and its       *)
(* direct parent only, its comparison takes in every folder above.          *)
EveryWatcherTold ==
  [][pos' # pos =>
       \A m \in audience :
         Concerns(m, events[pos]) => \E e \in Emitted(m) : e.event = pos]_vars

(* Nobody is told of what lies outside its own tree -- "/ab" is not under   *)
(* "/a" -- and nobody is told that its folder was made or deleted when all  *)
(* that is known is that something changed.                                 *)
OnlyOwnTree ==
  \A m \in Monitors : \A e \in Emitted(m) :
    /\ IsPrefix(path[m], e.path)
    /\ events[e.event].path = NoPath => e.path = path[m] /\ e.type = "changed"
    /\ events[e.event].path # NoPath => e.path = events[e.event].path
                                        /\ e.type = events[e.event].type

(* A client hears of changes in the order the helper queued them, and of    *)
(* each at most once: a folder deleted and made again is not left deleted.  *)
InOrderOnce ==
  \A m \in Monitors : \A i, j \in DOMAIN emitted[m] :
    i < j => emitted[m][i].event < emitted[m][j].event

(* "Path unknown -- tell every watcher its directory may have changed" and  *)
(* "request a full refresh": after a refresh, anything may have changed.    *)
RefreshReachesAll ==
  [][pos' # pos /\ events[pos].refresh =>
       \A m \in audience : \E e \in Emitted(m) : e.event = pos]_vars
=============================================================================
