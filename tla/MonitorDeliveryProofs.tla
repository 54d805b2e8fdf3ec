----------------------- MODULE MonitorDeliveryProofs ------------------------
(***************************************************************************)
(* What monitors are told, for any number of monitors and notices, while   *)
(* job threads add to the array without a lock.  The invariant says where  *)
(* in the array a monitor's entry is and which part of it the main loop    *)
(* has gone through.                                                       *)
(***************************************************************************)
EXTENDS MonitorDelivery, SequenceTheorems, WellFoundedInduction, TLAPS

(* A monitor has at most one place, once its client has it and as long as   *)
(* it is not dropped.                                                       *)
ArrayInv ==
  /\ \A m \in Monitors : state[m] = "adding" => slot[m] <= Len(array)
  /\ \A i \in 1 .. Len(array) : array[i].monitor # NoMonitor =>
       /\ state[array[i].monitor] = "live" /\ array[i].path = path[array[i].monitor]
       /\ \A j \in 1 .. Len(array) : array[j].monitor = array[i].monitor => j = i

(* A monitor that was told of the notice at hand has no place ahead.        *)
OrderInv ==
  \A m \in Monitors :
    /\ state[m] \in {"none", "adding"} => emitted[m] = << >>
    /\ \A k \in 1 .. Len(emitted[m]) :
         /\ emitted[m][k].event <= pos
         /\ emitted[m][k].event = pos =>
              \A i \in 1 .. Len(array) : cursor <= i => array[i].monitor # m

(* A monitor added while no other was: its place is counted, and nobody who *)
(* is adding is going to write there.                                       *)
PlacedInv ==
  /\ \A m \in Monitors \ overlapped : state[m] = "adding" => Adding = {m}
  /\ up => \A m \in Audience : \E i \in 1 .. len :
       array[i].monitor = m /\ \A k \in Adding : i <= slot[k]

(* A notice m should be told of, as emit_on_monitors compares paths.        *)
Sees(m, notice) == notice.path = NoPath \/ Matches(path[m], notice.path)
HasBeenTold(m) == \E k \in 1 .. Len(emitted[m]) : emitted[m][k].event = pos

(* Those whose place is behind have been told.                              *)
ToldInv ==
  up /\ Dispatching =>
    \A m \in audience :
      /\ m \in Audience
      /\ Sees(m, events[pos]) =>
           \A i \in 1 .. Len(array) : i < cursor /\ array[i].monitor = m => HasBeenTold(m)

MonitorInv == TypeOK /\ ArrayInv /\ OrderInv /\ InOrderOnce /\ PlacedInv /\ ToldInv

-----------------------------------------------------------------------------
EmissionType(n) == [event : 1 .. n, type : Types, path : Paths]
States == {"none", "adding", "live", "gone"}

(* Writing a place, or the one after the last.                              *)
LEMMA PlacedFacts ==
  ASSUME array \in Seq(Entries), NEW e \in Entries, NEW n \in 1 .. Len(array) + 1
  PROVE  /\ Placed(e, n) \in Seq(Entries) /\ n <= Len(Placed(e, n))
         /\ Len(array) <= Len(Placed(e, n)) /\ Len(Placed(e, n)) \in Nat
         /\ \A i \in 1 .. Len(Placed(e, n)) : i <= Len(array) \/ i = n
         /\ Placed(e, n)[n] = e
         /\ \A i \in 1 .. Len(array) : i # n => Placed(e, n)[i] = array[i]
<1>0. Len(array) \in Nat
  OBVIOUS
<1>1. CASE n <= Len(array)
  <2>1. Placed(e, n) = [array EXCEPT ![n] = e]
    BY <1>1 DEF Placed
  <2>2. /\ [array EXCEPT ![n] = e] \in Seq(Entries) /\ Len([array EXCEPT ![n] = e]) = Len(array)
        /\ \A j \in 1 .. Len(array) : [array EXCEPT ![n] = e][j] = IF j = n THEN e ELSE array[j]
    BY <1>0, <1>1, ExceptSeq
  <2> QED BY <1>0, <1>1, <2>1, <2>2
<1>2. CASE n = Len(array) + 1
  <2>1. Placed(e, n) = Append(array, e)
    BY <1>0, <1>2 DEF Placed
  <2>2. /\ Append(array, e) \in Seq(Entries) /\ Len(Append(array, e)) = Len(array) + 1
        /\ \A j \in 1 .. Len(array) : Append(array, e)[j] = array[j]
        /\ Append(array, e)[Len(array) + 1] = e
    BY AppendProperties
  <2> QED BY <1>0, <1>2, <2>1, <2>2
<1> QED BY <1>0, <1>1, <1>2

(* What the main loop emits for one entry.                                  *)
LEMMA EmissionFacts ==
  ASSUME TypeOK, NEW entry \in Entries, NEW notice \in Notices, NEW n \in 1 .. Len(events)
  PROVE  \/ Emission(entry, notice, n) = << >>
            /\ notice.path # NoPath /\ ~ Matches(entry.path, notice.path)
         \/ \E e \in EmissionType(Len(events)) :
              /\ Emission(entry, notice, n) = <<e>> /\ e.event = n
              /\ notice.path = NoPath => e.path = entry.path /\ e.type = "changed"
              /\ notice.path # NoPath =>
                   /\ e.path = notice.path /\ e.type = notice.type
                   /\ Matches(entry.path, notice.path)
<1>0. entry.path \in Paths /\ notice.path \in Paths \cup {NoPath} /\ notice.type \in Types
  BY DEF Entries, Notices
<1>1. CASE notice.path = NoPath
  <2> DEFINE e == [event |-> n, type |-> "changed", path |-> entry.path]
  <2>1. Emission(entry, notice, n) = <<e>>
    BY <1>1 DEF Emission
  <2>2. e \in EmissionType(Len(events))
    BY <1>0 DEF EmissionType, Types
  <2>3. e.event = n /\ e.path = entry.path /\ e.type = "changed"
    OBVIOUS
  <2> HIDE DEF e
  <2> QED BY <1>1, <2>1, <2>2, <2>3
<1>2. CASE notice.path # NoPath /\ Matches(entry.path, notice.path)
  <2> DEFINE e == [event |-> n, type |-> notice.type, path |-> notice.path]
  <2>1. Emission(entry, notice, n) = <<e>>
    BY <1>2 DEF Emission
  <2>2. e \in EmissionType(Len(events))
    BY <1>0, <1>2 DEF EmissionType
  <2>3. e.event = n /\ e.path = notice.path /\ e.type = notice.type
    OBVIOUS
  <2> HIDE DEF e
  <2> QED BY <1>2, <2>1, <2>2, <2>3
<1>3. CASE notice.path # NoPath /\ ~ Matches(entry.path, notice.path)
  BY <1>3 DEF Emission
<1> QED BY <1>1, <1>2, <1>3

(* One round of emit_on_monitors adds at most one emission, on the monitor  *)
(* of the entry at hand.                                                    *)
LEMMA EmitFacts ==
  ASSUME TypeOK, ArrayInv, EmitOne, NEW m \in Monitors
  PROVE  \/ /\ emitted'[m] = emitted[m]
            /\ array[cursor].monitor = m => ~ Sees(m, events[pos])
         \/ /\ array[cursor].monitor = m
            /\ \E e \in EmissionType(Len(events)) :
                 /\ emitted'[m] = Append(emitted[m], e) /\ e.event = pos
                 /\ events[pos].path = NoPath => e.path = path[m] /\ e.type = "changed"
                 /\ events[pos].path # NoPath =>
                      /\ e.path = events[pos].path /\ e.type = events[pos].type
                      /\ Matches(path[m], events[pos].path)
<1> DEFINE entry == array[cursor]
<1>1. /\ cursor \in 1 .. Len(array) /\ pos \in 1 .. Len(events)
      /\ entry \in Entries /\ events[pos] \in Notices
      /\ emitted \in [Monitors -> Seq(EmissionType(Len(events)))]
  <2>1. /\ array \in Seq(Entries) /\ events \in Seq(Notices)
        /\ Len(array) \in Nat /\ Len(events) \in Nat
    BY DEF TypeOK
  <2>2. cursor \in 1 .. Len(array) /\ pos \in 1 .. Len(events)
    BY <2>1 DEF TypeOK, EmitOne, Dispatching
  <2>3. entry \in Entries /\ events[pos] \in Notices
    BY <2>1, <2>2
  <2> QED BY <2>2, <2>3 DEF TypeOK, EmissionType
<1>2. emitted' = IF entry.monitor = NoMonitor THEN emitted
                 ELSE [emitted EXCEPT ![entry.monitor] = @ \o Emission(entry, events[pos], pos)]
  BY DEF EmitOne
<1>3. CASE entry.monitor # m
  BY <1>1, <1>2, <1>3
<1>4. CASE entry.monitor = m
  <2>1. m # NoMonitor /\ entry.path = path[m]
    BY <1>1, <1>4, PathsAssumption DEF ArrayInv
  <2>2. emitted'[m] = emitted[m] \o Emission(entry, events[pos], pos)
    BY <1>1, <1>2, <1>4, <2>1
  <2>3. emitted[m] \in Seq(EmissionType(Len(events)))
    BY <1>1
  <2>4. CASE /\ Emission(entry, events[pos], pos) = << >>
             /\ events[pos].path # NoPath /\ ~ Matches(entry.path, events[pos].path)
    <3>1. emitted[m] \o << >> = emitted[m]
      BY <2>3, ConcatEmptySeq
    <3> QED BY <2>1, <2>2, <2>4, <3>1 DEF Sees
  <2>5. CASE \E e \in EmissionType(Len(events)) :
              /\ Emission(entry, events[pos], pos) = <<e>> /\ e.event = pos
              /\ events[pos].path = NoPath => e.path = entry.path /\ e.type = "changed"
              /\ events[pos].path # NoPath =>
                   /\ e.path = events[pos].path /\ e.type = events[pos].type
                   /\ Matches(entry.path, events[pos].path)
    <3>1. PICK e \in EmissionType(Len(events)) :
              /\ Emission(entry, events[pos], pos) = <<e>> /\ e.event = pos
              /\ events[pos].path = NoPath => e.path = entry.path /\ e.type = "changed"
              /\ events[pos].path # NoPath =>
                   /\ e.path = events[pos].path /\ e.type = events[pos].type
                   /\ Matches(entry.path, events[pos].path)
      BY <2>5
    <3>2. Append(emitted[m], e) = emitted[m] \o <<e>>
      BY <2>3, AppendIsConcat
    <3>3. emitted'[m] = Append(emitted[m], e)
      BY <2>2, <3>1, <3>2
    <3> QED BY <1>4, <2>1, <3>1, <3>3
  <2> QED BY <1>1, <2>4, <2>5, EmissionFacts
<1> QED BY <1>3, <1>4

-----------------------------------------------------------------------------
(* The steps of the job threads.                                            *)

(* One that reads the length writes behind every monitor in place.          *)
LEMMA AddBeginStep ==
  ASSUME MonitorInv, NEW m \in Monitors, AddBegin(m)
  PROVE  MonitorInv'
<1> USE DEF MonitorInv
<1>0. /\ state[m] = "none" /\ up
      /\ UNCHANGED <<up, array, len, path, events, pos, cursor, emitted, audience>>
      /\ \A k \in Monitors : state'[k] = IF k = m THEN "adding" ELSE state[k]
      /\ \A k \in Monitors : slot'[k] = IF k = m THEN len ELSE slot[k]
      /\ overlapped' = IF Adding = {} THEN overlapped ELSE overlapped \cup Adding \cup {m}
      /\ len \in Nat /\ Len(array) \in Nat /\ len <= Len(array)
  BY DEF AddBegin, eventVars, TypeOK
<1>1. TypeOK'
  <2>1. state' \in [Monitors -> States] /\ slot' \in [Monitors -> Nat]
    BY <1>0 DEF TypeOK, AddBegin, States
  <2>2. overlapped' \subseteq Monitors
    BY <1>0 DEF TypeOK, Adding
  <2> QED BY <1>0, <2>1, <2>2 DEF TypeOK, States
<1>2. ArrayInv'
  <2>1. \A k \in Monitors : state'[k] = "adding" => slot'[k] <= Len(array)
    BY <1>0 DEF ArrayInv
  <2>2. ASSUME NEW i \in 1 .. Len(array), array[i].monitor # NoMonitor
        PROVE  /\ state'[array[i].monitor] = "live" /\ array[i].path = path[array[i].monitor]
               /\ \A j \in 1 .. Len(array) : array[j].monitor = array[i].monitor => j = i
    <3>1. array[i] \in Entries
      BY DEF TypeOK
    <3>2. array[i].monitor \in Monitors
      BY <2>2, <3>1 DEF Entries
    <3> QED BY <1>0, <2>2, <3>2 DEF ArrayInv
  <2> QED BY <1>0, <2>1, <2>2 DEF ArrayInv
<1>3. OrderInv' /\ InOrderOnce'
  BY <1>0 DEF OrderInv, InOrderOnce
<1>4. Adding' = Adding \cup {m} /\ m \notin Adding
  BY <1>0 DEF Adding
<1>5. Audience' = Audience
  BY <1>0 DEF Audience, Adding
<1>6. PlacedInv'
  <2>1. \A k \in Monitors \ overlapped' : state'[k] = "adding" => Adding' = {k}
    <3>1. CASE Adding = {}
      BY <1>0, <1>4, <3>1 DEF Adding
    <3>2. CASE Adding # {}
      BY <1>0, <3>2 DEF Adding
    <3> QED BY <3>1, <3>2
  <2>2. \A k \in Audience : \E i \in 1 .. len :
          array[i].monitor = k /\ \A j \in Adding' : i <= slot'[j]
    BY <1>0, <1>4 DEF PlacedInv, Adding
  <2> QED BY <1>0, <1>5, <2>1, <2>2 DEF PlacedInv
<1>7. ToldInv'
  BY <1>0, <1>5 DEF ToldInv, Dispatching, Sees, HasBeenTold
<1> QED BY <1>1, <1>2, <1>3, <1>6, <1>7

(* One that writes its place leaves those of the audience alone.            *)
LEMMA AddEndStep ==
  ASSUME MonitorInv, NEW m \in Monitors, AddEnd(m)
  PROVE  MonitorInv'
<1> USE DEF MonitorInv
<1> DEFINE n == slot[m] + 1
           entry == [path |-> path[m], monitor |-> m]
<1>0. /\ state[m] = "adding" /\ up /\ m \in Adding
      /\ UNCHANGED <<up, path, slot, overlapped, events, pos, cursor, emitted, audience>>
      /\ \A k \in Monitors : state'[k] = IF k = m THEN "live" ELSE state[k]
      /\ array' = Placed(entry, n) /\ len' = n
      /\ array \in Seq(Entries) /\ Len(array) \in Nat /\ cursor \in Nat
      /\ slot[m] \in Nat /\ m # NoMonitor
  BY PathsAssumption DEF AddEnd, eventVars, TypeOK, Adding
<1>1. entry \in Entries /\ n \in 1 .. Len(array) + 1
  BY <1>0 DEF TypeOK, Entries, ArrayInv
<1>2. entry.monitor = m /\ entry.path = path[m]
  OBVIOUS
<1> HIDE DEF n, entry
<1>3. /\ array' \in Seq(Entries) /\ n <= Len(array')
      /\ Len(array) <= Len(array') /\ Len(array') \in Nat
      /\ \A i \in 1 .. Len(array') : i <= Len(array) \/ i = n
      /\ array'[n] = entry
      /\ \A i \in 1 .. Len(array) : i # n => array'[i] = array[i]
  <2>1. /\ Placed(entry, n) \in Seq(Entries) /\ n <= Len(Placed(entry, n))
        /\ Len(array) <= Len(Placed(entry, n)) /\ Len(Placed(entry, n)) \in Nat
        /\ \A i \in 1 .. Len(Placed(entry, n)) : i <= Len(array) \/ i = n
        /\ Placed(entry, n)[n] = entry
        /\ \A i \in 1 .. Len(array) : i # n => Placed(entry, n)[i] = array[i]
    BY <1>0, <1>1, PlacedFacts
  <2> QED BY <1>0, <2>1
<1>4. \A i \in 1 .. Len(array) : array[i].monitor # m
  BY <1>0 DEF ArrayInv
<1>5. \A i \in 1 .. Len(array') : i # n => i \in 1 .. Len(array) /\ array'[i] = array[i]
  <2> SUFFICES ASSUME NEW i \in 1 .. Len(array'), i # n
               PROVE  i \in 1 .. Len(array) /\ array'[i] = array[i]
    OBVIOUS
  <2>1. i <= Len(array) /\ i \in Nat /\ 1 <= i
    BY <1>3
  <2>2. i \in 1 .. Len(array)
    BY <1>0, <2>1
  <2> QED BY <1>3, <2>2
<1>6. TypeOK'
  <2>1. state' \in [Monitors -> States]
    BY <1>0 DEF TypeOK, AddEnd, States
  <2>2. len' \in 0 .. Len(array')
    BY <1>0, <1>1, <1>3
  <2> QED BY <1>0, <1>3, <2>1, <2>2 DEF TypeOK, States
<1>7. ArrayInv'
  <2>1. \A k \in Monitors : state'[k] = "adding" => slot'[k] <= Len(array')
    <3> SUFFICES ASSUME NEW k \in Monitors, state'[k] = "adding"
                 PROVE  slot[k] <= Len(array')
      BY <1>0
    <3>1. state[k] = "adding" /\ slot[k] <= Len(array) /\ slot[k] \in Nat
      BY <1>0 DEF ArrayInv, TypeOK
    <3> QED BY <1>0, <1>3, <3>1
  <2>2. ASSUME NEW i \in 1 .. Len(array'), array'[i].monitor # NoMonitor
        PROVE  /\ state'[array'[i].monitor] = "live" /\ array'[i].path = path'[array'[i].monitor]
               /\ \A j \in 1 .. Len(array') : array'[j].monitor = array'[i].monitor => j = i
    <3>1. CASE i = n
      <4>1. array'[i].monitor = m /\ array'[i].path = path[m]
        BY <1>2, <1>3, <3>1
      <4>2. \A j \in 1 .. Len(array') : j # n => array'[j].monitor # m
        BY <1>4, <1>5
      <4> QED BY <1>0, <3>1, <4>1, <4>2
    <3>2. CASE i # n
      <4>1. array[i].monitor \in Monitors /\ array[i].monitor # m
        <5>1. i \in 1 .. Len(array) /\ array'[i] = array[i]
          BY <1>5, <3>2
        <5>2. array[i] \in Entries
          BY <1>0, <5>1
        <5> QED BY <1>4, <2>2, <5>1, <5>2 DEF Entries
      <4> QED BY <1>0, <1>2, <1>3, <1>4, <1>5, <2>2, <3>2, <4>1 DEF ArrayInv
    <3> QED BY <3>1, <3>2
  <2> QED BY <2>1, <2>2 DEF ArrayInv
<1>8. OrderInv' /\ InOrderOnce'
  <2>1. InOrderOnce'
    BY <1>0 DEF InOrderOnce
  <2>2. ASSUME NEW k \in Monitors
        PROVE  /\ state'[k] \in {"none", "adding"} => emitted'[k] = << >>
               /\ \A j \in 1 .. Len(emitted'[k]) :
                    /\ emitted'[k][j].event <= pos'
                    /\ emitted'[k][j].event = pos' =>
                         \A i \in 1 .. Len(array') : cursor' <= i => array'[i].monitor # k
    <3>1. CASE k = m
      <4>1. emitted[k] = << >> /\ Len(<< >>) = 0
        BY <1>0, <3>1 DEF OrderInv
      <4> QED BY <1>0, <3>1, <4>1
    <3>2. CASE k # m
      BY <1>0, <1>2, <1>3, <1>5, <3>2 DEF OrderInv
    <3> QED BY <3>1, <3>2
  <2> QED BY <2>1, <2>2 DEF OrderInv
<1>9. Adding' = Adding \ {m}
  BY <1>0 DEF Adding
<1>10. PlacedInv'
  <2>1. \A k \in Monitors \ overlapped' : state'[k] = "adding" => Adding' = {k}
    BY <1>0, <1>9 DEF PlacedInv
  <2>2. ASSUME NEW k \in Audience'
        PROVE  \E i \in 1 .. len' : array'[i].monitor = k /\ \A j \in Adding' : i <= slot'[j]
    <3>1. CASE k = m
      <4>1. m \notin overlapped
        BY <1>0, <2>2, <3>1 DEF Audience
      <4>2. Adding' = {}
        BY <1>0, <1>9, <4>1 DEF PlacedInv
      <4>3. n \in 1 .. len' /\ array'[n].monitor = k
        BY <1>0, <1>1, <1>2, <1>3, <3>1
      <4> QED BY <4>2, <4>3
    <3>2. CASE k # m
      <4>1. k \in Audience
        BY <1>0, <2>2, <3>2 DEF Audience
      <4>2. PICK i \in 1 .. len : array[i].monitor = k /\ \A j \in Adding : i <= slot[j]
        BY <1>0, <4>1 DEF PlacedInv
      <4>3. i <= slot[m] /\ i \in Nat /\ 1 <= i /\ i \in 1 .. Len(array)
        BY <1>0, <4>2 DEF TypeOK
      <4>4. i # n /\ i \in 1 .. len'
        BY <1>0, <4>3 DEF n
      <4>5. array'[i].monitor = k
        BY <1>3, <4>2, <4>3, <4>4
      <4> QED BY <1>0, <1>9, <4>2, <4>4, <4>5
    <3> QED BY <3>1, <3>2
  <2> QED BY <2>1, <2>2 DEF PlacedInv
<1>11. ToldInv'
  <2> SUFFICES ASSUME up', Dispatching', NEW k \in audience'
               PROVE  /\ k \in Audience'
                      /\ Sees(k, events[pos])' =>
                           \A i \in 1 .. Len(array') :
                             i < cursor' /\ array'[i].monitor = k => HasBeenTold(k)'
    BY DEF ToldInv
  <2>1. Dispatching /\ k \in audience /\ k \in Audience /\ k # m /\ k \in Monitors
    BY <1>0 DEF Dispatching, ToldInv, Audience
  <2>2. k \in Audience'
    BY <1>0, <2>1 DEF Audience
  <2>3. (Sees(k, events[pos])' <=> Sees(k, events[pos])) /\ (HasBeenTold(k)' <=> HasBeenTold(k))
    BY <1>0 DEF Sees, HasBeenTold
  <2>4. Sees(k, events[pos]) =>
          \A i \in 1 .. Len(array) : i < cursor /\ array[i].monitor = k => HasBeenTold(k)
    BY <1>0, <2>1 DEF ToldInv
  <2>5. \A i \in 1 .. Len(array') : array'[i].monitor = k => i \in 1 .. Len(array) /\ array[i].monitor = k
    BY <1>2, <1>3, <1>5, <2>1
  <2> QED BY <1>0, <2>2, <2>3, <2>4, <2>5
<1> QED BY <1>6, <1>7, <1>8, <1>10, <1>11

(* The process is gone.                                                     *)
LEMMA RaceFaultStep ==
  ASSUME MonitorInv, RaceFault
  PROVE  MonitorInv'
<1> USE DEF MonitorInv
<1>0. ~ up' /\ UNCHANGED <<array, len, state, path, slot, overlapped, events, pos, cursor, emitted, audience>>
  BY DEF RaceFault, arrayVars, eventVars
<1>1. up' \in BOOLEAN
  BY DEF RaceFault
<1> QED BY <1>0, <1>1 DEF TypeOK, ArrayInv, OrderInv, InOrderOnce, PlacedInv, ToldInv, Adding

-----------------------------------------------------------------------------
(* The steps of the main loop.                                              *)

(* A zeroed weak pointer frees a place without moving the others.           *)
LEMMA MonitorGoneStep ==
  ASSUME MonitorInv, NEW m \in Monitors, MonitorGone(m)
  PROVE  MonitorInv'
<1> USE DEF MonitorInv
<1>0. /\ state[m] = "live" /\ up /\ ~ Dispatching
      /\ UNCHANGED <<up, len, path, slot, overlapped, events, pos, cursor, emitted, audience>>
      /\ \A k \in Monitors : state'[k] = IF k = m THEN "gone" ELSE state[k]
      /\ array \in Seq(Entries) /\ Len(array) \in Nat /\ cursor \in Nat /\ len \in 0 .. Len(array)
      /\ NoMonitor \notin Monitors
  BY PathsAssumption DEF MonitorGone, eventVars, TypeOK
<1> DEFINE Left(e) == IF e.monitor = m THEN [e EXCEPT !.monitor = NoMonitor] ELSE e
<1>1. \A e \in Entries : /\ Left(e) \in Entries
                         /\ e.monitor = m => Left(e).monitor = NoMonitor
                         /\ e.monitor # m => Left(e) = e
  BY DEF Entries
<1>2. array' = [i \in 1 .. Len(array) |-> Left(array[i])]
  BY <1>0 DEF MonitorGone
<1> HIDE DEF Left
<1>3. /\ array' \in Seq(Entries) /\ Len(array') = Len(array)
      /\ \A i \in 1 .. Len(array) : array'[i] = Left(array[i])
  <2>1. \A i \in 1 .. Len(array) : array[i] \in Entries
    BY <1>0
  <2>2. \A i \in 1 .. Len(array) : Left(array[i]) \in Entries
    BY <1>1, <2>1
  <2>3. array' \in [1 .. Len(array) -> Entries]
    BY <1>2, <2>2
  <2> QED BY <1>0, <1>2, <2>3
<1>4. \A i \in 1 .. Len(array) : array'[i].monitor # NoMonitor =>
        array'[i] = array[i] /\ array[i].monitor \in Monitors \ {m}
  <2> SUFFICES ASSUME NEW i \in 1 .. Len(array), array'[i].monitor # NoMonitor
               PROVE  array'[i] = array[i] /\ array[i].monitor \in Monitors \ {m}
    OBVIOUS
  <2>1. array[i] \in Entries /\ array'[i] = Left(array[i])
    BY <1>0, <1>3
  <2>2. array[i].monitor # m /\ array'[i] = array[i]
    BY <1>1, <2>1
  <2> QED BY <2>1, <2>2 DEF Entries
<1>5. TypeOK'
  <2>1. state' \in [Monitors -> States]
    BY <1>0 DEF TypeOK, MonitorGone, States
  <2> QED BY <1>0, <1>3, <2>1 DEF TypeOK, States
<1>6. ArrayInv'
  <2>1. \A k \in Monitors : state'[k] = "adding" => slot'[k] <= Len(array')
    BY <1>0, <1>3 DEF ArrayInv
  <2>2. ASSUME NEW i \in 1 .. Len(array'), array'[i].monitor # NoMonitor
        PROVE  /\ state'[array'[i].monitor] = "live" /\ array'[i].path = path'[array'[i].monitor]
               /\ \A j \in 1 .. Len(array') : array'[j].monitor = array'[i].monitor => j = i
    <3>1. i \in 1 .. Len(array) /\ array'[i] = array[i] /\ array[i].monitor \in Monitors \ {m}
      BY <1>3, <1>4, <2>2
    <3>2. state'[array'[i].monitor] = "live" /\ array'[i].path = path'[array'[i].monitor]
      BY <1>0, <3>1 DEF ArrayInv
    <3>3. ASSUME NEW j \in 1 .. Len(array'), array'[j].monitor = array'[i].monitor
          PROVE  j = i
      <4>1. j \in 1 .. Len(array) /\ array[j].monitor = array[i].monitor
        BY <1>3, <1>4, <2>2, <3>1, <3>3
      <4> QED BY <1>0, <3>1, <4>1 DEF ArrayInv
    <3> QED BY <3>2, <3>3
  <2> QED BY <2>1, <2>2 DEF ArrayInv
<1>7. OrderInv' /\ InOrderOnce'
  <2>1. InOrderOnce'
    BY <1>0 DEF InOrderOnce
  <2>2. ASSUME NEW k \in Monitors
        PROVE  /\ state'[k] \in {"none", "adding"} => emitted'[k] = << >>
               /\ \A j \in 1 .. Len(emitted'[k]) :
                    /\ emitted'[k][j].event <= pos'
                    /\ emitted'[k][j].event = pos' =>
                         \A i \in 1 .. Len(array') : cursor' <= i => array'[i].monitor # k
    <3>1. \A i \in 1 .. Len(array') : array'[i].monitor = k => array[i].monitor = k
      BY <1>0, <1>3, <1>4
    <3> QED BY <1>0, <1>3, <3>1 DEF OrderInv
  <2> QED BY <2>1, <2>2 DEF OrderInv
<1>8. Adding' = Adding /\ Audience' = Audience \ {m}
  BY <1>0 DEF Adding, Audience
<1>9. PlacedInv'
  <2>1. \A k \in Monitors \ overlapped' : state'[k] = "adding" => Adding' = {k}
    BY <1>0, <1>8 DEF PlacedInv
  <2>2. ASSUME NEW k \in Audience'
        PROVE  \E i \in 1 .. len' : array'[i].monitor = k /\ \A j \in Adding' : i <= slot'[j]
    <3>1. k \in Audience /\ k # m
      BY <1>8
    <3>2. PICK i \in 1 .. len : array[i].monitor = k /\ \A j \in Adding : i <= slot[j]
      BY <1>0, <3>1 DEF PlacedInv
    <3>3. i \in 1 .. Len(array) /\ array[i] \in Entries
      BY <1>0
    <3>4. array'[i] = array[i]
      BY <1>1, <1>3, <3>1, <3>2, <3>3
    <3> QED BY <1>0, <1>8, <3>2, <3>4
  <2> QED BY <2>1, <2>2 DEF PlacedInv
<1>10. ToldInv'
  BY <1>0 DEF ToldInv, Dispatching
<1> QED BY <1>5, <1>6, <1>7, <1>9, <1>10

(* Nothing emitted so far was for a notice of the new batch.                *)
LEMMA PollEventsStep ==
  ASSUME MonitorInv, PollEvents
  PROVE  MonitorInv'
<1> USE DEF MonitorInv
<1>0. /\ up /\ ~ Dispatching
      /\ UNCHANGED <<up, pos, emitted, array, len, state, path, slot, overlapped>>
      /\ cursor' = 1 /\ audience' = Audience
      /\ events \in Seq(Notices) /\ Len(events) \in Nat
  BY DEF PollEvents, arrayVars, TypeOK
<1>1. events' \in Seq(Notices) /\ Len(events') \in Nat /\ Len(events) <= Len(events')
  <2>1. PICK k \in 1 .. MaxEvents - Len(events) : \E batch \in [1 .. k -> Sent] :
          events' = events \o batch
    BY DEF PollEvents
  <2>2. PICK batch \in [1 .. k -> Sent] : events' = events \o batch
    BY <2>1
  <2>3. k \in Nat /\ Sent \subseteq Notices
    BY <1>0, MaxEventsAssumption DEF Sent
  <2>4. batch \in [1 .. k -> Notices]
    BY <2>3
  <2>5. batch \in Seq(Notices) /\ Len(batch) = k
    BY <2>3, <2>4
  <2>6. events \o batch \in Seq(Notices) /\ Len(events \o batch) = Len(events) + Len(batch)
    BY <1>0, <2>5, ConcatProperties
  <2> QED BY <1>0, <2>2, <2>3, <2>5, <2>6
<1>2. pos = Len(events) + 1
  BY <1>0 DEF TypeOK, Dispatching
<1>3. \A m \in Monitors : \A k \in 1 .. Len(emitted[m]) :
        emitted[m][k].event \in 1 .. Len(events)
  <2> SUFFICES ASSUME NEW m \in Monitors, NEW k \in 1 .. Len(emitted[m])
               PROVE  emitted[m][k].event \in 1 .. Len(events)
    OBVIOUS
  <2>1. emitted[m] \in Seq(EmissionType(Len(events)))
    BY DEF TypeOK, EmissionType
  <2>2. emitted[m][k] \in EmissionType(Len(events))
    BY <2>1
  <2> QED BY <2>2 DEF EmissionType
<1>4. TypeOK'
  <2>1. emitted \in [Monitors -> Seq(EmissionType(Len(events')))]
    <3>1. emitted \in [Monitors -> Seq(EmissionType(Len(events)))]
      BY DEF TypeOK, EmissionType
    <3>2. EmissionType(Len(events)) \subseteq EmissionType(Len(events'))
      BY <1>0, <1>1 DEF EmissionType
    <3>3. Seq(EmissionType(Len(events))) \subseteq Seq(EmissionType(Len(events')))
      BY <3>2
    <3> QED BY <3>1, <3>3
  <2>2. pos' \in 1 .. Len(events') + 1
    BY <1>0, <1>1, <1>2
  <2>3. audience' \subseteq Monitors /\ cursor' \in Nat \ {0}
    BY <1>0 DEF Audience
  <2>4. emitted' \in [Monitors -> Seq([event : 1 .. Len(events'), type : Types, path : Paths])]
    BY <1>0, <2>1 DEF EmissionType
  <2> QED BY <1>0, <1>1, <2>2, <2>3, <2>4 DEF TypeOK
<1>5. ArrayInv' /\ InOrderOnce'
  BY <1>0 DEF ArrayInv, InOrderOnce
<1>6. OrderInv'
  BY <1>0, <1>2, <1>3 DEF OrderInv
<1>7. Adding' = Adding /\ Audience' = Audience
  BY <1>0 DEF Adding, Audience
<1>8. PlacedInv'
  BY <1>0, <1>7 DEF PlacedInv
<1>9. ToldInv'
  BY <1>0, <1>7 DEF ToldInv
<1> QED BY <1>4, <1>5, <1>6, <1>8, <1>9

(* On to the next place: the monitor of this one, if any, has been told.    *)
LEMMA EmitOneStep ==
  ASSUME MonitorInv, EmitOne
  PROVE  MonitorInv'
<1> USE DEF MonitorInv
<1>0. /\ up /\ Dispatching /\ cursor' = cursor + 1
      /\ UNCHANGED <<up, events, pos, audience, array, len, state, path, slot, overlapped>>
      /\ Len(array) \in Nat /\ cursor \in 1 .. Len(array) /\ pos \in 1 .. Len(events)
      /\ Len(events) \in Nat /\ NoMonitor \notin Monitors
  <2>1. array \in Seq(Entries) /\ events \in Seq(Notices)
    BY DEF TypeOK
  <2>2. Len(array) \in Nat /\ Len(events) \in Nat
    BY <2>1
  <2> QED BY <2>2, PathsAssumption DEF EmitOne, arrayVars, TypeOK, Dispatching
<1> DEFINE E == EmissionType(Len(events))
           Same(m) == /\ emitted'[m] = emitted[m]
                      /\ array[cursor].monitor = m => ~ Sees(m, events[pos])
           Told(m) == /\ array[cursor].monitor = m
                      /\ \E e \in E : emitted'[m] = Append(emitted[m], e) /\ e.event = pos
<1>1. \A m \in Monitors : Same(m) \/ Told(m)
  BY EmitFacts
<1>2. \A m \in Monitors : emitted[m] \in Seq(E) /\ Len(emitted[m]) \in Nat
  <2>1. \A m \in Monitors : emitted[m] \in Seq(E)
    BY DEF TypeOK, EmissionType
  <2> QED BY <2>1
<1> HIDE DEF E
<1>3. ASSUME NEW m \in Monitors, Told(m)
      PROVE  /\ emitted'[m] \in Seq(E) /\ Len(emitted'[m]) = Len(emitted[m]) + 1
             /\ emitted'[m][Len(emitted[m]) + 1].event = pos
             /\ \A k \in 1 .. Len(emitted[m]) : emitted'[m][k] = emitted[m][k]
  <2>1. PICK e \in E : emitted'[m] = Append(emitted[m], e) /\ e.event = pos
    BY <1>3
  <2>2. /\ Append(emitted[m], e) \in Seq(E)
        /\ Len(Append(emitted[m], e)) = Len(emitted[m]) + 1
        /\ Append(emitted[m], e)[Len(emitted[m]) + 1] = e
        /\ \A k \in 1 .. Len(emitted[m]) : Append(emitted[m], e)[k] = emitted[m][k]
    BY <1>2, AppendProperties
  <2> QED BY <2>1, <2>2
<1>4. \A m \in Monitors : emitted'[m] \in Seq(E)
  BY <1>1, <1>2, <1>3
<1>5. \A m \in Monitors : \A k \in 1 .. Len(emitted[m]) :
        emitted[m][k].event \in Nat /\ emitted[m][k].event <= pos
  <2> SUFFICES ASSUME NEW m \in Monitors, NEW k \in 1 .. Len(emitted[m])
               PROVE  emitted[m][k].event \in Nat /\ emitted[m][k].event <= pos
    OBVIOUS
  <2>1. emitted[m][k] \in E
    BY <1>2
  <2>2. emitted[m][k].event \in Nat
    BY <2>1 DEF E, EmissionType
  <2> QED BY <2>2 DEF OrderInv
<1>6. \A m \in Monitors : array[cursor].monitor = m =>
        /\ state[m] = "live" /\ \A j \in 1 .. Len(array) : array[j].monitor = m => j = cursor
  BY <1>0 DEF ArrayInv
<1>7. \A m \in Monitors : array[cursor].monitor = m =>
        \A k \in 1 .. Len(emitted[m]) : emitted[m][k].event < pos
  <2> SUFFICES ASSUME NEW m \in Monitors, array[cursor].monitor = m,
                      NEW k \in 1 .. Len(emitted[m])
               PROVE  emitted[m][k].event < pos
    OBVIOUS
  <2>1. emitted[m][k].event # pos
    BY <1>0 DEF OrderInv
  <2> QED BY <1>0, <1>5, <2>1
<1>8. TypeOK'
  <2>1. emitted' \in [Monitors -> Seq(E)]
    <3>1. emitted' = [m \in Monitors |-> emitted'[m]]
      BY DEF TypeOK, EmitOne
    <3> QED BY <1>4, <3>1
  <2>2. emitted' \in [Monitors -> Seq([event : 1 .. Len(events'), type : Types, path : Paths])]
    BY <1>0, <2>1 DEF E, EmissionType
  <2>3. cursor' \in Nat \ {0}
    BY <1>0
  <2> QED BY <1>0, <2>2, <2>3 DEF TypeOK
<1>9. ArrayInv'
  BY <1>0 DEF ArrayInv
<1>10. OrderInv'
  <2> SUFFICES ASSUME NEW m \in Monitors
               PROVE  /\ state[m] \in {"none", "adding"} => emitted'[m] = << >>
                      /\ \A k \in 1 .. Len(emitted'[m]) :
                           /\ emitted'[m][k].event <= pos
                           /\ emitted'[m][k].event = pos =>
                                \A i \in 1 .. Len(array) : cursor + 1 <= i => array[i].monitor # m
    BY <1>0 DEF OrderInv
  <2>1. CASE Same(m)
    BY <1>0, <2>1 DEF OrderInv
  <2>2. CASE Told(m)
    <3>1. state[m] = "live"
      BY <1>6, <2>2
    <3>2. \A i \in 1 .. Len(array) : cursor + 1 <= i => array[i].monitor # m
      BY <1>0, <1>6, <2>2
    <3>3. ASSUME NEW k \in 1 .. Len(emitted'[m]) PROVE emitted'[m][k].event <= pos
      <4>1. CASE k \in 1 .. Len(emitted[m])
        BY <1>3, <1>5, <2>2, <4>1
      <4>2. CASE k = Len(emitted[m]) + 1
        BY <1>0, <1>3, <2>2, <4>2
      <4>3. Len(emitted'[m]) = Len(emitted[m]) + 1 /\ Len(emitted[m]) \in Nat
        BY <1>2, <1>3, <2>2
      <4> QED BY <4>1, <4>2, <4>3
    <3> QED BY <3>1, <3>2, <3>3
  <2> QED BY <1>1, <2>1, <2>2
<1>11. InOrderOnce'
  <2> SUFFICES ASSUME NEW m \in Monitors, NEW i \in DOMAIN emitted'[m],
                      NEW j \in DOMAIN emitted'[m], i < j
               PROVE  emitted'[m][i].event < emitted'[m][j].event
    BY DEF InOrderOnce
  <2>0. /\ DOMAIN emitted[m] = 1 .. Len(emitted[m]) /\ Len(emitted[m]) \in Nat
        /\ DOMAIN emitted'[m] = 1 .. Len(emitted'[m])
    BY <1>2, <1>4
  <2>1. CASE Same(m)
    BY <2>1 DEF InOrderOnce
  <2>2. CASE Told(m)
    <3>1. i \in 1 .. Len(emitted[m])
      BY <1>3, <2>0, <2>2
    <3>2. CASE j \in 1 .. Len(emitted[m])
      BY <1>3, <2>0, <2>2, <3>1, <3>2 DEF InOrderOnce
    <3>3. CASE j = Len(emitted[m]) + 1
      BY <1>3, <1>7, <2>2, <3>1, <3>3
    <3>4. j \in 1 .. Len(emitted[m]) + 1
      BY <1>3, <2>0, <2>2
    <3> QED BY <2>0, <3>2, <3>3, <3>4
  <2> QED BY <1>1, <2>1, <2>2
<1>12. Adding' = Adding /\ Audience' = Audience
  BY <1>0 DEF Adding, Audience
<1>13. PlacedInv'
  BY <1>0, <1>12 DEF PlacedInv
<1>14. ToldInv'
  <2> SUFFICES ASSUME NEW m \in audience
               PROVE  /\ m \in Audience
                      /\ Sees(m, events[pos]) =>
                           \A i \in 1 .. Len(array) :
                             i < cursor + 1 /\ array[i].monitor = m => HasBeenTold(m)'
    <3>1. \A m \in Monitors : Sees(m, events[pos])' <=> Sees(m, events[pos])
      BY <1>0 DEF Sees
    <3>2. audience \subseteq Monitors
      BY DEF TypeOK
    <3> QED BY <1>0, <1>12, <3>1, <3>2 DEF ToldInv
  <2>1. m \in Audience /\ m \in Monitors
    BY <1>0 DEF ToldInv, Audience
  <2>2. HasBeenTold(m) => HasBeenTold(m)'
    <3>1. ASSUME NEW k \in 1 .. Len(emitted[m])
          PROVE  k \in 1 .. Len(emitted'[m]) /\ emitted'[m][k] = emitted[m][k]
      <4>1. CASE Same(m)
        BY <4>1
      <4>2. CASE Told(m)
        BY <1>2, <1>3, <2>1, <4>2
      <4> QED BY <1>1, <2>1, <4>1, <4>2
    <3> QED BY <1>0, <3>1 DEF HasBeenTold
  <2>3. ASSUME Told(m) PROVE HasBeenTold(m)'
    <3>1. Len(emitted[m]) + 1 \in 1 .. Len(emitted'[m])
      BY <1>2, <1>3, <2>1, <2>3
    <3>2. emitted'[m][Len(emitted[m]) + 1].event = pos'
      BY <1>0, <1>3, <2>1, <2>3
    <3> QED BY <3>1, <3>2 DEF HasBeenTold
  <2>4. ASSUME Sees(m, events[pos]), NEW i \in 1 .. Len(array), i < cursor + 1,
               array[i].monitor = m
        PROVE  HasBeenTold(m)'
    <3>1. CASE i < cursor
      <4>1. HasBeenTold(m)
        BY <1>0, <2>4, <3>1 DEF ToldInv
      <4> QED BY <2>2, <4>1
    <3>2. CASE i = cursor
      <4>1. Told(m)
        BY <1>1, <2>1, <2>4, <3>2
      <4> QED BY <2>3, <4>1
    <3> QED BY <1>0, <2>4, <3>1, <3>2
  <2> QED BY <2>1, <2>4
<1> QED BY <1>8, <1>9, <1>10, <1>11, <1>13, <1>14

(* The next notice: nobody has been told of it.                             *)
LEMMA EmitDoneStep ==
  ASSUME MonitorInv, EmitDone
  PROVE  MonitorInv'
<1> USE DEF MonitorInv
<1>0. /\ up /\ pos' = pos + 1 /\ cursor' = 1 /\ audience' = Audience
      /\ UNCHANGED <<up, events, emitted, array, len, state, path, slot, overlapped>>
      /\ Len(array) \in Nat /\ pos \in 1 .. Len(events) /\ Len(events) \in Nat
  <2>1. array \in Seq(Entries) /\ events \in Seq(Notices)
    BY DEF TypeOK
  <2>2. Len(array) \in Nat /\ Len(events) \in Nat
    BY <2>1
  <2> QED BY <2>2 DEF EmitDone, arrayVars, TypeOK, Dispatching
<1>1. \A m \in Monitors : \A k \in 1 .. Len(emitted[m]) :
        emitted[m][k].event \in Nat /\ emitted[m][k].event <= pos
  <2> SUFFICES ASSUME NEW m \in Monitors, NEW k \in 1 .. Len(emitted[m])
               PROVE  emitted[m][k].event \in Nat /\ emitted[m][k].event <= pos
    OBVIOUS
  <2>1. emitted[m] \in Seq(EmissionType(Len(events)))
    BY DEF TypeOK, EmissionType
  <2>2. emitted[m][k] \in EmissionType(Len(events))
    BY <2>1
  <2> QED BY <2>2 DEF EmissionType, OrderInv
<1>2. TypeOK'
  <2>1. pos' \in 1 .. Len(events') + 1 /\ cursor' \in Nat \ {0} /\ audience' \subseteq Monitors
    BY <1>0 DEF Audience
  <2> QED BY <1>0, <2>1 DEF TypeOK
<1>3. ArrayInv' /\ InOrderOnce'
  BY <1>0 DEF ArrayInv, InOrderOnce
<1>4. OrderInv'
  BY <1>0, <1>1 DEF OrderInv
<1>5. Adding' = Adding /\ Audience' = Audience
  BY <1>0 DEF Adding, Audience
<1>6. PlacedInv'
  BY <1>0, <1>5 DEF PlacedInv
<1>7. ToldInv'
  BY <1>0, <1>5 DEF ToldInv
<1> QED BY <1>2, <1>3, <1>4, <1>6, <1>7

(* Nothing is left to go through.                                           *)
LEMMA FinalizeStep ==
  ASSUME MonitorInv, Finalize
  PROVE  MonitorInv'
<1> USE DEF MonitorInv
<1>0. /\ ~ up' /\ array' = << >> /\ len' = 0 /\ Adding = {}
      /\ UNCHANGED <<state, path, slot, overlapped, events, pos, cursor, emitted, audience>>
  BY DEF Finalize, eventVars
<1>1. << >> \in Seq(Entries) /\ Len(<< >>) = 0
  OBVIOUS
<1>2. TypeOK'
  <2>1. up' \in BOOLEAN
    BY DEF Finalize
  <2>2. array' \in Seq(Entries) /\ len' \in 0 .. Len(array')
    BY <1>0, <1>1
  <2> QED BY <1>0, <2>1, <2>2 DEF TypeOK
<1>3. ArrayInv'
  BY <1>0, <1>1 DEF ArrayInv, Adding
<1>4. OrderInv'
  BY <1>0, <1>1 DEF OrderInv
<1>5. InOrderOnce'
  BY <1>0 DEF InOrderOnce
<1>6. PlacedInv' /\ ToldInv'
  BY <1>0 DEF PlacedInv, ToldInv, Adding
<1> QED BY <1>2, <1>3, <1>4, <1>5, <1>6

-----------------------------------------------------------------------------
(* No monitors, no notices.                                                 *)
LEMMA MonitorInit == Init => MonitorInv
<1> SUFFICES ASSUME Init PROVE MonitorInv
  OBVIOUS
<1>0. Len(<< >>) = 0 /\ DOMAIN << >> = {} /\ \A S : << >> \in Seq(S)
  OBVIOUS
<1>1. TypeOK
  BY <1>0 DEF Init, TypeOK
<1>2. ArrayInv /\ OrderInv
  BY <1>0 DEF Init, ArrayInv, OrderInv
<1>3. InOrderOnce
  BY <1>0 DEF Init, InOrderOnce
<1>4. PlacedInv /\ ToldInv
  BY <1>0 DEF Init, PlacedInv, ToldInv, Adding, Audience, Dispatching
<1> QED BY <1>1, <1>2, <1>3, <1>4 DEF MonitorInv

(* The invariant is inductive.                                              *)
LEMMA MonitorNext == MonitorInv /\ [Next]_vars => MonitorInv'
<1> SUFFICES ASSUME MonitorInv, [Next]_vars PROVE MonitorInv'
  OBVIOUS
<1>1. CASE UNCHANGED vars
  <2>0. UNCHANGED <<up, array, len, state, path, slot, overlapped, events, pos, cursor, emitted,
                    audience>>
    BY <1>1 DEF vars, arrayVars, eventVars
  <2>1. TypeOK'
    BY <2>0 DEF MonitorInv, TypeOK
  <2>2. ArrayInv' /\ OrderInv' /\ InOrderOnce'
    BY <2>0 DEF MonitorInv, ArrayInv, OrderInv, InOrderOnce
  <2>3. Adding' = Adding /\ Audience' = Audience /\ Dispatching' = Dispatching
    BY <2>0 DEF Adding, Audience, Dispatching
  <2>4. PlacedInv'
    BY <2>0, <2>3 DEF MonitorInv, PlacedInv
  <2>5. ToldInv'
    <3>1. \A m \in audience : /\ Sees(m, events[pos])' = Sees(m, events[pos])
                             /\ HasBeenTold(m)' = HasBeenTold(m)
      BY <2>0 DEF Sees, HasBeenTold
    <3> QED BY <2>0, <2>3, <3>1 DEF MonitorInv, ToldInv
  <2> QED BY <2>1, <2>2, <2>4, <2>5 DEF MonitorInv
<1>2. CASE \E m \in Monitors : AddBegin(m) \/ AddEnd(m) \/ MonitorGone(m)
  BY <1>2, AddBeginStep, AddEndStep, MonitorGoneStep
<1>3. CASE RaceFault \/ PollEvents \/ EmitOne \/ EmitDone \/ Finalize
  BY <1>3, RaceFaultStep, PollEventsStep, EmitOneStep, EmitDoneStep, FinalizeStep
<1> QED BY <1>1, <1>2, <1>3 DEF Next

(* What the properties below rest on.                                       *)
LEMMA MonitorInvariant == Spec => []MonitorInv
<1> QED BY MonitorInit, MonitorNext, PTL DEF Spec

(* The array, the notices, the loop's indices and what was emitted stay     *)
(* well formed: in particular a place counted has been written, whatever    *)
(* two adds at once do to the length.                                       *)
THEOREM MonitorTypeCorrect == Spec => []TypeOK
<1>1. MonitorInv => TypeOK
  BY DEF MonitorInv
<1> QED BY <1>1, MonitorInvariant, PTL

(* A client hears of changes in the order the helper queued them and of     *)
(* each at most once, for any number of monitors added and dropped          *)
(* meanwhile: emit_on_monitors meets a monitor once a round.                *)
THEOREM ToldInOrder == Spec => []InOrderOnce
<1>1. MonitorInv => InOrderOnce
  BY DEF MonitorInv
<1> QED BY <1>1, MonitorInvariant, PTL

-----------------------------------------------------------------------------
(* Induction over the natural numbers, for a set.                           *)
LEMMA SetInduction ==
  ASSUME NEW T, 0 \in T, \A n \in Nat : n \in T => n + 1 \in T
  PROVE  Nat \subseteq T
<1> DEFINE B == Nat \ T
           R == OpToRel(<, Nat)
<1> SUFFICES ASSUME B # {} PROVE FALSE
  OBVIOUS
<1>1. IsWellFoundedOn(R, Nat)
  BY NatLessThanWellFounded
<1>2. B \subseteq Nat
  OBVIOUS
<1>3. \A x, y \in Nat : x < y => <<x, y>> \in R
  BY DEF OpToRel
<1> HIDE DEF R, B
<1>4. \E x \in B : \A y \in B : <<y, x>> \notin R
  BY <1>1, <1>2, WFMin
<1>5. PICK x \in B : \A y \in B : <<y, x>> \notin R
  BY <1>4
<1>6. x \in Nat /\ x # 0
  BY DEF B
<1>7. x - 1 \in Nat /\ x - 1 < x
  BY <1>6
<1>8. x - 1 \in T
  BY <1>3, <1>5, <1>6, <1>7 DEF B
<1>9. x \in T
  BY <1>6, <1>7, <1>8
<1> QED BY <1>9 DEF B

(* G holds the strings that the first strings of ss make, up to the n-th.   *)
Builds(G, ss, n, S) ==
  /\ G \in [0 .. n -> Seq(S)] /\ G[0] = << >>
  /\ \A i \in 1 .. n : G[i] = G[i - 1] \o ss[i]

(* There is such a function.                                                *)
LEMMA BuildsExists ==
  ASSUME NEW S, NEW ss \in Seq(Seq(S))
  PROVE  \E G : Builds(G, ss, Len(ss), S)
<1> DEFINE T == {n \in Nat : n <= Len(ss) => \E G : Builds(G, ss, n, S)}
<1>1. Len(ss) \in Nat
  BY LenProperties
<1>2. 0 \in T
  <2>1. Builds([i \in 0 .. 0 |-> << >>], ss, 0, S)
    BY DEF Builds
  <2> QED BY <2>1
<1>3. ASSUME NEW n \in Nat, n + 1 <= Len(ss), NEW G, Builds(G, ss, n, S)
      PROVE  \E H : Builds(H, ss, n + 1, S)
  <2> DEFINE H == [i \in 0 .. n + 1 |-> IF i = n + 1 THEN G[n] \o ss[n + 1] ELSE G[i]]
  <2>1. ss[n + 1] \in Seq(S)
    <3>1. n + 1 \in 1 .. Len(ss)
      BY <1>1, <1>3
    <3> QED BY <3>1, ElementOfSeq
  <2>2. G[n] \in Seq(S)
    BY <1>3 DEF Builds
  <2>3. PICK e \in Seq(S) : e = G[n] \o ss[n + 1]
    BY <2>1, <2>2, ConcatProperties
  <2>4. H = [i \in 0 .. n + 1 |-> IF i = n + 1 THEN e ELSE G[i]]
    BY <2>3
  <2> HIDE DEF H
  <2>5. H[n + 1] = e /\ DOMAIN H = 0 .. n + 1
    BY <2>4
  <2>6. \A i \in 0 .. n : H[i] = G[i] /\ G[i] \in Seq(S)
    BY <1>3, <2>4 DEF Builds
  <2>7. H \in [0 .. n + 1 -> Seq(S)]
    <3>1. \A i \in 0 .. n + 1 : i \in 0 .. n \/ i = n + 1
      OBVIOUS
    <3>2. \A i \in 0 .. n + 1 : H[i] \in Seq(S)
      BY <2>5, <2>6, <3>1
    <3> QED BY <2>4, <3>2
  <2>8. H[0] = << >>
    <3>1. 0 \in 0 .. n
      OBVIOUS
    <3> QED BY <1>3, <2>6, <3>1 DEF Builds
  <2>9. ASSUME NEW i \in 1 .. n + 1 PROVE H[i] = H[i - 1] \o ss[i]
    <3>1. i - 1 \in 0 .. n
      OBVIOUS
    <3>2. CASE i = n + 1
      <4>1. i - 1 = n
        BY <3>2
      <4> QED BY <2>3, <2>5, <2>6, <3>1, <3>2, <4>1
    <3>3. CASE i # n + 1
      <4>1. i \in 1 .. n /\ i \in 0 .. n
        BY <3>3
      <4> QED BY <1>3, <2>6, <3>1, <4>1 DEF Builds
    <3> QED BY <3>2, <3>3
  <2> QED BY <2>7, <2>8, <2>9 DEF Builds
<1>4. ASSUME NEW n \in Nat, n \in T PROVE n + 1 \in T
  <2>1. n + 1 <= Len(ss) => n <= Len(ss)
    BY <1>1
  <2> QED BY <1>3, <1>4, <2>1
<1>5. Nat \subseteq T
  <2> HIDE DEF T
  <2> QED BY <1>2, <1>4, SetInduction
<1>6. Len(ss) \in T /\ Len(ss) <= Len(ss)
  BY <1>1, <1>5
<1> QED BY <1>6

(* FlattenSeq gives the last of them.                                       *)
LEMMA FlattenFacts ==
  ASSUME NEW S, NEW ss \in Seq(Seq(S)), Len(ss) # 0, NEW G, Builds(G, ss, Len(ss), S)
  PROVE  FlattenSeq(ss) = G[Len(ss)]
<1> DEFINE L == Len(ss)
           Fix(f) == f = [i \in 1 .. L |-> IF i = 1 THEN ss[i] ELSE f[i - 1] \o ss[i]]
           f0 == CHOOSE f : Fix(f)
           g == [i \in 1 .. L |-> G[i]]
<1>1. L \in Nat /\ L >= 1
  BY LenProperties
<1>2. FlattenSeq(ss) = f0[L]
  BY DEF FlattenSeq
<1>0. G[1] = ss[1]
  <2>1. 1 \in 1 .. L /\ 1 - 1 = 0
    BY <1>1
  <2>2. ss[1] \in Seq(S)
    BY <2>1, ElementOfSeq
  <2>3. G[1] = G[0] \o ss[1] /\ G[0] = << >>
    BY <2>1 DEF Builds
  <2> QED BY <2>2, <2>3, ConcatEmptySeq
<1>3. Fix(g)
  <2>1. ASSUME NEW i \in 1 .. L PROVE G[i] = IF i = 1 THEN ss[i] ELSE g[i - 1] \o ss[i]
    <3>1. CASE i = 1
      BY <1>0, <3>1
    <3>2. CASE i # 1
      <4>1. i - 1 \in 1 .. L
        BY <3>2
      <4>2. g[i - 1] = G[i - 1]
        BY <4>1
      <4>3. G[i] = G[i - 1] \o ss[i]
        BY DEF Builds
      <4> HIDE DEF g
      <4> QED BY <3>2, <4>2, <4>3
    <3> QED BY <3>1, <3>2
  <2> QED BY <2>1
<1>4. Fix(f0)
  <2> HIDE DEF Fix, g
  <2> QED BY <1>3
<1> HIDE DEF f0
<1> DEFINE T == {n \in Nat : n + 1 <= L => f0[n + 1] = G[n + 1]}
<1>5. 0 \in T
  <2>1. f0[1] = ss[1]
    BY <1>1, <1>4
  <2> QED BY <2>1, <1>0
<1>6. ASSUME NEW n \in Nat, n \in T PROVE n + 1 \in T
  <2> SUFFICES ASSUME n + 2 <= L PROVE f0[n + 2] = G[n + 2]
    OBVIOUS
  <2>1. n + 2 \in 1 .. L /\ n + 2 # 1 /\ (n + 2) - 1 = n + 1
    BY <1>1
  <2>2. f0[n + 2] = f0[n + 1] \o ss[n + 2]
    BY <1>4, <2>1
  <2>3. G[n + 2] = G[n + 1] \o ss[n + 2]
    BY <2>1 DEF Builds
  <2>4. f0[n + 1] = G[n + 1]
    BY <1>1, <1>6
  <2> QED BY <2>2, <2>3, <2>4
<1>7. Nat \subseteq T
  <2> HIDE DEF T
  <2> QED BY <1>5, <1>6, SetInduction
<1>8. PICK m \in Nat : m + 1 = L
  <2>1. L - 1 \in Nat /\ (L - 1) + 1 = L
    BY <1>1
  <2> QED BY <2>1
<1>9. m \in T
  <2> HIDE DEF T
  <2> QED BY <1>7
<1>10. f0[L] = G[L]
  <2>1. m + 1 <= L => f0[m + 1] = G[m + 1]
    BY <1>9
  <2>2. m + 1 <= L
    BY <1>1, <1>8
  <2> QED BY <1>8, <2>1, <2>2
<1> QED BY <1>2, <1>10

(* The parts of the string of a path, each with its separator.              *)
Parts(p) == [i \in DOMAIN p |-> <<"/">> \o p[i]]
AllChars == Chars \cup {"/"}

(* The names of a path, as strings.                                         *)
LEMMA NameFacts ==
  ASSUME NEW p \in Paths
  PROVE  /\ Len(p) \in Nat /\ DOMAIN p = 1 .. Len(p) /\ (p = << >> <=> Len(p) = 0)
         /\ \A i \in 1 .. Len(p) :
              p[i] \in Seq(Chars) /\ p[i] \in Seq(AllChars) /\ Len(p[i]) \in Nat /\ Len(p[i]) # 0
<1>1. p \in Seq(Seq(Chars) \ {<< >>})
  BY NamesAssumption
<1>2. Len(p) \in Nat /\ DOMAIN p = 1 .. Len(p)
  BY <1>1, LenProperties
<1>3. p = << >> <=> Len(p) = 0
  BY <1>1, EmptySeq
<1>4. ASSUME NEW i \in 1 .. Len(p)
      PROVE  p[i] \in Seq(Chars) /\ p[i] \in Seq(AllChars) /\ Len(p[i]) \in Nat /\ Len(p[i]) # 0
  <2>1. p[i] \in Seq(Chars) /\ p[i] # << >>
    BY <1>1, ElementOfSeq
  <2>2. p[i] \in Seq(AllChars)
    BY <2>1, SeqMonotonic DEF AllChars
  <2>3. Len(p[i]) \in Nat /\ Len(p[i]) # 0
    BY <2>1, LenProperties, EmptySeq
  <2> QED BY <2>1, <2>2, <2>3
<1> QED BY <1>2, <1>3, <1>4

(* A string of one character.                                               *)
LEMMA OneCharString ==
  ASSUME NEW S, NEW e \in S
  PROVE  <<e>> \in Seq(S)
OBVIOUS

(* One part: the separator, then the name's characters.                     *)
LEMMA PartFacts ==
  ASSUME NEW p \in Paths
  PROVE  /\ Parts(p) \in Seq(Seq(AllChars)) /\ Len(Parts(p)) = Len(p)
         /\ \A i \in 1 .. Len(p) :
              /\ Parts(p)[i] \in Seq(AllChars)
              /\ Len(Parts(p)[i]) = 1 + Len(p[i]) /\ Parts(p)[i][1] = "/"
              /\ \A j \in 1 .. Len(p[i]) : Parts(p)[i][1 + j] = p[i][j]
<1>1. Len(p) \in Nat /\ DOMAIN p = 1 .. Len(p)
  BY NameFacts
<1>2. ASSUME NEW i \in 1 .. Len(p)
      PROVE  /\ Parts(p)[i] \in Seq(AllChars)
             /\ Len(Parts(p)[i]) = 1 + Len(p[i]) /\ Parts(p)[i][1] = "/"
             /\ \A j \in 1 .. Len(p[i]) : Parts(p)[i][1 + j] = p[i][j]
  <2>1. PICK a \in Seq(AllChars) : a = p[i]
    BY NameFacts
  <2>2. PICK b \in Seq(AllChars) : b = <<"/">>
    <3>1. "/" \in AllChars
      BY DEF AllChars
    <3>2. <<"/">> \in Seq(AllChars)
      BY <3>1, OneCharString
    <3> QED BY <3>2, Zenon
  <2>3. Parts(p)[i] = b \o a
    BY <1>1, <2>1, <2>2 DEF Parts
  <2>4. Len(b) = 1 /\ b[1] = "/" /\ Len(a) \in Nat
    BY <2>2, LenProperties
  <2>5. b \o a \in Seq(AllChars) /\ Len(b \o a) = Len(b) + Len(a)
        /\ \A k \in 1 .. Len(b) + Len(a) : (b \o a)[k] = IF k <= Len(b) THEN b[k] ELSE a[k - Len(b)]
    BY ConcatProperties
  <2>6. PICK t : t = b \o a
    OBVIOUS
  <2>7. Len(t) = 1 + Len(a) /\ t[1] = "/"
    BY <2>4, <2>5, <2>6
  <2>8. ASSUME NEW j \in 1 .. Len(a) PROVE t[1 + j] = a[j]
    <3>1. 1 + j \in 1 .. 1 + Len(a) /\ ~ (1 + j <= 1) /\ (1 + j) - 1 = j
      BY <2>4
    <3> QED BY <2>4, <2>5, <2>6, <3>1
  <2> QED BY <2>1, <2>3, <2>5, <2>6, <2>7, <2>8
<1>3. Parts(p) \in Seq(Seq(AllChars)) /\ Len(Parts(p)) = Len(p)
  <2>1. DOMAIN Parts(p) = 1 .. Len(p)
    BY <1>1 DEF Parts
  <2>2. Parts(p) = [i \in 1 .. Len(p) |-> Parts(p)[i]]
    BY <1>1 DEF Parts
  <2>3. Parts(p) \in [1 .. Len(p) -> Seq(AllChars)]
    BY <1>2, <2>2
  <2> QED BY <1>1, <2>1, <2>3, IsASeq, LenProperties
<1> QED BY <1>2, <1>3

(* G spells p out: G[i] is the string of its first i names.                 *)
Spells(G, p) == Builds(G, Parts(p), Len(p), AllChars)

(* The string of a path is what spells it out to its end.                   *)
LEMMA StrIsSpelt ==
  ASSUME NEW p \in Paths, p # << >>
  PROVE  \E G : Spells(G, p) /\ Str(p) = G[Len(p)]
<1>1. PICK ss \in Seq(Seq(AllChars)) : ss = Parts(p)
  BY PartFacts
<1>2. Len(ss) = Len(p) /\ Len(p) # 0
  BY <1>1, PartFacts, NameFacts
<1>3. PICK G : Builds(G, ss, Len(ss), AllChars)
  BY BuildsExists
<1>4. FlattenSeq(ss) = G[Len(ss)]
  BY <1>2, <1>3, FlattenFacts
<1>5. Str(p) = FlattenSeq(ss)
  BY <1>1 DEF Str, Parts
<1> QED BY <1>1, <1>2, <1>3, <1>4, <1>5 DEF Spells

(* The i-th name is spelt out where the names before it end.                *)
SpeltAt(G, p, i) ==
  /\ Len(G[i]) \in Nat /\ Len(G[i - 1]) \in Nat
  /\ Len(G[i]) = Len(G[i - 1]) + 1 + Len(p[i])
  /\ \A k \in 1 .. Len(G[i - 1]) : G[i][k] = G[i - 1][k]
  /\ G[i][Len(G[i - 1]) + 1] = "/"
  /\ \A j \in 1 .. Len(p[i]) : G[i][Len(G[i - 1]) + 1 + j] = p[i][j]

(* One name further.                                                        *)
LEMMA SpellStep ==
  ASSUME NEW p \in Paths, NEW G, Spells(G, p), NEW i \in 1 .. Len(p)
  PROVE  SpeltAt(G, p, i)
<1>1. i \in 0 .. Len(p) /\ i - 1 \in 0 .. Len(p)
  BY NameFacts
<1>2. PICK a \in Seq(AllChars) : a = G[i - 1]
  BY <1>1 DEF Spells, Builds
<1>3. PICK b \in Seq(AllChars) : b = Parts(p)[i]
  BY PartFacts
<1>4. PICK t \in Seq(AllChars) : t = G[i]
  BY <1>1 DEF Spells, Builds
<1>5. t = a \o b
  BY <1>2, <1>3, <1>4 DEF Spells, Builds
<1>6. Len(a) \in Nat /\ Len(b) \in Nat
  BY LenProperties
<1>7. Len(t) = Len(a) + Len(b)
      /\ \A k \in 1 .. Len(a) + Len(b) : t[k] = IF k <= Len(a) THEN a[k] ELSE b[k - Len(a)]
  BY <1>5, ConcatProperties
<1>8. PICK m \in Nat : m = Len(p[i])
  BY NameFacts
<1>9. Len(b) = 1 + m /\ b[1] = "/" /\ \A j \in 1 .. m : b[1 + j] = p[i][j]
  BY <1>3, <1>8, PartFacts
<1>10. \A k \in 1 .. Len(a) : t[k] = a[k]
  BY <1>6, <1>7
<1>11. t[Len(a) + 1] = "/"
  <2>1. Len(a) + 1 \in 1 .. Len(a) + Len(b) /\ ~ (Len(a) + 1 <= Len(a)) /\ (Len(a) + 1) - Len(a) = 1
    BY <1>6, <1>9
  <2> QED BY <1>7, <1>9, <2>1
<1>12. ASSUME NEW j \in 1 .. m PROVE t[Len(a) + 1 + j] = p[i][j]
  <2>1. /\ Len(a) + 1 + j \in 1 .. Len(a) + Len(b) /\ ~ (Len(a) + 1 + j <= Len(a))
        /\ (Len(a) + 1 + j) - Len(a) = 1 + j
    BY <1>6, <1>9
  <2>2. t[Len(a) + 1 + j] = b[1 + j]
    BY <1>7, <2>1
  <2> QED BY <1>9, <2>2
<1>13. Len(t) = Len(a) + 1 + m
  BY <1>6, <1>7, <1>9
<1>14. Len(t) \in Nat
  BY LenProperties
<1>15. \A j \in 1 .. m : t[Len(a) + 1 + j] = p[i][j]
  BY <1>12
<1> QED BY <1>2, <1>4, <1>6, <1>8, <1>10, <1>11, <1>13, <1>14, <1>15, Zenon DEF SpeltAt

(* What is spelt out first stays in front.                                  *)
LEMMA SpellExtends ==
  ASSUME NEW p \in Paths, NEW G, Spells(G, p), NEW i \in 0 .. Len(p)
  PROVE  /\ G[i] \in Seq(AllChars) /\ G[Len(p)] \in Seq(AllChars) /\ Len(G[i]) <= Len(G[Len(p)])
         /\ \A k \in 1 .. Len(G[i]) : G[Len(p)][k] = G[i][k]
<1> DEFINE Ext(m) == Len(G[i]) <= Len(G[m]) /\ \A k \in 1 .. Len(G[i]) : G[m][k] = G[i][k]
           T == {d \in Nat : i + d <= Len(p) => Ext(i + d)}
<1>1. Len(p) \in Nat /\ i \in Nat
  BY NameFacts
<1>2. \A m \in 0 .. Len(p) : G[m] \in Seq(AllChars) /\ Len(G[m]) \in Nat
  BY LenProperties DEF Spells, Builds
<1>3. Ext(i)
  BY <1>2
<1>4. 0 \in T
  <2>1. i + 0 = i
    BY <1>1
  <2> HIDE DEF Ext
  <2> QED BY <1>3, <2>1
<1>5. ASSUME NEW d \in Nat, d \in T PROVE d + 1 \in T
  <2> SUFFICES ASSUME i + (d + 1) <= Len(p) PROVE Ext(i + (d + 1))
    OBVIOUS
  <2>1. PICK m \in 1 .. Len(p) : m = i + (d + 1)
    BY <1>1
  <2>2. m - 1 = i + d /\ m - 1 <= Len(p) /\ m - 1 \in 0 .. Len(p)
    BY <1>1, <2>1
  <2>3. Ext(m - 1)
    BY <1>5, <2>2
  <2>4. /\ \A k \in 1 .. Len(G[m - 1]) : G[m][k] = G[m - 1][k]
        /\ Len(G[m]) = Len(G[m - 1]) + 1 + Len(p[m])
    <3>1. SpeltAt(G, p, m)
      BY SpellStep, Zenon
    <3> QED BY <3>1, Zenon DEF SpeltAt
  <2>5. PICK x, y, z, l \in Nat : x = Len(G[i]) /\ y = Len(G[m - 1]) /\ z = Len(G[m]) /\ l = Len(p[m])
    BY <1>2, <2>2, NameFacts
  <2>6. z = y + 1 + l
    BY <2>4, <2>5
  <2>7. x <= y /\ x <= z
    <3>1. x <= y
      BY <2>3, <2>5, Zenon
    <3> QED BY <2>6, <3>1
  <2>8. ASSUME NEW k \in 1 .. x PROVE G[m][k] = G[i][k]
    <3>1. k \in 1 .. y
      BY <2>7
    <3>2. G[m - 1][k] = G[i][k]
      BY <2>3, <2>5, Zenon
    <3> QED BY <2>4, <2>5, <3>1, <3>2, Zenon
  <2>9. Ext(m)
    BY <2>5, <2>7, <2>8, Zenon
  <2> HIDE DEF Ext
  <2> QED BY <2>1, <2>9
<1>6. Nat \subseteq T
  <2> HIDE DEF T
  <2> QED BY <1>4, <1>5, SetInduction
<1>7. PICK d \in Nat : i + d = Len(p)
  <2>1. Len(p) - i \in Nat /\ i + (Len(p) - i) = Len(p)
    BY <1>1
  <2> QED BY <2>1
<1>8. Ext(Len(p))
  <2>1. d \in T
    BY <1>6
  <2>2. i + d <= Len(p)
    BY <1>1, <1>7
  <2> HIDE DEF Ext
  <2> QED BY <1>7, <2>1, <2>2
<1>9. Len(p) \in 0 .. Len(p)
  BY <1>1
<1> QED BY <1>2, <1>8, <1>9

(* The name a stands in the string s after x characters and a separator,    *)
(* and after it comes the end of s or a separator.                          *)
NameIn(s, x, a, last) ==
  /\ x \in Nat /\ Len(a) \in Nat /\ Len(s) \in Nat /\ x + 1 + Len(a) <= Len(s)
  /\ s[x + 1] = "/" /\ \A j \in 1 .. Len(a) : s[x + 1 + j] = a[j]
  /\ last => Len(s) = x + 1 + Len(a)
  /\ ~ last => x + 1 + Len(a) + 1 <= Len(s) /\ s[x + 1 + Len(a) + 1] = "/"

(* Where a name stands in the string of its path, and what follows it.      *)
LEMMA SpellFacts ==
  ASSUME NEW p \in Paths, NEW G, Spells(G, p), NEW s, s = G[Len(p)], NEW i \in 1 .. Len(p),
         NEW x, x = Len(G[i - 1]), NEW a, a = p[i]
  PROVE  NameIn(s, x, a, i = Len(p))
<1>0. SpeltAt(G, p, i)
  BY SpellStep, Zenon
<1>1. PICK l, m, n \in Nat : l = Len(G[i]) /\ m = Len(a) /\ n = Len(s)
  <2>1. Len(G[i]) \in Nat /\ Len(a) \in Nat /\ Len(p) \in Nat
    BY <1>0, NameFacts, Zenon DEF SpeltAt
  <2>2. G[Len(p)] \in Seq(AllChars)
    BY <2>1, SpellExtends
  <2>3. Len(s) \in Nat
    BY <2>2, LenProperties, Zenon
  <2> QED BY <2>1, <2>3
<1>2. x \in Nat /\ l = x + 1 + m
  BY <1>0, <1>1, Zenon DEF SpeltAt
<1>3. G[i][x + 1] = "/" /\ \A j \in 1 .. m : G[i][x + 1 + j] = a[j]
  BY <1>0, <1>1, Zenon DEF SpeltAt
<1>4. Len(p) \in Nat
  BY NameFacts
<1>5. i \in 0 .. Len(p)
  BY <1>4
<1>6. l <= n /\ \A k \in 1 .. l : s[k] = G[i][k]
  BY <1>1, <1>5, SpellExtends, Zenon
<1>7. s[x + 1] = "/"
  <2>1. x + 1 \in 1 .. l
    BY <1>2
  <2> QED BY <1>3, <1>6, <2>1, Zenon
<1>8. ASSUME NEW j \in 1 .. m PROVE s[x + 1 + j] = a[j]
  <2>1. x + 1 + j \in 1 .. l
    BY <1>2
  <2> QED BY <1>3, <1>6, <2>1, Zenon
<1>9. ASSUME i # Len(p) PROVE l + 1 <= n /\ s[l + 1] = "/"
  <2>1. PICK o \in 1 .. Len(p) : o = i + 1
    BY <1>4, <1>9
  <2>2. o - 1 = i /\ o \in 0 .. Len(p)
    BY <1>4, <2>1
  <2>0. SpeltAt(G, p, o)
    BY SpellStep, Zenon
  <2>3. PICK y, z \in Nat : y = Len(G[o]) /\ z = Len(p[o])
    BY <2>0, NameFacts, Zenon DEF SpeltAt
  <2>4. y = l + 1 + z /\ G[o][l + 1] = "/"
    <3>1. Len(G[o]) = Len(G[o - 1]) + 1 + Len(p[o]) /\ G[o][Len(G[o - 1]) + 1] = "/"
      BY <2>0, Zenon DEF SpeltAt
    <3> QED BY <1>1, <2>2, <2>3, <3>1
  <2>5. y <= n /\ \A k \in 1 .. y : s[k] = G[o][k]
    BY <1>1, <2>2, <2>3, SpellExtends, Zenon
  <2>6. l + 1 \in 1 .. y /\ l + 1 <= n
    BY <2>4, <2>5
  <2> QED BY <2>4, <2>5, <2>6, Zenon
<1>10. i = Len(p) => n = l
  BY <1>1, Zenon
<1>11. x + 1 + m <= n
  BY <1>2, <1>6
<1>12. \A j \in 1 .. m : s[x + 1 + j] = a[j]
  BY <1>8
<1>13. i # Len(p) => l + 1 <= n /\ s[l + 1] = "/"
  BY <1>9
<1> QED BY <1>1, <1>2, <1>7, <1>10, <1>11, <1>12, <1>13, Zenon DEF NameIn

(* Paths that agree on their first names are spelt alike so far.            *)
LEMMA SameSpelling ==
  ASSUME NEW w \in Paths, NEW c \in Paths, NEW W, Spells(W, w), NEW C, Spells(C, c),
         NEW n \in Nat, n <= Len(w), n <= Len(c), \A i \in 1 .. n : w[i] = c[i]
  PROVE  W[n] = C[n]
<1> DEFINE T == {m \in Nat : m <= n => W[m] = C[m]}
<1>1. Len(w) \in Nat /\ Len(c) \in Nat /\ DOMAIN w = 1 .. Len(w) /\ DOMAIN c = 1 .. Len(c)
  BY NameFacts
<1>2. 0 \in T
  BY DEF Spells, Builds
<1>3. ASSUME NEW m \in Nat, m \in T PROVE m + 1 \in T
  <2> SUFFICES ASSUME m + 1 <= n PROVE W[m + 1] = C[m + 1]
    OBVIOUS
  <2>1. PICK i \in 1 .. n : i = m + 1
    OBVIOUS
  <2>2. i \in 1 .. Len(w) /\ i \in 1 .. Len(c) /\ i - 1 = m /\ m <= n
    BY <1>1, <2>1
  <2>3. Parts(w)[i] = Parts(c)[i]
    BY <1>1, <2>2 DEF Parts
  <2>4. W[i] = W[m] \o Parts(w)[i] /\ C[i] = C[m] \o Parts(c)[i]
    BY <2>2 DEF Spells, Builds
  <2>5. W[m] = C[m]
    BY <1>3, <2>2
  <2> QED BY <2>1, <2>3, <2>4, <2>5
<1>4. Nat \subseteq T
  <2> HIDE DEF T
  <2> QED BY <1>2, <1>3, SetInduction
<1>5. n \in T /\ n <= n
  BY <1>4
<1> QED BY <1>5

(* One string or path is a prefix of another: entry by entry.               *)
LEMMA PrefixPointwise ==
  ASSUME NEW S, NEW s \in Seq(S), NEW t \in Seq(S)
  PROVE  IsPrefix(s, t) <=> Len(s) <= Len(t) /\ \A i \in 1 .. Len(s) : s[i] = t[i]
<1>1. Len(s) \in Nat /\ Len(t) \in Nat
  BY LenProperties
<1>2. SubSeq(s, 1, Len(s)) = [i \in 1 .. Len(s) |-> s[i]]
  BY <1>1
<1>3. ASSUME Len(s) <= Len(t) PROVE SubSeq(t, 1, Len(s)) = [i \in 1 .. Len(s) |-> t[i]]
  BY <1>1, <1>3
<1> DEFINE f == [i \in 1 .. Len(s) |-> s[i]]
           g == [i \in 1 .. Len(s) |-> t[i]]
<1>4. f = g <=> \A i \in 1 .. Len(s) : s[i] = t[i]
  <2>1. ASSUME f = g, NEW i \in 1 .. Len(s) PROVE s[i] = t[i]
    <3>1. f[i] = s[i] /\ g[i] = t[i]
      OBVIOUS
    <3> HIDE DEF f, g
    <3> QED BY <2>1, <3>1
  <2> QED BY <2>1
<1> HIDE DEF f, g
<1>5. IsPrefix(s, t) <=> Len(s) <= Len(t) /\ SubSeq(s, 1, Len(s)) = SubSeq(t, 1, Len(s))
  BY DEF IsPrefix
<1> QED BY <1>2, <1>3, <1>4, <1>5 DEF f, g

(* Two names at the same place of two strings, one a prefix of the other    *)
(* that ends where a name ends: neither can be longer, for its next         *)
(* character would have to be the separator.                                *)
LEMMA NamesEqual ==
  ASSUME NEW s, NEW t, NEW x, NEW a \in Seq(Chars), NEW b \in Seq(Chars), NEW la, NEW lb,
         NameIn(s, x, a, la), NameIn(t, x, b, lb), Len(s) <= Len(t),
         \A k \in 1 .. Len(s) : s[k] = t[k], Len(s) = Len(t) \/ t[Len(s) + 1] = "/"
  PROVE  a = b
<1>1. PICK m, n, y, z \in Nat : m = Len(a) /\ n = Len(b) /\ y = Len(s) /\ z = Len(t)
  BY Zenon DEF NameIn
<1>2. x \in Nat /\ x + 1 + m <= y /\ x + 1 + n <= z
  BY <1>1, Zenon DEF NameIn
<1>3. \A j \in 1 .. m : s[x + 1 + j] = a[j] /\ a[j] \in Chars
  BY <1>1, ElementOfSeq, Zenon DEF NameIn
<1>4. \A j \in 1 .. n : t[x + 1 + j] = b[j] /\ b[j] \in Chars
  BY <1>1, ElementOfSeq, Zenon DEF NameIn
<1>5. /\ la => y = x + 1 + m
      /\ ~ la => x + 1 + m + 1 <= y /\ s[x + 1 + m + 1] = "/"
  BY <1>1, Zenon DEF NameIn
<1>6. /\ lb => z = x + 1 + n
      /\ ~ lb => x + 1 + n + 1 <= z /\ t[x + 1 + n + 1] = "/"
  BY <1>1, Zenon DEF NameIn
<1>7. y <= z /\ (\A k \in 1 .. y : s[k] = t[k]) /\ (y = z \/ t[y + 1] = "/")
  BY <1>1, Zenon
<1>8. ~ (m < n)
  <2> SUFFICES ASSUME m < n PROVE FALSE
    OBVIOUS
  <2>1. m + 1 \in 1 .. n /\ x + 1 + (m + 1) = x + 1 + m + 1
    BY <1>2
  <2>2. t[x + 1 + m + 1] \in Chars
    BY <1>4, <2>1
  <2>3. CASE la
    <3>1. y = x + 1 + m /\ y # z
      BY <1>2, <1>5, <2>3
    <3> QED BY <1>7, <2>2, <3>1, NamesAssumption
  <2>4. CASE ~ la
    <3>1. x + 1 + m + 1 \in 1 .. y
      BY <1>2, <1>5, <2>4
    <3> QED BY <1>5, <1>7, <2>2, <2>4, <3>1, NamesAssumption
  <2> QED BY <2>3, <2>4
<1>9. ~ (n < m)
  <2> SUFFICES ASSUME n < m PROVE FALSE
    OBVIOUS
  <2>1. n + 1 \in 1 .. m /\ x + 1 + (n + 1) = x + 1 + n + 1
    BY <1>2
  <2>2. s[x + 1 + n + 1] \in Chars
    BY <1>3, <2>1
  <2>3. x + 1 + n + 1 \in 1 .. y
    BY <1>2
  <2>4. CASE lb
    <3>1. z < y
      BY <1>2, <1>6, <2>4
    <3> QED BY <1>7, <3>1
  <2>5. CASE ~ lb
    BY <1>6, <1>7, <2>2, <2>3, <2>5, NamesAssumption
  <2> QED BY <2>4, <2>5
<1>10. m = n
  BY <1>8, <1>9
<1>11. ASSUME NEW j \in 1 .. m PROVE a[j] = b[j]
  <2>1. x + 1 + j \in 1 .. y
    BY <1>2
  <2>2. s[x + 1 + j] = t[x + 1 + j]
    BY <1>7, <2>1
  <2> QED BY <1>3, <1>4, <1>10, <2>2
<1> QED BY <1>1, <1>10, <1>11, SeqEqual

(* So the names agree one after the other, up to the last of the watched    *)
(* path.                                                                    *)
LEMMA NamesAgree ==
  ASSUME NEW w \in Paths, NEW c \in Paths, NEW W, Spells(W, w), NEW C, Spells(C, c),
         NEW s, s = W[Len(w)], NEW t, t = C[Len(c)], Len(s) <= Len(t),
         \A k \in 1 .. Len(s) : s[k] = t[k], Len(s) = Len(t) \/ t[Len(s) + 1] = "/"
  PROVE  Len(w) <= Len(c) /\ \A i \in 1 .. Len(w) : w[i] = c[i]
<1> DEFINE T == {n \in Nat : n <= Len(w) => n <= Len(c) /\ \A i \in 1 .. n : w[i] = c[i]}
<1>1. Len(w) \in Nat /\ Len(c) \in Nat
  BY NameFacts
<1>2. 0 \in T
  BY <1>1
<1>3. ASSUME NEW n \in Nat, n \in T PROVE n + 1 \in T
  <2> SUFFICES ASSUME n + 1 <= Len(w) PROVE n + 1 <= Len(c) /\ \A i \in 1 .. n + 1 : w[i] = c[i]
    OBVIOUS
  <2>1. n <= Len(w) /\ n <= Len(c) /\ \A i \in 1 .. n : w[i] = c[i]
    BY <1>1, <1>3
  <2>2. PICK i \in 1 .. Len(w) : i = n + 1
    BY <1>1
  <2>3. i - 1 = n
    BY <2>2
  <2>4. W[n] = C[n]
    BY <2>1, SameSpelling
  <2>5. PICK x : x = Len(W[n])
    OBVIOUS
  <2>6. PICK a : a = w[i]
    OBVIOUS
  <2>7. NameIn(s, x, a, i = Len(w))
    BY <2>3, <2>5, <2>6, SpellFacts
  <2>8. n # Len(c)
    <3>1. n = Len(c) => Len(t) = x
      BY <2>4, <2>5
    <3>2. x \in Nat /\ Len(a) \in Nat /\ Len(s) \in Nat /\ x + 1 + Len(a) <= Len(s)
      BY <2>7 DEF NameIn
    <3> QED BY <3>1, <3>2
  <2>9. i \in 1 .. Len(c)
    BY <1>1, <2>1, <2>2, <2>8
  <2>10. PICK b : b = c[i]
    OBVIOUS
  <2>11. NameIn(t, x, b, i = Len(c))
    BY <2>3, <2>4, <2>5, <2>9, <2>10, SpellFacts
  <2>12. a \in Seq(Chars) /\ b \in Seq(Chars)
    BY <2>6, <2>9, <2>10, NameFacts
  <2>13. a = b
    BY <2>7, <2>11, <2>12, NamesEqual
  <2>14. w[n + 1] = c[n + 1] /\ n + 1 <= Len(c)
    BY <1>1, <2>1, <2>2, <2>6, <2>8, <2>10, <2>13
  <2>15. \A k \in 1 .. n + 1 : k \in 1 .. n \/ k = n + 1
    OBVIOUS
  <2> QED BY <2>1, <2>14, <2>15
<1>4. Nat \subseteq T
  <2> HIDE DEF T
  <2> QED BY <1>2, <1>3, SetInduction
<1>5. Len(w) \in T /\ Len(w) <= Len(w)
  BY <1>1, <1>4
<1> QED BY <1>5

(* The string of a path other than the root: its last character is one of   *)
(* a name's, and there are at least two.                                    *)
LEMMA StrFacts ==
  ASSUME NEW p \in Paths, NEW G, Spells(G, p), p # << >>, NEW s, s = G[Len(p)]
  PROVE  /\ s \in Seq(AllChars) /\ Len(s) \in Nat /\ Len(s) >= 2 /\ s[1] = "/" /\ s[Len(s)] # "/"
<1>1. PICK n \in Nat : n = Len(p) /\ n # 0
  BY NameFacts
<1>2. n \in 1 .. n /\ 1 \in 1 .. n /\ n \in 0 .. n /\ 1 - 1 = 0
  BY <1>1
<1>3. s \in Seq(AllChars)
  BY <1>1, <1>2, SpellExtends
<1>4. s[1] = "/"
  <2>1. PICK a : a = p[1]
    OBVIOUS
  <2>2. PICK x : x = Len(G[0])
    OBVIOUS
  <2>3. x = 0
    BY <2>2 DEF Spells, Builds
  <2>4. NameIn(s, x, a, 1 = Len(p))
    BY <1>1, <1>2, <2>1, <2>2, SpellFacts
  <2> QED BY <2>3, <2>4 DEF NameIn
<1>5. PICK a : a = p[n]
  OBVIOUS
<1>6. PICK x : x = Len(G[n - 1])
  OBVIOUS
<1>7. NameIn(s, x, a, n = Len(p))
  BY <1>1, <1>2, <1>5, <1>6, SpellFacts
<1>8. PICK m \in Nat : m = Len(a) /\ m # 0 /\ a \in Seq(Chars)
  BY <1>1, <1>2, <1>5, NameFacts
<1>9. x \in Nat /\ Len(s) = x + 1 + m /\ \A j \in 1 .. m : s[x + 1 + j] = a[j]
  BY <1>1, <1>7, <1>8 DEF NameIn
<1>10. m \in 1 .. m
  BY <1>8
<1>11. a[m] \in Chars
  BY <1>8, <1>10, ElementOfSeq
<1>12. s[Len(s)] = a[m]
  BY <1>9, <1>10
<1>13. s[Len(s)] # "/"
  BY <1>11, <1>12, NamesAssumption
<1>14. Len(s) \in Nat /\ Len(s) >= 2
  BY <1>8, <1>9
<1> QED BY <1>3, <1>4, <1>13, <1>14

(* The string comparison of emit_on_monitors decides "the same folder or    *)
(* one above it".                                                           *)
LEMMA ComparesAsPaths ==
  ASSUME NEW w \in Paths, NEW c \in Paths
  PROVE  Matches(w, c) <=> IsPrefix(w, c)
<1>1. Len(w) \in Nat /\ Len(c) \in Nat /\ (w = << >> <=> Len(w) = 0) /\ (c = << >> <=> Len(c) = 0)
  BY NameFacts
<1>2. IsPrefix(w, c) <=> Len(w) <= Len(c) /\ \A i \in 1 .. Len(w) : w[i] = c[i]
  <2>1. w \in Seq(Seq(Chars)) /\ c \in Seq(Seq(Chars))
    BY NamesAssumption
  <2> QED BY <2>1, PrefixPointwise
<1>3. PICK s, t : s = Str(w) /\ t = Str(c)
  OBVIOUS
<1>4. Matches(w, c) <=> s = t \/ (IsPrefix(s, t) /\ s # t /\ (s[Len(s)] = "/" \/ t[Len(s) + 1] = "/"))
  BY <1>3 DEF Matches, IsStrictPrefix
<1>5. PICK root \in Seq(AllChars) : root = <<"/">> /\ Len(root) = 1 /\ root[1] = "/"
  <2>1. "/" \in AllChars
    BY DEF AllChars
  <2>2. <<"/">> \in Seq(AllChars)
    BY <2>1, OneCharString
  <2> QED BY <2>2
<1>6. CASE w = << >> /\ c = << >>
  <2>1. s = t
    BY <1>3, <1>6
  <2>2. IsPrefix(w, c)
    BY <1>1, <1>2, <1>6
  <2> QED BY <1>4, <2>1, <2>2
<1>7. CASE w = << >> /\ c # << >>
  <2>1. PICK C : Spells(C, c) /\ t = C[Len(c)]
    BY <1>3, <1>7, StrIsSpelt
  <2>2. t \in Seq(AllChars) /\ Len(t) \in Nat /\ Len(t) >= 2 /\ t[1] = "/"
    BY <1>7, <2>1, StrFacts
  <2>3. s = root
    BY <1>3, <1>5, <1>7 DEF Str
  <2>4. Len(root) <= Len(t) /\ root # t /\ \A i \in 1 .. Len(root) : root[i] = t[i]
    BY <1>5, <2>2
  <2>5. IsPrefix(root, t)
    BY <2>2, <2>4, PrefixPointwise
  <2>6. IsPrefix(w, c)
    BY <1>1, <1>2, <1>7
  <2> QED BY <1>4, <1>5, <2>3, <2>4, <2>5, <2>6
<1>8. CASE w # << >> /\ c = << >>
  <2>1. PICK W : Spells(W, w) /\ s = W[Len(w)]
    BY <1>3, <1>8, StrIsSpelt
  <2>2. s \in Seq(AllChars) /\ Len(s) \in Nat /\ Len(s) >= 2
    BY <1>8, <2>1, StrFacts
  <2>3. t = root
    BY <1>3, <1>5, <1>8 DEF Str
  <2>4. ~ (Len(s) <= Len(root)) /\ s # root
    <3>1. PICK n \in Nat : n = Len(s) /\ n >= 2
      BY <2>2
    <3>2. PICK k \in Nat : k = Len(root) /\ k = 1
      BY <1>5
    <3>3. ~ (n <= k) /\ n # k
      BY <3>1, <3>2
    <3> QED BY <3>1, <3>2, <3>3, Zenon
  <2>5. ~ IsPrefix(s, root)
    BY <2>2, <2>4, PrefixPointwise
  <2>6. ~ IsPrefix(w, c)
    BY <1>1, <1>2, <1>8
  <2> QED BY <1>4, <2>3, <2>4, <2>5, <2>6
<1>9. CASE w # << >> /\ c # << >>
  <2>1. PICK W : Spells(W, w) /\ s = W[Len(w)]
    BY <1>3, <1>9, StrIsSpelt
  <2>2. PICK C : Spells(C, c) /\ t = C[Len(c)]
    BY <1>3, <1>9, StrIsSpelt
  <2>3. /\ s \in Seq(AllChars) /\ Len(s) \in Nat /\ s[Len(s)] # "/"
        /\ t \in Seq(AllChars) /\ Len(t) \in Nat
    BY <1>9, <2>1, <2>2, StrFacts
  <2>4. IsPrefix(s, t) <=> Len(s) <= Len(t) /\ \A k \in 1 .. Len(s) : s[k] = t[k]
    BY <2>3, PrefixPointwise
  <2>5. ASSUME Matches(w, c) PROVE IsPrefix(w, c)
    <3>1. Len(s) <= Len(t) /\ (\A k \in 1 .. Len(s) : s[k] = t[k])
          /\ (Len(s) = Len(t) \/ t[Len(s) + 1] = "/")
      <4>1. CASE s = t
        BY <2>3, <4>1
      <4>2. CASE s # t
        BY <1>4, <2>3, <2>4, <2>5, <4>2
      <4> QED BY <4>1, <4>2
    <3>2. Len(w) <= Len(c) /\ \A i \in 1 .. Len(w) : w[i] = c[i]
      BY <2>1, <2>2, <3>1, NamesAgree
    <3> QED BY <1>2, <3>2
  <2>6. ASSUME IsPrefix(w, c) PROVE Matches(w, c)
    <3>1. PICK n \in Nat : n = Len(w) /\ n # 0 /\ n <= Len(c)
      BY <1>1, <1>2, <1>9, <2>6
    <3>2. \A i \in 1 .. n : w[i] = c[i]
      BY <1>2, <2>6, <3>1
    <3>3. W[n] = C[n]
      <4>1. n <= Len(w)
        BY <3>1
      <4> QED BY <2>1, <2>2, <3>1, <3>2, <4>1, SameSpelling
    <3>4. s = C[n]
      BY <2>1, <3>1, <3>3
    <3>5. n \in 0 .. Len(c) /\ n \in 1 .. Len(c)
      BY <1>1, <3>1
    <3>6. Len(s) <= Len(t) /\ \A k \in 1 .. Len(s) : t[k] = s[k]
      BY <2>2, <3>4, <3>5, SpellExtends, Zenon
    <3>7. IsPrefix(s, t)
      BY <2>4, <3>6
    <3>8. CASE n = Len(c)
      BY <1>4, <2>2, <3>4, <3>8
    <3>9. CASE n # Len(c)
      <4>1. PICK x, a : x = Len(C[n - 1]) /\ a = c[n]
        OBVIOUS
      <4>2. NameIn(t, x, a, n = Len(c))
        BY <2>2, <3>5, <4>1, SpellFacts
      <4>3. t[x + 1 + Len(a) + 1] = "/"
        BY <3>9, <4>2, Zenon DEF NameIn
      <4>4. SpeltAt(C, c, n)
        BY <2>2, <3>5, SpellStep, Zenon
      <4>5. Len(s) = x + 1 + Len(a)
        BY <3>4, <4>1, <4>4, Zenon DEF SpeltAt
      <4>6. t[Len(s) + 1] = "/"
        BY <4>3, <4>5, Zenon
      <4> QED BY <1>4, <3>7, <4>6
    <3> QED BY <3>8, <3>9
  <2> QED BY <2>5, <2>6
<1> QED BY <1>6, <1>7, <1>8, <1>9

-----------------------------------------------------------------------------
(* What m may be told.                                                      *)
Own(m, e) ==
  /\ IsPrefix(path[m], e.path)
  /\ events[e.event].path = NoPath => e.path = path[m] /\ e.type = "changed"
  /\ events[e.event].path # NoPath => e.path = events[e.event].path
                                      /\ e.type = events[e.event].type

(* A path is a prefix of itself.                                            *)
LEMMA PrefixOfItself ==
  ASSUME NEW p \in Paths
  PROVE  IsPrefix(p, p)
<1> QED BY DEF IsPrefix

(* Emissions never speak of more than the notice, and never to others.      *)
LEMMA OwnTreeNext ==
  ASSUME MonitorInv, OnlyOwnTree, [Next]_vars
  PROVE  OnlyOwnTree'
<1>0. TypeOK /\ ArrayInv
  BY DEF MonitorInv
<1>1. path' = path
  BY DEF Next, vars, arrayVars, eventVars, AddBegin, AddEnd, MonitorGone, RaceFault, PollEvents,
         EmitOne, EmitDone, Finalize
<1>2. \A m \in Monitors : \A e \in Emitted(m) :
        e \in EmissionType(Len(events)) /\ e.event \in 1 .. Len(events) /\ Own(m, e)
  <2> SUFFICES ASSUME NEW m \in Monitors, NEW e \in Emitted(m)
               PROVE  e \in EmissionType(Len(events)) /\ e.event \in 1 .. Len(events) /\ Own(m, e)
    OBVIOUS
  <2>1. emitted[m] \in Seq(EmissionType(Len(events)))
    BY <1>0 DEF TypeOK, EmissionType
  <2>2. e \in EmissionType(Len(events))
    BY <2>1 DEF Emitted, Range
  <2> QED BY <2>2 DEF EmissionType, OnlyOwnTree, Own
<1>3. CASE EmitOne
  <2> SUFFICES ASSUME NEW m \in Monitors, NEW e \in Emitted(m)'
               PROVE  Own(m, e)
    BY <1>1, <1>3 DEF OnlyOwnTree, Own, EmitOne
  <2>1. CASE emitted'[m] = emitted[m]
    BY <1>2, <2>1 DEF Emitted
  <2>2. CASE \E x \in EmissionType(Len(events)) :
                /\ emitted'[m] = Append(emitted[m], x) /\ x.event = pos
                /\ events[pos].path = NoPath => x.path = path[m] /\ x.type = "changed"
                /\ events[pos].path # NoPath =>
                     /\ x.path = events[pos].path /\ x.type = events[pos].type
                     /\ Matches(path[m], events[pos].path)
    <3>1. PICK x \in EmissionType(Len(events)) :
                /\ emitted'[m] = Append(emitted[m], x) /\ x.event = pos
                /\ events[pos].path = NoPath => x.path = path[m] /\ x.type = "changed"
                /\ events[pos].path # NoPath =>
                     /\ x.path = events[pos].path /\ x.type = events[pos].type
                     /\ Matches(path[m], events[pos].path)
      BY <2>2
    <3>2. emitted[m] \in Seq(EmissionType(Len(events)))
      BY <1>0 DEF TypeOK, EmissionType
    <3>3. e \in Emitted(m) \/ e = x
      BY <3>1, <3>2, AppendProperties DEF Emitted, Range
    <3>4. Own(m, x)
      <4>1. path[m] \in Paths /\ x.path \in Paths
        BY <1>0 DEF TypeOK, EmissionType
      <4>2. IsPrefix(path[m], x.path)
        BY <3>1, <4>1, PrefixOfItself, ComparesAsPaths
      <4> QED BY <3>1, <4>2 DEF Own
    <3> QED BY <1>2, <3>3, <3>4
  <2> QED BY <1>0, <1>3, <2>1, <2>2, EmitFacts
<1>4. CASE PollEvents
  <2>1. \A i \in 1 .. Len(events) : events'[i] = events[i]
    <3>1. PICK k \in 1 .. MaxEvents - Len(events) : \E batch \in [1 .. k -> Sent] :
            events' = events \o batch
      BY <1>4 DEF PollEvents
    <3>2. PICK batch \in [1 .. k -> Sent] : events' = events \o batch
      BY <3>1
    <3>3. events \in Seq(Notices) /\ Len(events) \in Nat
      BY <1>0 DEF TypeOK
    <3>4. k \in Nat
      BY <3>3, MaxEventsAssumption
    <3>5. batch \in Seq(Sent)
      BY <3>4
    <3>6. events \in Seq(Notices \cup Sent) /\ batch \in Seq(Notices \cup Sent)
      BY <3>3, <3>5
    <3> QED BY <3>2, <3>3, <3>6, ConcatProperties
  <2>2. emitted' = emitted
    BY <1>4 DEF PollEvents
  <2>3. \A m \in Monitors : Emitted(m)' = Emitted(m)
    BY <2>2 DEF Emitted
  <2> QED BY <1>1, <1>2, <2>1, <2>3 DEF OnlyOwnTree, Own
<1>5. CASE UNCHANGED <<emitted, events>>
  BY <1>1, <1>5 DEF OnlyOwnTree, Emitted
<1>6. EmitOne \/ PollEvents \/ UNCHANGED <<emitted, events>>
  BY DEF Next, vars, arrayVars, eventVars, AddBegin, AddEnd, MonitorGone, RaceFault, EmitDone,
         Finalize
<1> QED BY <1>3, <1>4, <1>5, <1>6

(* Nobody is told of what lies outside its own tree, nor more than is known *)
(* of what changed: the emissions of emit_on_monitors, which compares paths *)
(* as strings.                                                              *)
THEOREM ToldOfOwnTreeOnly == Spec => []OnlyOwnTree
<1>1. Init => OnlyOwnTree
  BY DEF Init, OnlyOwnTree, Emitted, Range
<1>2. MonitorInv /\ OnlyOwnTree /\ [Next]_vars => OnlyOwnTree'
  BY OwnTreeNext
<1> QED BY <1>1, <1>2, MonitorInvariant, PTL DEF Spec

(* A monitor added alone whose place is behind the cursor at the end of a   *)
(* round has been told of the notice, if it is concerned.                   *)
LEMMA RoundTells ==
  ASSUME MonitorInv, [Next]_vars, pos' # pos, NEW m \in audience,
         Concerns(m, events[pos])
  PROVE  \E e \in Emitted(m) : e.event = pos
<1>0. TypeOK
  BY DEF MonitorInv
<1>1. EmitDone
  BY DEF Next, vars, arrayVars, eventVars, AddBegin, AddEnd, MonitorGone, RaceFault, PollEvents,
         EmitOne, Finalize
<1>2. up /\ Dispatching /\ cursor > len /\ len \in Nat /\ len <= Len(array) /\ cursor \in Nat
      /\ Len(array) \in Nat
  BY <1>0, <1>1 DEF EmitDone, TypeOK
<1>3. events[pos] \in Notices /\ m \in Monitors /\ path[m] \in Paths
  BY <1>0, <1>2 DEF TypeOK, Dispatching
<1>4. Sees(m, events[pos])
  <2>1. events[pos].path \in Paths \cup {NoPath}
    BY <1>3 DEF Notices
  <2> QED BY <1>3, <2>1, ComparesAsPaths DEF Concerns, Sees
<1>5. m \in Audience
  BY <1>2 DEF MonitorInv, ToldInv
<1>6. PICK i \in 1 .. len : array[i].monitor = m
  BY <1>2, <1>5 DEF MonitorInv, PlacedInv
<1>7. i \in 1 .. Len(array) /\ i < cursor
  BY <1>2
<1>8. HasBeenTold(m)
  BY <1>2, <1>4, <1>6, <1>7 DEF MonitorInv, ToldInv
<1>9. PICK k \in 1 .. Len(emitted[m]) : emitted[m][k].event = pos
  BY <1>8 DEF HasBeenTold
<1>10. DOMAIN emitted[m] = 1 .. Len(emitted[m])
  BY <1>0, <1>3 DEF TypeOK
<1> QED BY <1>9, <1>10 DEF Emitted, Range

(* No monitor in place is passed over: by the time poll_events_cb is done   *)
(* with a notice everyone concerned has been told, though job threads add   *)
(* to the array during the round -- those excepted that were added while    *)
(* another was.                                                             *)
THEOREM NobodyPassedOver == Spec => EveryWatcherTold
<1>1. MonitorInv /\ [Next]_vars =>
        [pos' # pos => \A m \in audience :
           Concerns(m, events[pos]) => \E e \in Emitted(m) : e.event = pos]_vars
  BY RoundTells
<1> QED BY <1>1, MonitorInvariant, PTL DEF Spec, EveryWatcherTold
=============================================================================
