------------------------ MODULE BackendDaemonProofs -------------------------
(***************************************************************************)
(* What a spawned gvfsd-proton tells its spawner, for any number of        *)
(* processes after one bus name.  SuccessStands speaks of what the spawner *)
(* has heard of a process that is gone; the invariant follows each report  *)
(* from the bus's answer through send_spawned to the spawner.              *)
(***************************************************************************)
EXTENDS BackendDaemon, SequenceTheorems, TLAPS

(* q is in the queue s, behind the owner.                                   *)
Waits(s, q) == \E i \in 2 .. Len(s) : s[i] = q

Distinct(s) == \A i, j \in 1 .. Len(s) : s[i] = s[j] => i = j

(* The bus answers a claim at most twice and tells of the end once.         *)
Queue == {<< >>, <<"queued">>}
Open == Queue \cup {<<"acquired">>, <<"queued", "acquired">>}
Closed == {<<"closed">>, <<"queued", "closed">>, <<"acquired", "closed">>,
           <<"queued", "acquired", "closed">>}

(* A process in the queue has not been told that it owns the name.          *)
BusInv ==
  /\ Distinct(names)
  /\ \A p \in Procs :
       /\ phase[p] = "starting" => inbox[p] = << >> /\ p \notin Range(names)
       /\ inbox[p] \in Open \cup Closed
       /\ p \in Range(names) => inbox[p] \in Open
       /\ Waits(names, p) => inbox[p] \in Queue

(* send_spawned was called with FALSE and got its proxy.                    *)
FailureSent(p) == FALSE \in Range(awaiting[p]) \/ reason[p] = "failed"

SuccessSent(p) == TRUE \in Range(told[p]) \/ TRUE \in Range(mail[p])

(* Success is the last report, and a failure sent before is heard before.   *)
ReportInv(p) ==
  /\ phase[p] = "starting" \/ (phase[p] = "exited" /\ reason[p] = "none") =>
       told[p] = << >> /\ mail[p] = << >>
  /\ phase[p] = "quitting" => reason[p] # "none"
  /\ SuccessSent(p) => ~ Waits(names, p) /\ inbox[p] \in {<< >>, <<"closed">>}
  /\ \A i \in 1 .. Len(mail[p]) - 1 : mail[p][i] = FALSE
  /\ ~ spawnerUp => mail[p] = << >>
  /\ FailureSent(p) =>
       /\ spawnerUp => FALSE \in Range(told[p]) \cup Range(mail[p])
       /\ TRUE \in Range(told[p]) => FALSE \in Range(told[p])
       /\ TRUE \in Range(mail[p]) => FALSE \in Range(told[p]) \/ mail[p][1] = FALSE

DaemonInv == TypeOK /\ BusInv /\ \A p \in Spawned : ReportInv(p)

-----------------------------------------------------------------------------
(* Sequences.                                                               *)

(* Appending adds one element, at the end.                                  *)
LEMMA AppendFacts ==
  ASSUME NEW S, NEW s \in Seq(S), NEW e \in S
  PROVE  /\ Append(s, e) \in Seq(S) /\ Append(s, e) # << >>
         /\ Len(Append(s, e)) = Len(s) + 1
         /\ \A i \in 1 .. Len(s) : Append(s, e)[i] = s[i]
         /\ Append(s, e)[Len(s) + 1] = e
         /\ Range(Append(s, e)) = Range(s) \cup {e}
<1>1. /\ Append(s, e) \in Seq(S) /\ Append(s, e) # << >> /\ Len(Append(s, e)) = Len(s) + 1
      /\ \A i \in 1 .. Len(s) : Append(s, e)[i] = s[i]
      /\ Append(s, e)[Len(s) + 1] = e
  OBVIOUS
<1>2. /\ DOMAIN Append(s, e) = 1 .. Len(s) + 1 /\ DOMAIN s = 1 .. Len(s) /\ Len(s) \in Nat
  BY <1>1
<1>3. Range(Append(s, e)) = Range(s) \cup {e}
  BY <1>1, <1>2 DEF Range
<1> QED BY <1>1, <1>3

(* The first element and the rest.                                          *)
LEMMA TailFacts ==
  ASSUME NEW S, NEW s \in Seq(S), s # << >>
  PROVE  /\ Head(s) \in S /\ Head(s) = s[1] /\ Tail(s) \in Seq(S)
         /\ Len(s) \in Nat /\ Len(s) >= 1 /\ Len(Tail(s)) = Len(s) - 1
         /\ \A i \in 1 .. Len(s) - 1 : Tail(s)[i] = s[i + 1]
         /\ Range(s) = {Head(s)} \cup Range(Tail(s))
<1>1. /\ Head(s) \in S /\ Head(s) = s[1] /\ Tail(s) \in Seq(S)
      /\ Len(s) \in Nat /\ Len(s) >= 1 /\ Len(Tail(s)) = Len(s) - 1
      /\ \A i \in 1 .. Len(s) - 1 : Tail(s)[i] = s[i + 1]
  OBVIOUS
<1>2. DOMAIN s = 1 .. Len(s) /\ DOMAIN Tail(s) = 1 .. Len(s) - 1
  BY <1>1
<1>3. Range(s) \subseteq {Head(s)} \cup Range(Tail(s))
  <2> SUFFICES ASSUME NEW i \in 1 .. Len(s) PROVE s[i] \in {Head(s)} \cup Range(Tail(s))
    BY <1>2 DEF Range
  <2>1. CASE i = 1
    BY <1>1, <2>1
  <2>2. CASE i # 1
    <3>1. i - 1 \in 1 .. Len(s) - 1 /\ Tail(s)[i - 1] = s[i]
      BY <1>1, <2>2
    <3> QED BY <1>2, <3>1 DEF Range
  <2> QED BY <2>1, <2>2
<1>4. {Head(s)} \cup Range(Tail(s)) \subseteq Range(s)
  BY <1>1, <1>2 DEF Range
<1> QED BY <1>1, <1>3, <1>4

(* Taking an element out of a queue without repetitions: the others keep    *)
(* their order, and only the second can become first.                       *)
LEMMA RemoveFacts ==
  ASSUME NEW S, NEW s \in Seq(S), Distinct(s), NEW e \in S
  PROVE  LET r == RemoveFirst(s, e)
         IN  /\ r \in Seq(S) /\ Distinct(r) /\ Range(r) = Range(s) \ {e}
             /\ \A q : Waits(r, q) => Waits(s, q)
             /\ s # << >> /\ Head(s) = e /\ r # << >> =>
                  /\ Head(r) \in S \ {e} /\ Head(r) \in Range(r)
                  /\ Waits(s, Head(r)) /\ ~ Waits(r, Head(r))
<1>1. CASE ~ \E i \in 1 .. Len(s) : s[i] = e
  <2>1. RemoveFirst(s, e) = s
    BY <1>1 DEF RemoveFirst
  <2>2. e \notin Range(s)
    BY <1>1 DEF Range
  <2>3. s = << >> \/ Head(s) # e
    BY <1>1
  <2> QED BY <2>1, <2>2, <2>3
<1>2. CASE \E i \in 1 .. Len(s) : s[i] = e
  <2>1. PICK i \in 1 .. Len(s) : s[i] = e
    BY <1>2
  <2>2. {j \in 1 .. Len(s) : s[j] = e} = {i}
    BY <2>1 DEF Distinct
  <2>3. Min({i}) = i
    BY <2>1 DEF Min
  <2>4. SelectInSeq(s, LAMBDA v : v = e) = i
    BY <2>2, <2>3 DEF SelectInSeq
  <2> DEFINE r == SubSeq(s, 1, i - 1) \o SubSeq(s, i + 1, Len(s))
  <2>5. RemoveFirst(s, e) = r
    BY <1>2, <2>4 DEF RemoveFirst, RemoveAt
  <2>6. /\ r \in Seq(S) /\ Len(r) = Len(s) - 1 /\ Len(s) \in Nat
        /\ \A j \in 1 .. Len(s) - 1 : r[j] = IF j < i THEN s[j] ELSE s[j + 1]
    <3> DEFINE a == SubSeq(s, 1, i - 1)
               b == SubSeq(s, i + 1, Len(s))
    <3>1. /\ a \in Seq(S) /\ Len(a) = i - 1 /\ \A j \in 1 .. i - 1 : a[j] = s[j]
      BY <2>1
    <3>2. /\ b \in Seq(S) /\ Len(b) = Len(s) - i
          /\ \A j \in 1 .. Len(s) - i : b[j] = s[i + j]
      BY <2>1
    <3> HIDE DEF a, b
    <3>3. /\ a \o b \in Seq(S) /\ Len(a \o b) = Len(a) + Len(b)
          /\ \A j \in 1 .. Len(a) + Len(b) :
               (a \o b)[j] = IF j <= Len(a) THEN a[j] ELSE b[j - Len(a)]
      BY <3>1, <3>2, ConcatProperties
    <3>4. r = a \o b
      BY DEF a, b
    <3> HIDE DEF r
    <3>5. ASSUME NEW j \in 1 .. Len(s) - 1 PROVE r[j] = IF j < i THEN s[j] ELSE s[j + 1]
      <4>1. j \in 1 .. Len(a) + Len(b) /\ (j <= Len(a) <=> j < i)
        BY <2>1, <3>1, <3>2
      <4>2. CASE j < i
        BY <3>1, <3>3, <3>4, <4>1, <4>2
      <4>3. CASE ~ j < i
        <5>1. j - Len(a) \in 1 .. Len(s) - i /\ i + (j - Len(a)) = j + 1
          BY <2>1, <3>1, <4>3
        <5>2. r[j] = b[j - Len(a)]
          BY <3>3, <3>4, <4>1, <4>3
        <5> QED BY <3>2, <4>3, <5>1, <5>2
      <4> QED BY <4>2, <4>3
    <3>6. Len(r) = Len(s) - 1 /\ Len(s) \in Nat
      BY <2>1, <3>1, <3>2, <3>3, <3>4
    <3> QED BY <3>3, <3>4, <3>5, <3>6
  <2> HIDE DEF r
  <2>7. Distinct(r)
    BY <2>6 DEF Distinct
  <2>8. \A q : Waits(r, q) => Waits(s, q)
    <3> SUFFICES ASSUME NEW j \in 2 .. Len(r) PROVE \E k \in 2 .. Len(s) : s[k] = r[j]
      BY DEF Waits
    <3>1. j \in 2 .. Len(s) /\ j + 1 \in 2 .. Len(s) /\ r[j] \in {s[j], s[j + 1]}
      BY <2>1, <2>6
    <3> QED BY <3>1
  <2>9. Range(r) = Range(s) \ {e}
    <3>1. \A j \in 1 .. Len(r) : r[j] \in Range(s) \ {e}
      BY <2>1, <2>6 DEF Range, Distinct
    <3>2. ASSUME NEW j \in 1 .. Len(s), s[j] # e PROVE s[j] \in Range(r)
      <4>1. CASE j < i
        <5>1. j \in 1 .. Len(r) /\ r[j] = s[j]
          BY <2>1, <2>6, <4>1
        <5> QED BY <2>6, <5>1 DEF Range
      <4>2. CASE j > i
        <5>1. j - 1 \in 1 .. Len(r) /\ r[j - 1] = s[j]
          BY <2>1, <2>6, <4>2
        <5> QED BY <2>6, <5>1 DEF Range
      <4> QED BY <2>1, <3>2, <4>1, <4>2
    <3> QED BY <2>6, <3>1, <3>2 DEF Range
  <2>10. ASSUME Head(s) = e, r # << >>
         PROVE  /\ Head(r) \in S \ {e} /\ Head(r) \in Range(r)
                /\ Waits(s, Head(r)) /\ ~ Waits(r, Head(r))
    <3>1. i = 1 /\ Len(s) >= 2 /\ Head(r) = s[2] /\ Head(r) = r[1] /\ s[2] \in S
      BY <2>1, <2>6, <2>10 DEF Distinct
    <3>2. s[2] # e
      BY <2>1, <3>1 DEF Distinct
    <3>3. Head(r) \in Range(r)
      BY <2>6, <3>1 DEF Range
    <3> QED BY <2>6, <2>7, <3>1, <3>2, <3>3 DEF Waits, Distinct
  <2> QED BY <2>5, <2>6, <2>7, <2>8, <2>9, <2>10
<1> QED BY <1>1, <1>2

-----------------------------------------------------------------------------
(* Types.                                                                   *)
Notices == {"acquired", "queued", "closed"}

(* p leaves the bus: the queue keeps its order, and only a process that     *)
(* waited right behind p hears that it owns the name.                       *)
LEMMA ReleaseFacts ==
  ASSUME TypeOK, Distinct(names), NEW p \in Procs,
         NEW boxes \in [Procs -> Seq(Notices)], ReleaseName(boxes, p)
  PROVE  /\ names' \in Seq(Procs) /\ Distinct(names') /\ Range(names') = Range(names) \ {p}
         /\ \A q : Waits(names', q) => Waits(names, q)
         /\ inbox' \in [Procs -> Seq(Notices)]
         /\ \A q \in Procs :
              \/ inbox'[q] = boxes[q]
              \/ /\ q # p /\ Waits(names, q) /\ ~ Waits(names', q) /\ q \in Range(names')
                 /\ inbox'[q] = Append(boxes[q], "acquired")
<1> DEFINE r == RemoveFirst(names, p)
<1>1. /\ r \in Seq(Procs) /\ Distinct(r) /\ Range(r) = Range(names) \ {p}
      /\ \A q : Waits(r, q) => Waits(names, q)
      /\ names # << >> /\ Head(names) = p /\ r # << >> =>
           /\ Head(r) \in Procs \ {p} /\ Head(r) \in Range(r)
           /\ Waits(names, Head(r)) /\ ~ Waits(r, Head(r))
  BY RemoveFacts DEF TypeOK
<1>2. /\ names' = r
      /\ inbox' = IF names # << >> /\ Head(names) = p /\ r # << >>
                  THEN [boxes EXCEPT ![Head(r)] = Append(@, "acquired")]
                  ELSE boxes
  BY DEF ReleaseName
<1> HIDE DEF r
<1>3. \A q \in Procs : Append(boxes[q], "acquired") \in Seq(Notices)
  BY AppendFacts DEF Notices
<1>4. CASE names # << >> /\ Head(names) = p /\ r # << >>
  BY <1>1, <1>2, <1>3, <1>4
<1>5. CASE ~ (names # << >> /\ Head(names) = p /\ r # << >>)
  BY <1>1, <1>2, <1>5
<1> QED BY <1>4, <1>5

(* Leaving the main loop.                                                   *)
LEMMA QuitType ==
  ASSUME TypeOK, NEW p \in Procs, NEW why \in Reasons, Quit(p, why)
  PROVE  phase' \in [Procs -> Phases] /\ reason' \in [Procs -> Reasons]
BY DEF TypeOK, Quit, Phases

(* What send_spawned and its callback may change.                           *)
LEMMA SendType ==
  ASSUME TypeOK, NEW p \in Procs, NEW success \in BOOLEAN,
         SendSpawned(p, success) \/ (SpawnedCallback(p, success) /\ UNCHANGED <<mail, unsent>>
                                     /\ awaiting' \in [Procs -> Seq(BOOLEAN)])
  PROVE  /\ mail' \in [Procs -> Seq(BOOLEAN)] /\ awaiting' \in [Procs -> Seq(BOOLEAN)]
         /\ unsent' \subseteq Procs /\ result' \in [Procs -> 0 .. 1]
         /\ phase' \in [Procs -> Phases] /\ mounting' \in [Procs -> BOOLEAN]
         /\ reason' \in [Procs -> Reasons]
<1>1. ASSUME SpawnedCallback(p, success)
      PROVE  /\ result' \in [Procs -> 0 .. 1] /\ phase' \in [Procs -> Phases]
             /\ mounting' \in [Procs -> BOOLEAN] /\ reason' \in [Procs -> Reasons]
  <2>1. "failed" \in Reasons
    BY DEF Reasons
  <2>2. CASE Quit(p, "failed") /\ result' = [result EXCEPT ![p] = 1] /\ UNCHANGED mounting
    <3>1. result' \in [Procs -> 0 .. 1]
      BY <2>2 DEF TypeOK
    <3> QED BY <2>1, <2>2, <3>1, QuitType DEF TypeOK
  <2>3. CASE /\ mounting' = [mounting EXCEPT ![p] = @ \/ HasMountSpec(p)]
             /\ UNCHANGED <<result, phase, reason>>
    BY <2>3 DEF TypeOK, HasMountSpec
  <2> QED BY <1>1, <2>2, <2>3 DEF SpawnedCallback
<1>2. \A m \in Seq(BOOLEAN) : Append(m, success) \in Seq(BOOLEAN)
  BY AppendFacts
<1>3. CASE SendSpawned(p, success)
  <2>1. CASE SpawnedCallback(p, success) /\ UNCHANGED reports
    BY <1>1, <2>1 DEF TypeOK, reports
  <2>2. CASE /\ mail' = [mail EXCEPT ![p] = IF spawnerUp THEN Append(@, success) ELSE @]
             /\ awaiting' = [awaiting EXCEPT ![p] = Append(@, success)]
             /\ UNCHANGED <<unsent, result, phase, mounting, reason>>
    <3>1. /\ mail[p] \in Seq(BOOLEAN) /\ Append(mail[p], success) \in Seq(BOOLEAN)
          /\ Append(awaiting[p], success) \in Seq(BOOLEAN)
      BY <1>2 DEF TypeOK
    <3>2. mail' \in [Procs -> Seq(BOOLEAN)]
      BY <2>2, <3>1 DEF TypeOK
    <3>3. awaiting' \in [Procs -> Seq(BOOLEAN)]
      BY <2>2, <3>1 DEF TypeOK
    <3> QED BY <2>2, <3>2, <3>3 DEF TypeOK
  <2>3. CASE /\ unsent' = unsent \cup {p}
             /\ UNCHANGED <<mail, awaiting, result, phase, mounting, reason>>
    BY <2>3 DEF TypeOK
  <2> QED BY <1>3, <2>1, <2>2, <2>3 DEF SendSpawned
<1> QED BY <1>1, <1>3 DEF TypeOK

(* The main loop takes the first notice of the bus.                         *)
LEMMA ToldType ==
  ASSUME TypeOK, NEW p \in Procs, NEW what, Told(p, what)
  PROVE  inbox' \in [Procs -> Seq(Notices)]
<1>1. inbox[p] \in Seq(Notices) /\ inbox[p] # << >>
  BY DEF TypeOK, Told, Notices
<1>2. Tail(inbox[p]) \in Seq(Notices)
  BY <1>1, TailFacts
<1> QED BY <1>2 DEF TypeOK, Told, Notices

(* Every step keeps the types.                                              *)
LEMMA TypeStep ==
  ASSUME TypeOK, Distinct(names), Next
  PROVE  TypeOK'
<1>1. ASSUME NEW p \in Procs, StartFails(p) PROVE TypeOK'
  BY <1>1 DEF TypeOK, StartFails, reports, Phases
<1>2. ASSUME NEW p \in Procs, OwnName(p) PROVE TypeOK'
  <2>1. names' \in Seq(Procs)
    BY <1>2 DEF TypeOK, OwnName
  <2>2. \A n \in Notices : Append(inbox[p], n) \in Seq(Notices)
    BY AppendFacts DEF TypeOK, Notices
  <2>3. inbox' \in [Procs -> Seq(Notices)]
    BY <1>2, <2>2 DEF TypeOK, OwnName, Notice, Notices
  <2>4. phase' \in [Procs -> Phases]
    BY <1>2 DEF TypeOK, OwnName, Phases
  <2> QED BY <1>2, <2>1, <2>3, <2>4 DEF TypeOK, OwnName, reports, Notices
<1>3. ASSUME NEW p \in Procs, NameAcquired(p) PROVE TypeOK'
  <2>1. PICK created \in BOOLEAN : daemon' = [daemon EXCEPT ![p] = created] /\ SendSpawned(p, created)
    BY <1>3 DEF NameAcquired
  <2>2. daemon' \in [Procs -> BOOLEAN]
    BY <2>1 DEF TypeOK
  <2>3. inbox' \in [Procs -> Seq(Notices)] /\ UNCHANGED <<names, spawnerUp, told>>
    BY <1>3, ToldType DEF NameAcquired, Told
  <2> QED BY <2>1, <2>2, <2>3, SendType DEF TypeOK, Notices
<1>4. ASSUME NEW p \in Procs, NameTaken(p) PROVE TypeOK'
  <2>1. inbox' \in [Procs -> Seq(Notices)] /\ UNCHANGED <<names, spawnerUp, told, daemon>>
    BY <1>4, ToldType DEF NameTaken, Told
  <2>2. SendSpawned(p, FALSE)
    BY <1>4 DEF NameTaken
  <2> QED BY <2>1, <2>2, SendType DEF TypeOK, Notices
<1>5. ASSUME NEW p \in Procs, ConnectionLost(p) PROVE TypeOK'
  <2>1. inbox' \in [Procs -> Seq(Notices)] /\ UNCHANGED <<names, spawnerUp, told>>
    BY <1>5, ToldType DEF ConnectionLost, Told
  <2>2. phase' \in [Procs -> Phases] /\ reason' \in [Procs -> Reasons]
    BY <1>5, QuitType DEF ConnectionLost, Reasons
  <2>3. result' \in [Procs -> 0 .. 1]
    BY <1>5 DEF ConnectionLost, TypeOK
  <2> QED BY <1>5, <2>1, <2>2, <2>3 DEF ConnectionLost, TypeOK, reports, Notices
<1>6. ASSUME NEW p \in Procs, CallSpawnedCb(p) PROVE TypeOK'
  <2>1. /\ Head(awaiting[p]) \in BOOLEAN /\ Tail(awaiting[p]) \in Seq(BOOLEAN)
    BY <1>6, TailFacts DEF CallSpawnedCb, TypeOK
  <2>2. awaiting' \in [Procs -> Seq(BOOLEAN)]
    BY <1>6, <2>1 DEF CallSpawnedCb, TypeOK
  <2>3. /\ SpawnedCallback(p, Head(awaiting[p]))
        /\ UNCHANGED <<daemon, names, inbox, mail, unsent, spawnerUp, told>>
    BY <1>6 DEF CallSpawnedCb
  <2> QED BY <2>1, <2>2, <2>3, SendType DEF TypeOK
<1>7. ASSUME NEW p \in Procs, Shutdown(p) PROVE TypeOK'
  <2>1. phase' \in [Procs -> Phases] /\ reason' \in [Procs -> Reasons]
    BY <1>7, QuitType DEF Shutdown, Reasons
  <2> QED BY <1>7, <2>1 DEF Shutdown, TypeOK, reports
<1>8. ASSUME NEW p \in Procs, Exit(p) PROVE TypeOK'
  <2>1. [inbox EXCEPT ![p] = << >>] \in [Procs -> Seq(Notices)]
    BY DEF TypeOK, Notices
  <2>2. names' \in Seq(Procs) /\ inbox' \in [Procs -> Seq(Notices)]
    BY <1>8, <2>1, ReleaseFacts DEF Exit
  <2>3. phase' \in [Procs -> Phases] /\ daemon' \in [Procs -> BOOLEAN]
    BY <1>8 DEF Exit, TypeOK, Phases
  <2> QED BY <1>8, <2>2, <2>3 DEF Exit, TypeOK, reports, Notices
<1>9. ASSUME NEW p \in Procs, BusCloses(p) PROVE TypeOK'
  <2>1. Append(inbox[p], "closed") \in Seq(Notices)
    BY AppendFacts DEF TypeOK, Notices
  <2>2. [inbox EXCEPT ![p] = Append(@, "closed")] \in [Procs -> Seq(Notices)]
    BY <2>1 DEF TypeOK, Notices
  <2>3. names' \in Seq(Procs) /\ inbox' \in [Procs -> Seq(Notices)]
    BY <1>9, <2>2, ReleaseFacts DEF BusCloses
  <2> QED BY <1>9, <2>3 DEF BusCloses, TypeOK, reports, Notices
<1>10. ASSUME NEW p \in Procs, SpawnerHears(p) PROVE TypeOK'
  <2>1. Head(mail[p]) \in BOOLEAN /\ Tail(mail[p]) \in Seq(BOOLEAN)
    BY <1>10, TailFacts DEF SpawnerHears, TypeOK
  <2>2. Append(told[p], Head(mail[p])) \in Seq(BOOLEAN)
    BY <2>1, AppendFacts DEF TypeOK
  <2>3. told' \in [Procs -> Seq(BOOLEAN)] /\ mail' \in [Procs -> Seq(BOOLEAN)]
    BY <1>10, <2>1, <2>2 DEF SpawnerHears, TypeOK
  <2> QED BY <1>10, <2>3 DEF SpawnerHears, TypeOK
<1>11. CASE SpawnerDies
  <2>1. mail' \in [Procs -> Seq(BOOLEAN)]
    BY <1>11 DEF SpawnerDies
  <2> QED BY <1>11, <2>1 DEF SpawnerDies, TypeOK
<1> QED BY <1>1, <1>2, <1>3, <1>4, <1>5, <1>6, <1>7, <1>8, <1>9, <1>10, <1>11 DEF Next, MainLoop

-----------------------------------------------------------------------------
(* The bus.                                                                 *)

(* What is left after a notice was taken.                                   *)
LEMMA TailShapes ==
  ASSUME NEW b \in Open \cup Closed, b # << >>
  PROVE  /\ Tail(b) \in Open \cup Closed
         /\ b \in Open => Tail(b) \in Open
         /\ b \in Queue => Tail(b) \in Queue
         /\ Head(b) = "acquired" => b \notin Queue /\ Tail(b) \in {<< >>, <<"closed">>}
         /\ b = <<"closed">> => Head(b) = "closed" /\ Tail(b) = << >>
<1>1. /\ Tail(<<"queued">>) = << >> /\ Tail(<<"acquired">>) = << >> /\ Tail(<<"closed">>) = << >>
      /\ Tail(<<"queued", "acquired">>) = <<"acquired">>
      /\ Tail(<<"queued", "closed">>) = <<"closed">>
      /\ Tail(<<"acquired", "closed">>) = <<"closed">>
      /\ Tail(<<"queued", "acquired", "closed">>) = <<"acquired", "closed">>
  OBVIOUS
<1>2. /\ Head(<<"queued">>) = "queued" /\ Head(<<"acquired">>) = "acquired"
      /\ Head(<<"closed">>) = "closed"
      /\ Head(<<"queued", "acquired">>) = "queued" /\ Head(<<"queued", "closed">>) = "queued"
      /\ Head(<<"acquired", "closed">>) = "acquired"
      /\ Head(<<"queued", "acquired", "closed">>) = "queued"
  OBVIOUS
<1>3. <<"acquired">> \notin Queue /\ <<"acquired", "closed">> \notin Queue
  BY DEF Queue
<1> QED BY <1>1, <1>2, <1>3 DEF Open, Closed, Queue

(* Appending to short tuples.                                               *)
LEMMA AppendTuples ==
  ASSUME NEW S, NEW x \in S, NEW y \in S, NEW z \in S
  PROVE  /\ Append(<< >>, x) = <<x>> /\ Append(<<x>>, y) = <<x, y>>
         /\ Append(<<x, y>>, z) = <<x, y, z>>
<1>1. Append(<< >>, x) = <<x>>
  OBVIOUS
<1>2. Append(<<x>>, y) = <<x, y>>
  <2>1. /\ <<x>> \in Seq(S) /\ Len(<<x>>) = 1 /\ <<x>>[1] = x
        /\ <<x, y>> \in Seq(S) /\ Len(<<x, y>>) = 2
    OBVIOUS
  <2>2. /\ Append(<<x>>, y) \in Seq(S) /\ Len(Append(<<x>>, y)) = 2
        /\ Append(<<x>>, y)[1] = x /\ Append(<<x>>, y)[2] = y
    BY <2>1, AppendProperties
  <2>3. \A i \in 1 .. 2 : Append(<<x>>, y)[i] = <<x, y>>[i]
    BY <2>2
  <2> QED BY <2>1, <2>2, <2>3, SeqEqual
<1>3. Append(<<x, y>>, z) = <<x, y, z>>
  <2>1. /\ <<x, y>> \in Seq(S) /\ Len(<<x, y>>) = 2 /\ <<x, y>>[1] = x /\ <<x, y>>[2] = y
        /\ <<x, y, z>> \in Seq(S) /\ Len(<<x, y, z>>) = 3
    OBVIOUS
  <2>2. /\ Append(<<x, y>>, z) \in Seq(S) /\ Len(Append(<<x, y>>, z)) = 3
        /\ Append(<<x, y>>, z)[1] = x /\ Append(<<x, y>>, z)[2] = y /\ Append(<<x, y>>, z)[3] = z
    BY <2>1, AppendProperties
  <2>3. \A i \in 1 .. 3 : Append(<<x, y>>, z)[i] = <<x, y, z>>[i]
    BY <2>2
  <2> QED BY <2>1, <2>2, <2>3, SeqEqual
<1> QED BY <1>1, <1>2, <1>3

(* What the bus may add.                                                    *)
LEMMA AppendShapes ==
  /\ \A b \in Open : Append(b, "closed") \in Closed
  /\ \A b \in Queue : Append(b, "acquired") \in Open
  /\ Queue \subseteq Open /\ << >> \in Queue
  /\ Append(<< >>, "acquired") \in Open /\ Append(<< >>, "queued") \in Queue
<1>0. \A x, y, z \in Notices : /\ Append(<< >>, x) = <<x>> /\ Append(<<x>>, y) = <<x, y>>
                               /\ Append(<<x, y>>, z) = <<x, y, z>>
  BY AppendTuples
<1>1. /\ Append(<< >>, "closed") = <<"closed">>
      /\ Append(<<"queued">>, "closed") = <<"queued", "closed">>
      /\ Append(<<"acquired">>, "closed") = <<"acquired", "closed">>
      /\ Append(<<"queued", "acquired">>, "closed") = <<"queued", "acquired", "closed">>
      /\ Append(<< >>, "acquired") = <<"acquired">> /\ Append(<< >>, "queued") = <<"queued">>
      /\ Append(<<"queued">>, "acquired") = <<"queued", "acquired">>
  BY <1>0 DEF Notices
<1> QED BY <1>1 DEF Open, Closed, Queue

(* A step that leaves the bus alone.                                        *)
LEMMA BusFrame ==
  ASSUME BusInv, UNCHANGED <<names, inbox>>,
         \A p \in Procs : phase'[p] = "starting" => phase[p] = "starting"
  PROVE  BusInv'
BY DEF BusInv

(* A step in which p takes its first notice.                                *)
LEMMA BusTold ==
  ASSUME TypeOK, BusInv, NEW p \in Procs, NEW what, Told(p, what),
         \A q \in Procs : phase'[q] = "starting" => phase[q] = "starting"
  PROVE  BusInv'
<1>1. /\ names' = names /\ inbox[p] # << >> /\ phase[p] # "starting"
      /\ \A q \in Procs : inbox'[q] = IF q = p THEN Tail(inbox[p]) ELSE inbox[q]
  BY DEF Told, TypeOK, Alive
<1>2. inbox[p] \in Open \cup Closed
  BY DEF BusInv
<1> QED BY <1>1, <1>2, TailShapes DEF BusInv

(* Somebody leaves the bus.                                                 *)
LEMMA BusReleased ==
  ASSUME TypeOK, BusInv, NEW p \in Procs, phase[p] # "starting",
         NEW boxes \in [Procs -> Seq(Notices)], ReleaseName(boxes, p),
         \A q \in Procs \ {p} : boxes[q] = inbox[q], boxes[p] \in Open \cup Closed,
         \A q \in Procs : phase'[q] = "starting" => phase[q] = "starting" /\ q # p
  PROVE  BusInv'
<1>0. Distinct(names)
  BY DEF BusInv
<1>1. /\ Distinct(names') /\ Range(names') = Range(names) \ {p}
      /\ \A q : Waits(names', q) => Waits(names, q)
      /\ \A q \in Procs :
           \/ inbox'[q] = boxes[q]
           \/ /\ q # p /\ Waits(names, q) /\ ~ Waits(names', q) /\ q \in Range(names')
              /\ inbox'[q] = Append(boxes[q], "acquired")
  BY <1>0, ReleaseFacts
<1>2. ASSUME NEW q \in Procs
      PROVE  /\ phase'[q] = "starting" => inbox'[q] = << >> /\ q \notin Range(names')
             /\ inbox'[q] \in Open \cup Closed
             /\ q \in Range(names') => inbox'[q] \in Open
             /\ Waits(names', q) => inbox'[q] \in Queue
  <2>1. q = p => ~ Waits(names', q)
    <3>1. Waits(names', p) => p \in Range(names')
      BY ReleaseFacts, <1>0 DEF Waits, Range
    <3> QED BY <1>1, <3>1
  <2>2. CASE inbox'[q] = boxes[q]
    BY <1>1, <2>1, <2>2 DEF BusInv
  <2>3. CASE /\ q # p /\ Waits(names, q) /\ ~ Waits(names', q) /\ q \in Range(names')
             /\ inbox'[q] = Append(boxes[q], "acquired")
    <3>1. inbox[q] \in Queue /\ boxes[q] = inbox[q] /\ phase[q] # "starting"
      BY <1>1, <2>3 DEF BusInv
    <3> QED BY <2>3, <3>1, AppendShapes
  <2> QED BY <1>1, <2>2, <2>3
<1> QED BY <1>1, <1>2 DEF BusInv

(* The first notice tells whether the name was free.                        *)
LEMMA BusOwned ==
  ASSUME TypeOK, BusInv, NEW p \in Procs, OwnName(p)
  PROVE  BusInv'
<1>1. /\ phase[p] = "starting" /\ p \notin Range(names) /\ inbox[p] = << >>
      /\ names' = Append(names, p)
      /\ \A q \in Procs : phase'[q] = IF q = p THEN "running" ELSE phase[q]
      /\ \A q \in Procs : inbox'[q] = IF q = p
           THEN Append(<< >>, IF names = << >> THEN "acquired" ELSE "queued") ELSE inbox[q]
  BY DEF OwnName, BusInv, Notice, TypeOK
<1>2. /\ names \in Seq(Procs) /\ Len(names) \in Nat /\ Len(names') = Len(names) + 1
      /\ \A i \in 1 .. Len(names) : names'[i] = names[i]
      /\ names'[Len(names) + 1] = p /\ Range(names') = Range(names) \cup {p}
  BY <1>1, AppendFacts DEF TypeOK
<1>3. \A i \in 1 .. Len(names) : names[i] # p
  BY <1>1, <1>2 DEF Range
<1>4. Distinct(names')
  BY <1>2, <1>3 DEF BusInv, Distinct
<1>5. \A q \in Procs : q # p /\ Waits(names', q) => Waits(names, q)
  BY <1>2 DEF Waits
<1>6. names = << >> => ~ Waits(names', p)
  BY <1>2 DEF Waits
<1>7. inbox'[p] \in Open /\ (names # << >> => inbox'[p] \in Queue)
  BY <1>1, AppendShapes
<1> QED BY <1>1, <1>2, <1>4, <1>5, <1>6, <1>7 DEF BusInv

(* Quitting and callbacks do not start a process again.                     *)
LEMMA NeverStartsAgain ==
  ASSUME TypeOK, Next
  PROVE  \A q \in Procs : phase'[q] = "starting" => phase[q] = "starting"
BY DEF TypeOK, Next, MainLoop, StartFails, OwnName, NameAcquired, NameTaken, ConnectionLost,
   CallSpawnedCb, Shutdown, Exit, BusCloses, SpawnerHears, SpawnerDies, SendSpawned,
   SpawnedCallback, Quit

(* Every step keeps BusInv.                                                 *)
LEMMA BusStep ==
  ASSUME TypeOK, BusInv, Next
  PROVE  BusInv'
<1>0. \A q \in Procs : phase'[q] = "starting" => phase[q] = "starting"
  BY NeverStartsAgain
<1>1. ASSUME NEW p \in Procs, OwnName(p) PROVE BusInv'
  BY <1>1, BusOwned
<1>2. ASSUME NEW p \in Procs, NEW what, Told(p, what) PROVE BusInv'
  BY <1>0, <1>2, BusTold
<1>3. ASSUME NEW p \in Procs, Exit(p) PROVE BusInv'
  <2>1. [inbox EXCEPT ![p] = << >>] \in [Procs -> Seq(Notices)]
    BY DEF TypeOK, Notices
  <2>2. << >> \in Open
    BY DEF Open, Queue
  <2>3. \A q \in Procs : phase'[q] = "starting" => q # p
    BY <1>3 DEF Exit, TypeOK
  <2> DEFINE boxes == [inbox EXCEPT ![p] = << >>]
  <2>4. /\ \A q \in Procs \ {p} : boxes[q] = inbox[q]
        /\ boxes[p] \in Open \cup Closed /\ phase[p] # "starting" /\ ReleaseName(boxes, p)
    BY <1>3, <2>2 DEF TypeOK, Exit
  <2> HIDE DEF boxes
  <2> QED BY <1>0, <2>1, <2>3, <2>4, BusReleased DEF boxes
<1>4. ASSUME NEW p \in Procs, BusCloses(p) PROVE BusInv'
  <2> DEFINE boxes == [inbox EXCEPT ![p] = Append(@, "closed")]
  <2>1. boxes \in [Procs -> Seq(Notices)]
    <3>1. Append(inbox[p], "closed") \in Seq(Notices)
      BY AppendFacts DEF TypeOK, Notices
    <3> QED BY <3>1 DEF TypeOK, Notices
  <2>2. inbox[p] \in Open /\ phase[p] # "starting" /\ UNCHANGED phase /\ ReleaseName(boxes, p)
    BY <1>4 DEF BusCloses, Alive, BusInv
  <2>3. /\ \A q \in Procs \ {p} : boxes[q] = inbox[q]
        /\ boxes[p] \in Open \cup Closed
    BY <2>2, AppendShapes DEF TypeOK
  <2> HIDE DEF boxes
  <2> QED BY <1>0, <2>1, <2>2, <2>3, BusReleased
<1>5. CASE UNCHANGED <<names, inbox>>
  BY <1>0, <1>5, BusFrame
<1> QED BY <1>1, <1>2, <1>3, <1>4, <1>5
        DEF Next, MainLoop, StartFails, NameAcquired, NameTaken, ConnectionLost, CallSpawnedCb,
            Shutdown, SpawnerHears, SpawnerDies

-----------------------------------------------------------------------------
(* Reports.                                                                 *)

(* A step that sends nothing to and reads nothing of q's spawner, and does  *)
(* not bring a successful q another notice.                                 *)
LEMMA ReportFrame ==
  ASSUME NEW q, ReportInv(q),
         told'[q] = told[q], mail'[q] = mail[q], spawnerUp' = spawnerUp,
         FailureSent(q)' => FailureSent(q),
         phase'[q] = "starting" \/ (phase'[q] = "exited" /\ reason'[q] = "none") =>
           phase[q] = "starting" \/ (phase[q] = "exited" /\ reason[q] = "none"),
         phase'[q] = "quitting" => reason'[q] # "none",
         SuccessSent(q) => ~ Waits(names', q) /\ inbox'[q] \in {<< >>, <<"closed">>}
  PROVE  ReportInv(q)'
BY DEF ReportInv, SuccessSent

(* A process other than the one that takes the step.                        *)
LEMMA ReportOther ==
  ASSUME NEW q, ReportInv(q), spawnerUp' = spawnerUp,
         told'[q] = told[q], mail'[q] = mail[q], awaiting'[q] = awaiting[q],
         phase'[q] = phase[q], reason'[q] = reason[q],
         SuccessSent(q) => ~ Waits(names', q) /\ inbox'[q] = inbox[q]
  PROVE  ReportInv(q)'
BY ReportFrame DEF ReportInv, FailureSent

(* send_spawned of p does not concern q.                                    *)
LEMMA SendOther ==
  ASSUME TypeOK, NEW p \in Procs, NEW success, SendSpawned(p, success), NEW q \in Procs, q # p
  PROVE  /\ mail'[q] = mail[q] /\ awaiting'[q] = awaiting[q]
         /\ phase'[q] = phase[q] /\ reason'[q] = reason[q]
BY DEF TypeOK, SendSpawned, SpawnedCallback, Quit, reports

(* A process that hears of the name calls its spawner: nothing but failures *)
(* were sent before, and the new report is the last.                        *)
LEMMA ReportSent ==
  ASSUME TypeOK, NEW p \in Spawned, ReportInv(p), NEW success \in BOOLEAN,
         SendSpawned(p, success), UNCHANGED <<names, spawnerUp, told>>,
         phase[p] \in {"running", "quitting"}, ~ SuccessSent(p),
         success => ~ Waits(names, p) /\ inbox'[p] \in {<< >>, <<"closed">>}
  PROVE  ReportInv(p)'
<1>0. /\ p \in Procs /\ told[p] \in Seq(BOOLEAN) /\ mail[p] \in Seq(BOOLEAN)
      /\ awaiting[p] \in Seq(BOOLEAN) /\ spawnerUp \in BOOLEAN
  BY DEF TypeOK, Procs
<1>1. CASE /\ UNCHANGED <<mail, awaiting, phase, reason>>
  BY <1>1, ReportFrame DEF FailureSent, SuccessSent, ReportInv
<1>2. CASE /\ mail' = [mail EXCEPT ![p] = IF spawnerUp THEN Append(@, success) ELSE @]
           /\ awaiting' = [awaiting EXCEPT ![p] = Append(@, success)]
           /\ UNCHANGED <<phase, reason>>
  <2>1. /\ mail'[p] = IF spawnerUp THEN Append(mail[p], success) ELSE mail[p]
        /\ awaiting'[p] = Append(awaiting[p], success)
    BY <1>0, <1>2 DEF TypeOK
  <2>2. /\ Len(Append(mail[p], success)) = Len(mail[p]) + 1 /\ Len(mail[p]) \in Nat
        /\ \A i \in 1 .. Len(mail[p]) : Append(mail[p], success)[i] = mail[p][i]
        /\ Append(mail[p], success)[Len(mail[p]) + 1] = success
        /\ Range(Append(mail[p], success)) = Range(mail[p]) \cup {success}
        /\ Range(Append(awaiting[p], success)) = Range(awaiting[p]) \cup {success}
    BY <1>0, AppendFacts
  <2>3. /\ TRUE \notin Range(told[p]) /\ TRUE \notin Range(mail[p])
        /\ \A i \in 1 .. Len(mail[p]) : mail[p][i] = FALSE
    <3>1. TRUE \notin Range(told[p]) /\ TRUE \notin Range(mail[p])
      BY DEF SuccessSent
    <3>2. \A i \in 1 .. Len(mail[p]) : mail[p][i] \in BOOLEAN /\ mail[p][i] \in Range(mail[p])
      BY <1>0 DEF Range
    <3> QED BY <3>1, <3>2
  <2>4. FALSE \in Range(mail[p]) => Len(mail[p]) >= 1
    <3> SUFFICES ASSUME NEW i \in DOMAIN mail[p] PROVE Len(mail[p]) >= 1
      BY DEF Range
    <3>1. DOMAIN mail[p] = 1 .. Len(mail[p]) /\ Len(mail[p]) \in Nat
      BY <1>0
    <3> QED BY <3>1
  <2>5. FailureSent(p)' => FailureSent(p) \/ success = FALSE
    BY <1>2, <2>1, <2>2 DEF FailureSent
  <2>6. CASE ~ spawnerUp
    <3>1. mail'[p] = mail[p] /\ mail[p] = << >>
      BY <2>1, <2>6 DEF ReportInv
    <3> QED BY <1>2, <2>3, <2>6, <3>1 DEF ReportInv, SuccessSent
  <2>7. CASE spawnerUp /\ success = FALSE
    <3>1. TRUE \notin Range(mail'[p]) /\ FALSE \in Range(mail'[p])
      BY <2>1, <2>2, <2>3, <2>7
    <3>2. \A i \in 1 .. Len(mail'[p]) - 1 : mail'[p][i] = FALSE
      BY <2>1, <2>2, <2>3, <2>7
    <3>3. ~ SuccessSent(p)'
      BY <2>3, <3>1 DEF SuccessSent
    <3> QED BY <1>2, <2>3, <2>7, <3>1, <3>2, <3>3 DEF ReportInv
  <2>8. CASE spawnerUp /\ success = TRUE
    <3>1. \A i \in 1 .. Len(mail'[p]) - 1 : mail'[p][i] = FALSE
      BY <2>1, <2>2, <2>3, <2>8
    <3>2. ASSUME FailureSent(p)'
          PROVE  /\ FALSE \in Range(told[p]) \cup Range(mail'[p])
                 /\ FALSE \in Range(told[p]) \/ mail'[p][1] = FALSE
      <4>1. FALSE \in Range(told[p]) \cup Range(mail[p])
        BY <2>5, <2>8, <3>2 DEF ReportInv
      <4>2. FALSE \in Range(mail[p]) => mail'[p][1] = FALSE
        BY <2>1, <2>2, <2>3, <2>4, <2>8
      <4> QED BY <2>1, <2>2, <2>8, <4>1, <4>2
    <3> QED BY <1>2, <2>3, <2>8, <3>1, <3>2 DEF ReportInv
  <2> QED BY <2>6, <2>7, <2>8
<1> QED BY <1>0, <1>1, <1>2 DEF SendSpawned, HasSpawner

(* The spawner reads the reports in the order they were sent.               *)
LEMMA ReportHeard ==
  ASSUME TypeOK, NEW p \in Spawned, ReportInv(p), SpawnerHears(p)
  PROVE  ReportInv(p)'
<1>0. /\ p \in Procs /\ told[p] \in Seq(BOOLEAN) /\ mail[p] \in Seq(BOOLEAN) /\ mail[p] # << >>
      /\ spawnerUp /\ spawnerUp'
      /\ UNCHANGED <<phase, reason, names, inbox, awaiting>>
  BY DEF TypeOK, Procs, SpawnerHears
<1>1. told'[p] = Append(told[p], Head(mail[p])) /\ mail'[p] = Tail(mail[p])
  BY <1>0 DEF SpawnerHears, TypeOK
<1>2. /\ Head(mail[p]) \in BOOLEAN /\ Head(mail[p]) = mail[p][1]
      /\ Len(mail[p]) \in Nat /\ Len(mail[p]) >= 1 /\ Len(mail'[p]) = Len(mail[p]) - 1
      /\ \A i \in 1 .. Len(mail[p]) - 1 : mail'[p][i] = mail[p][i + 1]
      /\ Range(mail[p]) = {Head(mail[p])} \cup Range(mail'[p])
  BY <1>0, <1>1, TailFacts
<1>3. Range(told'[p]) = Range(told[p]) \cup {Head(mail[p])}
  BY <1>0, <1>1, <1>2, AppendFacts
<1>4. \A i \in 1 .. Len(mail'[p]) - 1 : mail'[p][i] = FALSE
  BY <1>2 DEF ReportInv
<1>5. SuccessSent(p)' => SuccessSent(p)
  BY <1>2, <1>3 DEF SuccessSent
<1>6. FailureSent(p)' <=> FailureSent(p)
  BY <1>0 DEF FailureSent
<1>7. ~ (phase[p] = "starting" \/ (phase[p] = "exited" /\ reason[p] = "none"))
  BY <1>0 DEF ReportInv
<1>8. ASSUME FailureSent(p)
      PROVE  /\ FALSE \in Range(told'[p]) \cup Range(mail'[p])
             /\ TRUE \in Range(told'[p]) => FALSE \in Range(told'[p])
             /\ TRUE \in Range(mail'[p]) => FALSE \in Range(told'[p])
  <2>1. FALSE \in Range(told[p]) \cup Range(mail[p])
    BY <1>0, <1>8 DEF ReportInv
  <2>2. TRUE \in Range(mail[p]) => FALSE \in Range(told'[p])
    BY <1>2, <1>3, <1>8 DEF ReportInv
  <2>3. TRUE \in Range(told[p]) => FALSE \in Range(told'[p])
    BY <1>3, <1>8 DEF ReportInv
  <2> QED BY <1>2, <1>3, <2>1, <2>2, <2>3
<1> QED BY <1>0, <1>4, <1>5, <1>6, <1>7, <1>8 DEF ReportInv

(* A process that has told of success hears nothing of the name but its     *)
(* end; one that hears more has not.                                        *)
LEMMA NoSuccessYet ==
  ASSUME TypeOK, BusInv, NEW p \in Spawned, ReportInv(p), NEW what \in {"acquired", "queued"},
         Told(p, what)
  PROVE  /\ ~ SuccessSent(p)
         /\ what = "acquired" => ~ Waits(names, p) /\ inbox'[p] \in {<< >>, <<"closed">>}
<1>1. /\ p \in Procs /\ inbox[p] # << >> /\ Head(inbox[p]) = what /\ inbox'[p] = Tail(inbox[p])
  BY DEF Procs, Told, TypeOK
<1>2. inbox[p] \in Open \cup Closed
  BY <1>1 DEF BusInv
<1>3. inbox[p] # <<"closed">>
  BY <1>1, <1>2, TailShapes
<1> QED BY <1>1, <1>2, <1>3, TailShapes DEF ReportInv, BusInv

(* Every step keeps ReportInv.                                              *)
LEMMA ReportStep ==
  ASSUME TypeOK, BusInv, Next, NEW q \in Spawned, ReportInv(q)
  PROVE  ReportInv(q)'
<1>0. q \in Procs /\ HasSpawner(q) /\ Distinct(names)
  BY DEF Procs, HasSpawner, BusInv
<1>1. ASSUME NEW p \in Procs, StartFails(p) PROVE ReportInv(q)'
  <2>1. /\ UNCHANGED <<names, inbox, mail, awaiting, spawnerUp, told, reason>>
        /\ phase[p] = "starting" /\ phase' = [phase EXCEPT ![p] = "exited"]
    BY <1>1 DEF StartFails, reports
  <2>2. /\ FailureSent(q)' => FailureSent(q)
        /\ SuccessSent(q) => ~ Waits(names', q) /\ inbox'[q] \in {<< >>, <<"closed">>}
    BY <2>1 DEF FailureSent, ReportInv
  <2>3. phase'[q] = phase[q] \/ (q = p /\ phase'[q] = "exited")
    BY <1>0, <2>1 DEF TypeOK
  <2>4. phase'[q] = "quitting" => reason'[q] # "none"
    BY <2>1, <2>3 DEF ReportInv
  <2> QED BY <2>1, <2>2, <2>3, <2>4, ReportFrame
<1>2. ASSUME NEW p \in Procs, OwnName(p) PROVE ReportInv(q)'
  <2>1. /\ UNCHANGED <<mail, awaiting, spawnerUp, told, reason>>
        /\ phase[p] = "starting" /\ phase' = [phase EXCEPT ![p] = "running"]
        /\ names' = Append(names, p) /\ names \in Seq(Procs)
    BY <1>2 DEF OwnName, reports, TypeOK
  <2>2. CASE q = p
    <3>1. ~ SuccessSent(q) /\ phase'[q] = "running"
      <4>1. told[q] = << >> /\ mail[q] = << >>
        BY <2>1, <2>2 DEF ReportInv
      <4>2. Range(<< >>) = {}
        BY DEF Range
      <4> QED BY <1>0, <2>1, <2>2, <4>1, <4>2 DEF SuccessSent, TypeOK
    <3>2. FailureSent(q)' => FailureSent(q)
      BY <2>1 DEF FailureSent
    <3> QED BY <2>1, <3>1, <3>2, ReportFrame
  <2>3. CASE q # p
    <3>1. phase'[q] = phase[q] /\ inbox'[q] = inbox[q]
      BY <1>0, <1>2, <2>1, <2>3 DEF TypeOK, OwnName, Notice
    <3>2. Waits(names', q) => Waits(names, q)
      <4>1. /\ Len(names') = Len(names) + 1 /\ Len(names) \in Nat
            /\ \A i \in 1 .. Len(names) : names'[i] = names[i]
            /\ names'[Len(names) + 1] = p
        BY <2>1, AppendFacts
      <4> QED BY <2>3, <4>1 DEF Waits
    <3> QED BY <2>1, <3>1, <3>2, ReportOther DEF ReportInv
  <2> QED BY <2>2, <2>3
<1>3. ASSUME NEW p \in Procs, NEW success \in BOOLEAN, NEW what \in {"acquired", "queued"},
             Told(p, what), SendSpawned(p, success), success => what = "acquired"
      PROVE  ReportInv(q)'
  <2>1. UNCHANGED <<names, spawnerUp, told>> /\ Alive(p)
    BY <1>3 DEF Told
  <2>2. CASE q = p
    <3>1. /\ ~ SuccessSent(p)
          /\ success => ~ Waits(names, p) /\ inbox'[p] \in {<< >>, <<"closed">>}
      BY <1>3, <2>2, NoSuccessYet
    <3> QED BY <1>3, <2>1, <2>2, <3>1, ReportSent DEF Alive
  <2>3. CASE q # p
    <3>1. inbox'[q] = inbox[q]
      BY <1>0, <1>3, <2>3 DEF Told, TypeOK
    <3>2. /\ mail'[q] = mail[q] /\ awaiting'[q] = awaiting[q]
          /\ phase'[q] = phase[q] /\ reason'[q] = reason[q]
      BY <1>0, <1>3, <2>3, SendOther
    <3> QED BY <2>1, <3>1, <3>2, ReportOther DEF ReportInv
  <2> QED BY <2>2, <2>3
<1>4. ASSUME NEW p \in Procs, NEW why \in {"bus", "failed", "shutdown"},
             Quit(p, why) \/ UNCHANGED <<phase, reason>>,
             why = "failed" => p # q \/ FailureSent(q),
             Range(awaiting'[q]) \subseteq Range(awaiting[q]),
             UNCHANGED <<mail, spawnerUp, told>>,
             SuccessSent(q) => ~ Waits(names', q) /\ inbox'[q] \in {<< >>, <<"closed">>}
      PROVE  ReportInv(q)'
  <2>1. \/ phase'[q] = phase[q] /\ reason'[q] = reason[q]
        \/ /\ q = p /\ phase'[q] = "quitting"
           /\ reason'[q] = IF reason[q] = "none" THEN why ELSE reason[q]
    BY <1>0, <1>4 DEF Quit, TypeOK
  <2>2. FailureSent(q)' => FailureSent(q)
    BY <1>4, <2>1 DEF FailureSent
  <2>3. phase'[q] = "quitting" => reason'[q] # "none"
    BY <2>1 DEF ReportInv
  <2> QED BY <1>4, <2>1, <2>2, <2>3, ReportFrame
<1>5. ASSUME NEW p \in Procs, ConnectionLost(p) PROVE ReportInv(q)'
  <2>1. /\ Quit(p, "bus") /\ UNCHANGED <<mail, awaiting, names, spawnerUp, told>>
        /\ inbox[p] # << >> /\ inbox' = [inbox EXCEPT ![p] = Tail(@)]
    BY <1>5 DEF ConnectionLost, Told, reports
  <2>2. SuccessSent(q) => ~ Waits(names', q) /\ inbox'[q] \in {<< >>, <<"closed">>}
    <3>1. Tail(<<"closed">>) = << >>
      OBVIOUS
    <3> QED BY <1>0, <2>1, <3>1 DEF ReportInv, TypeOK
  <2> QED BY <1>4, <2>1, <2>2
<1>6. ASSUME NEW p \in Procs, CallSpawnedCb(p) PROVE ReportInv(q)'
  <2>1. /\ SpawnedCallback(p, Head(awaiting[p])) /\ awaiting[p] # << >>
        /\ awaiting' = [awaiting EXCEPT ![p] = Tail(@)]
        /\ UNCHANGED <<names, inbox, mail, spawnerUp, told>>
    BY <1>6 DEF CallSpawnedCb
  <2>2. Head(awaiting[p]) \in BOOLEAN
        /\ Range(awaiting[p]) = {Head(awaiting[p])} \cup Range(Tail(awaiting[p]))
    BY <2>1, TailFacts DEF TypeOK
  <2>3. Range(awaiting'[q]) \subseteq Range(awaiting[q])
    BY <1>0, <2>1, <2>2 DEF TypeOK
  <2>4. SuccessSent(q) => ~ Waits(names', q) /\ inbox'[q] \in {<< >>, <<"closed">>}
    BY <2>1 DEF ReportInv
  <2>5. CASE Head(awaiting[p]) = TRUE
    <3>1. UNCHANGED <<phase, reason>>
      BY <2>1, <2>5 DEF SpawnedCallback
    <3> QED BY <1>4, <2>1, <2>3, <2>4, <3>1
  <2>6. CASE Head(awaiting[p]) = FALSE
    <3>1. Quit(p, "failed") /\ (p # q \/ FailureSent(q))
      BY <2>1, <2>2, <2>6 DEF SpawnedCallback, FailureSent
    <3> QED BY <1>4, <2>1, <2>3, <2>4, <3>1
  <2> QED BY <2>2, <2>5, <2>6
<1>7. ASSUME NEW p \in Procs, Shutdown(p) PROVE ReportInv(q)'
  <2>1. SuccessSent(q) => ~ Waits(names', q) /\ inbox'[q] \in {<< >>, <<"closed">>}
    BY <1>7 DEF ReportInv, Shutdown
  <2> QED BY <1>4, <1>7, <2>1 DEF Shutdown, reports
<1>8. ASSUME NEW p \in Procs, Exit(p) PROVE ReportInv(q)'
  <2> DEFINE boxes == [inbox EXCEPT ![p] = << >>]
  <2>1. boxes \in [Procs -> Seq(Notices)] /\ ReleaseName(boxes, p)
    BY <1>8 DEF TypeOK, Notices, Exit
  <2>2. boxes[q] \in {<< >>, inbox[q]}
    BY <1>0 DEF TypeOK
  <2> HIDE DEF boxes
  <2>3. SuccessSent(q) => ~ Waits(names', q) /\ inbox'[q] \in {<< >>, <<"closed">>}
    BY <1>0, <2>1, <2>2, ReleaseFacts DEF ReportInv
  <2>4. /\ phase[p] = "quitting" /\ phase' = [phase EXCEPT ![p] = "exited"]
        /\ UNCHANGED <<mail, awaiting, spawnerUp, told, reason>>
    BY <1>8 DEF Exit, reports
  <2>5. phase'[q] = phase[q] \/ (phase[q] = "quitting" /\ phase'[q] = "exited")
    BY <1>0, <2>4 DEF TypeOK
  <2>6. FailureSent(q)' => FailureSent(q)
    BY <2>4 DEF FailureSent
  <2> QED BY <2>3, <2>4, <2>5, <2>6, ReportFrame DEF ReportInv
<1>9. ASSUME NEW p \in Procs, BusCloses(p) PROVE ReportInv(q)'
  <2> DEFINE boxes == [inbox EXCEPT ![p] = Append(@, "closed")]
  <2>1. boxes \in [Procs -> Seq(Notices)]
    <3>1. Append(inbox[p], "closed") \in Seq(Notices)
      BY AppendFacts DEF TypeOK, Notices
    <3> QED BY <3>1 DEF TypeOK, Notices
  <2>2. /\ inbox[p] \in Open /\ ReleaseName(boxes, p)
        /\ UNCHANGED <<phase, mail, awaiting, spawnerUp, told, reason>>
    BY <1>9 DEF BusCloses, BusInv, reports
  <2>3. boxes[q] = IF q = p THEN Append(inbox[q], "closed") ELSE inbox[q]
    BY <1>0 DEF TypeOK
  <2> HIDE DEF boxes
  <2>4. <<"closed">> \notin Open /\ Append(<< >>, "closed") = <<"closed">>
    BY DEF Open, Queue
  <2>5. SuccessSent(q) => ~ Waits(names', q) /\ inbox'[q] \in {<< >>, <<"closed">>}
    BY <1>0, <2>1, <2>2, <2>3, <2>4, ReleaseFacts DEF ReportInv
  <2> QED BY <1>4, <2>2, <2>5
<1>10. ASSUME NEW p \in Procs, SpawnerHears(p) PROVE ReportInv(q)'
  <2>1. CASE q = p
    BY <1>10, <2>1, ReportHeard
  <2>2. CASE q # p
    <3>1. told'[q] = told[q] /\ mail'[q] = mail[q]
      BY <1>0, <1>10, <2>2 DEF SpawnerHears, TypeOK
    <3> QED BY <1>10, <3>1, ReportOther DEF SpawnerHears, ReportInv
  <2> QED BY <2>1, <2>2
<1>11. CASE SpawnerDies
  <2>1. /\ ~ spawnerUp' /\ mail'[q] = << >>
        /\ UNCHANGED <<phase, names, inbox, awaiting, told, reason>>
    BY <1>0, <1>11 DEF SpawnerDies
  <2>2. Range(<< >>) = {} /\ Len(<< >>) = 0
    BY DEF Range
  <2>3. (FailureSent(q)' => FailureSent(q)) /\ (SuccessSent(q)' => SuccessSent(q))
    BY <2>1, <2>2 DEF FailureSent, SuccessSent
  <2>4. \A i \in 1 .. Len(mail'[q]) - 1 : mail'[q][i] = FALSE
    BY <2>1, <2>2
  <2> QED BY <2>1, <2>2, <2>3, <2>4 DEF ReportInv
<1>12. ASSUME NEW p \in Procs, NameAcquired(p) PROVE ReportInv(q)'
  <2>1. PICK created \in BOOLEAN : SendSpawned(p, created)
    BY <1>12 DEF NameAcquired
  <2> QED BY <1>3, <1>12, <2>1 DEF NameAcquired
<1>13. ASSUME NEW p \in Procs, NameTaken(p) PROVE ReportInv(q)'
  BY <1>3, <1>13 DEF NameTaken
<1> QED BY <1>1, <1>2, <1>5, <1>6, <1>7, <1>8, <1>9, <1>10, <1>11, <1>12, <1>13 DEF Next, MainLoop

-----------------------------------------------------------------------------
(* The whole invariant.                                                     *)
LEMMA DaemonInit == Init => DaemonInv
<1> SUFFICES ASSUME Init PROVE DaemonInv
  OBVIOUS
<1> USE DEF Init
<1>0. Range(<< >>) = {} /\ Len(<< >>) = 0
  BY DEF Range
<1>1. TypeOK
  BY DEF TypeOK, Phases, Reasons
<1>2. BusInv
  <2>1. \A p : ~ Waits(<< >>, p)
    BY <1>0 DEF Waits
  <2>2. Distinct(<< >>) /\ << >> \in Open
    BY <1>0 DEF Distinct, Open, Queue
  <2> QED BY <1>0, <2>1, <2>2 DEF BusInv
<1>3. ASSUME NEW p \in Spawned PROVE ReportInv(p)
  <2>1. p \in Procs
    BY DEF Procs
  <2>2. ~ SuccessSent(p) /\ ~ FailureSent(p)
    BY <1>0, <2>1 DEF SuccessSent, FailureSent
  <2>3. told[p] = << >> /\ mail[p] = << >> /\ phase[p] = "starting" /\ spawnerUp
    BY <2>1
  <2>4. \A i \in 1 .. Len(mail[p]) - 1 : mail[p][i] = FALSE
    BY <1>0, <2>3
  <2> QED BY <2>2, <2>3, <2>4 DEF ReportInv
<1> QED BY <1>1, <1>2, <1>3 DEF DaemonInv

(* Every step, and a step that changes nothing, keeps it.                   *)
LEMMA DaemonInductive == DaemonInv /\ [Next]_vars => DaemonInv'
<1> SUFFICES ASSUME DaemonInv, [Next]_vars PROVE DaemonInv'
  OBVIOUS
<1>1. CASE Next
  <2>1. TypeOK' /\ BusInv'
    BY <1>1, TypeStep, BusStep DEF DaemonInv, BusInv
  <2>2. \A p \in Spawned : ReportInv(p)'
    BY <1>1, ReportStep DEF DaemonInv
  <2> QED BY <2>1, <2>2 DEF DaemonInv
<1>2. CASE UNCHANGED vars
  BY <1>2 DEF DaemonInv, vars, TypeOK, BusInv, ReportInv, FailureSent, SuccessSent
<1> QED BY <1>1, <1>2

(* DaemonInv holds in every reachable state.                                *)
LEMMA DaemonInvariant == Spec => []DaemonInv
BY DaemonInit, DaemonInductive, PTL DEF Spec

(* Every variable of the backend process keeps its type: in particular the  *)
(* exit status is 0 or 1 however many of its calls failed.                  *)
THEOREM DaemonTypeCorrect == Spec => []TypeOK
<1>1. DaemonInv => TypeOK
  BY DEF DaemonInv
<1> QED BY <1>1, DaemonInvariant, PTL

(* A process that told its spawner of success leaves only because it was    *)
(* shut down or lost the bus, or after it had told of failure: for any      *)
(* number of processes after the name, whether or not the spawner lives.    *)
THEOREM SuccessCanBeReliedOn == Spec => []SuccessStands
<1>1. DaemonInv => SuccessStands
  <2> SUFFICES ASSUME DaemonInv, NEW p \in Spawned,
                      phase[p] = "exited", TRUE \in Range(told[p]),
                      FALSE \notin Range(told[p])
               PROVE  reason[p] \in {"shutdown", "bus"}
    BY DEF SuccessStands
  <2>1. p \in Procs /\ ReportInv(p) /\ reason[p] \in Reasons
    BY DEF DaemonInv, Procs, TypeOK
  <2>2. told[p] # << >>
    <3>1. Range(<< >>) = {}
      BY DEF Range
    <3> QED BY <3>1
  <2>3. reason[p] # "none" /\ reason[p] # "failed"
    BY <2>1, <2>2 DEF ReportInv, FailureSent
  <2> QED BY <2>1, <2>3 DEF Reasons
<1> QED BY <1>1, DaemonInvariant, PTL
=============================================================================
