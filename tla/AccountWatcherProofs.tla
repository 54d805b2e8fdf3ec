------------------------ MODULE AccountWatcherProofs ------------------------
(***************************************************************************)
(* The volume of an account that stays stored stays shown, for any number  *)
(* of accounts, changes, overlapping looks and failures.                   *)
(***************************************************************************)
EXTENDS AccountWatcher, SequenceTheorems, TLAPS

(* What TypeOK says beside the looks and the signals.                       *)
Scalars ==
  /\ pc \in {"opening", "first", "getbus", "armed", "down"}
  /\ known \subseteq Accounts /\ keyring \subseteq Accounts /\ kept \subseteq keyring
  /\ owed \subseteq {"added", "removed"} \X Accounts
  /\ changes \in 0 .. MaxChanges /\ failures \in 0 .. MaxFailures
  /\ applied \in 0 .. MaxChanges /\ excused \in BOOLEAN

FirstLook == pc = "first" <=> \E i \in DOMAIN looks : looks[i].first

Seqs == looks \in Seq(Look) /\ inbox \in Seq(Messages)

(* There is one first look at most.                                        *)
OneFirst ==
  \A i, j \in DOMAIN looks : looks[i].first /\ looks[j].first => i = j

(* What a look found, it found with every account kept since.               *)
FoundKept == \A i \in DOMAIN looks : looks[i].searched => kept \subseteq looks[i].found

(* Only the removal of an account that was removed is announced.            *)
RemovalsMeant ==
  \A u \in kept : /\ <<"removed", u>> \notin owed
                  /\ \A i \in DOMAIN inbox : inbox[i] # <<"removed", u>>

WatcherInv ==
  /\ Scalars /\ Seqs /\ FirstLook /\ OneFirst
  /\ FoundKept /\ RemovalsMeant /\ KeptStaysShown

(* What the runs call TypeOK is part of the invariant.                    *)
LEMMA WatcherTypes == WatcherInv => TypeOK
BY DEF WatcherInv, Scalars, Seqs, FirstLook, TypeOK

-----------------------------------------------------------------------------
(* RemoveAt takes one place out of a sequence and moves the later ones up.  *)
LEMMA RemoveAtPlaces ==
  ASSUME NEW S, NEW s \in Seq(S), NEW i \in DOMAIN s
  PROVE  /\ RemoveAt(s, i) \in Seq(S)
         /\ Len(RemoveAt(s, i)) = Len(s) - 1
         /\ \A k \in 1 .. Len(s) - 1 :
              RemoveAt(s, i)[k] = IF k < i THEN s[k] ELSE s[k + 1]
<1> DEFINE a == SubSeq(s, 1, i - 1)
           b == SubSeq(s, i + 1, Len(s))
<1>1. i \in 1 .. Len(s) /\ Len(s) \in Nat /\ \A k \in 1 .. Len(s) : s[k] \in S
  OBVIOUS
<1>2. /\ a \in Seq(S) /\ Len(a) = i - 1
      /\ \A k \in 1 .. i - 1 : a[k] = s[k]
  <2>1. /\ a \in Seq(S)
        /\ Len(a) = IF 1 <= i - 1 THEN i - 1 - 1 + 1 ELSE 0
        /\ \A k \in 1 .. i - 1 - 1 + 1 : a[k] = s[1 + k - 1]
    BY <1>1, SubSeqProperties
  <2> QED BY <1>1, <2>1
<1>3. /\ b \in Seq(S) /\ Len(b) = Len(s) - i
      /\ \A k \in 1 .. Len(s) - i : b[k] = s[i + k]
  <2>1. /\ b \in Seq(S)
        /\ Len(b) = IF i + 1 <= Len(s) THEN Len(s) - (i + 1) + 1 ELSE 0
        /\ \A k \in 1 .. Len(s) - (i + 1) + 1 : b[k] = s[i + 1 + k - 1]
    BY <1>1, SubSeqProperties
  <2> QED BY <1>1, <2>1
<1>4. /\ a \o b \in Seq(S)
      /\ Len(a \o b) = Len(a) + Len(b)
      /\ \A k \in 1 .. Len(a) + Len(b) : (a \o b)[k] = IF k <= Len(a) THEN a[k] ELSE b[k - Len(a)]
  BY <1>2, <1>3, ConcatProperties
<1>5. RemoveAt(s, i) = a \o b
  BY DEF RemoveAt
<1> HIDE DEF a, b
<1>6. ASSUME NEW k \in 1 .. Len(s) - 1
      PROVE  (a \o b)[k] = IF k < i THEN s[k] ELSE s[k + 1]
  <2>1. CASE k < i
    <3>1. k \in 1 .. Len(a) + Len(b) /\ k <= Len(a)
      BY <1>1, <1>2, <1>3, <2>1
    <3> QED BY <1>1, <1>2, <1>4, <2>1, <3>1
  <2>2. CASE ~ (k < i)
    <3> DEFINE n == k - (i - 1)
    <3>1. n \in 1 .. Len(s) - i /\ i + n = k + 1
      BY <1>1, <2>2
    <3>2. k \in 1 .. Len(a) + Len(b) /\ ~ (k <= Len(a)) /\ k - Len(a) = n
      BY <1>1, <1>2, <1>3, <2>2
    <3>3. (a \o b)[k] = b[n]
      BY <1>4, <3>2
    <3> HIDE DEF n
    <3>4. b[n] = s[k + 1]
      BY <1>3, <3>1
    <3> QED BY <2>2, <3>3, <3>4
  <2> QED BY <2>1, <2>2
<1>7. Len(a \o b) = Len(s) - 1
  BY <1>1, <1>2, <1>3, <1>4
<1> QED BY <1>4, <1>5, <1>6, <1>7

(* One look less: what holds of each look, and of any two, still does.      *)
LEMMA LookRemoved ==
  ASSUME WatcherInv, NEW i \in DOMAIN looks, looks' = RemoveAt(looks, i)
  PROVE  /\ looks' \in Seq(Look)
         /\ \A k \in DOMAIN looks' : \E m \in DOMAIN looks \ {i} : looks'[k] = looks[m]
         /\ \A m \in DOMAIN looks \ {i} : \E k \in DOMAIN looks' : looks'[k] = looks[m]
         /\ \A j, k \in DOMAIN looks' : looks'[j].first /\ looks'[k].first => j = k
<1>1. looks \in Seq(Look)
  BY DEF WatcherInv, Seqs
<1>2. /\ looks' \in Seq(Look) /\ Len(looks') = Len(looks) - 1
      /\ \A k \in 1 .. Len(looks) - 1 :
           looks'[k] = IF k < i THEN looks[k] ELSE looks[k + 1]
  BY <1>1, RemoveAtPlaces
<1>3. DOMAIN looks = 1 .. Len(looks) /\ DOMAIN looks' = 1 .. Len(looks) - 1 /\ Len(looks) \in Nat
  BY <1>1, <1>2
<1>4. ASSUME NEW k \in DOMAIN looks'
      PROVE  \E m \in DOMAIN looks \ {i} : looks'[k] = looks[m]
  <2>1. CASE k < i
    BY <1>2, <1>3, <2>1
  <2>2. CASE ~ (k < i)
    <3>1. k + 1 \in DOMAIN looks \ {i} /\ looks'[k] = looks[k + 1]
      BY <1>2, <1>3, <2>2
    <3> QED BY <3>1
  <2> QED BY <2>1, <2>2
<1>5. ASSUME NEW m \in DOMAIN looks \ {i}
      PROVE  \E k \in DOMAIN looks' : looks'[k] = looks[m]
  <2>1. CASE m < i
    BY <1>2, <1>3, <2>1
  <2>2. CASE ~ (m < i)
    <3>1. m - 1 \in DOMAIN looks' /\ ~ (m - 1 < i) /\ (m - 1) + 1 = m
      BY <1>2, <1>3, <2>2
    <3> QED BY <1>2, <1>3, <3>1
  <2> QED BY <2>1, <2>2
<1>6. ASSUME NEW j \in DOMAIN looks', NEW k \in DOMAIN looks', looks'[j].first, looks'[k].first
      PROVE  j = k
  <2> DEFINE at(n) == IF n < i THEN n ELSE n + 1
  <2>1. at(j) \in DOMAIN looks /\ at(k) \in DOMAIN looks
    BY <1>3
  <2>2. looks'[j] = looks[at(j)] /\ looks'[k] = looks[at(k)]
    BY <1>2, <1>3
  <2>3. at(j) = at(k)
    BY <1>6, <2>1, <2>2 DEF WatcherInv, OneFirst
  <2> QED BY <1>3, <2>3
<1> QED BY <1>2, <1>4, <1>5, <1>6

(* One look more, neither searched nor a second first one.                  *)
LEMMA LookAdded ==
  ASSUME WatcherInv, NEW first \in BOOLEAN, looks' = Append(looks, NewLook(first))
  PROVE  /\ looks' \in Seq(Look)
         /\ DOMAIN looks' = DOMAIN looks \cup {Len(looks) + 1}
         /\ \A k \in DOMAIN looks : looks'[k] = looks[k]
         /\ looks'[Len(looks) + 1] = NewLook(first)
<1>1. looks \in Seq(Look)
  BY DEF WatcherInv, Seqs
<1>2. NewLook(first) \in Look
  BY BoundsAssumption DEF NewLook, Look
<1> QED BY <1>1, <1>2

(* A signal more, or one less.                                             *)
LEMMA SignalQueued ==
  ASSUME WatcherInv, NEW m \in Messages, inbox' = Append(inbox, m)
  PROVE  /\ inbox' \in Seq(Messages)
         /\ \A i \in DOMAIN inbox' : inbox'[i] = m \/ \E k \in DOMAIN inbox : inbox'[i] = inbox[k]
<1>1. inbox \in Seq(Messages)
  BY DEF WatcherInv, Seqs
<1> QED BY <1>1

(* The signal delivered was in the inbox; the others stay.                *)
LEMMA SignalTaken ==
  ASSUME WatcherInv, NEW m, Delivered(m)
  PROVE  /\ inbox' \in Seq(Messages)
         /\ \A i \in DOMAIN inbox' : \E k \in DOMAIN inbox : inbox'[i] = inbox[k]
         /\ \E k \in DOMAIN inbox : inbox[k] = m
<1>1. inbox \in Seq(Messages) /\ inbox # << >> /\ inbox' = Tail(inbox) /\ Head(inbox) = m
  BY DEF WatcherInv, Seqs, Delivered
<1>2. /\ inbox' \in Seq(Messages) /\ Len(inbox') = Len(inbox) - 1
      /\ \A i \in 1 .. Len(inbox') : inbox'[i] = inbox[i + 1]
  BY <1>1, HeadTailProperties
<1>3. Len(inbox) \in Nat /\ Len(inbox) # 0 /\ inbox[1] = m
  BY <1>1
<1> QED BY <1>1, <1>2, <1>3

-----------------------------------------------------------------------------
(* What the steps that leave some of the state alone preserve.              *)
LEMMA LooksKept ==
  ASSUME WatcherInv, looks' = looks, kept' \subseteq kept
  PROVE  looks' \in Seq(Look) /\ OneFirst' /\ FoundKept'
BY DEF WatcherInv, Seqs, OneFirst, FoundKept

(* A look goes, the accounts kept do not change.                          *)
LEMMA LooksFewer ==
  ASSUME WatcherInv, NEW i \in DOMAIN looks, looks' = RemoveAt(looks, i), kept' = kept
  PROVE  looks' \in Seq(Look) /\ OneFirst' /\ FoundKept'
BY LookRemoved DEF WatcherInv, OneFirst, FoundKept

(* A look is added that has not searched yet.                             *)
LEMMA LooksMore ==
  ASSUME WatcherInv, looks' = Append(looks, NewLook(FALSE)), kept' = kept
  PROVE  /\ looks' \in Seq(Look) /\ OneFirst' /\ FoundKept'
         /\ (\E k \in DOMAIN looks' : looks'[k].first) <=> \E k \in DOMAIN looks : looks[k].first
<1>1. /\ looks' \in Seq(Look)
      /\ DOMAIN looks' = DOMAIN looks \cup {Len(looks) + 1}
      /\ \A k \in DOMAIN looks : looks'[k] = looks[k]
      /\ looks'[Len(looks) + 1] = NewLook(FALSE)
  BY LookAdded
<1>2. ~ NewLook(FALSE).first /\ ~ NewLook(FALSE).searched
  BY DEF NewLook
<1> QED BY <1>1, <1>2 DEF WatcherInv, OneFirst, FoundKept

(* Neither the inbox nor what is owed changes.                            *)
LEMMA SignalsKept ==
  ASSUME WatcherInv, kept' \subseteq kept, inbox' = inbox, owed' \subseteq owed
  PROVE  inbox' \in Seq(Messages) /\ RemovalsMeant'
BY DEF WatcherInv, Seqs, RemovalsMeant

(* One signal is delivered, nothing more is owed.                         *)
LEMMA SignalsFewer ==
  ASSUME WatcherInv, NEW m, Delivered(m), kept' = kept, owed' = owed
  PROVE  inbox' \in Seq(Messages) /\ RemovalsMeant'
BY SignalTaken DEF WatcherInv, RemovalsMeant

(* No look and no signal: so it is when the daemon is down.                 *)
LEMMA AllDropped ==
  ASSUME WatcherInv, looks' = << >>, inbox' = << >>, kept' = kept, owed' = owed
  PROVE  /\ looks' \in Seq(Look) /\ OneFirst' /\ FoundKept'
         /\ inbox' \in Seq(Messages) /\ RemovalsMeant'
BY DEF WatcherInv, OneFirst, FoundKept, RemovalsMeant

-----------------------------------------------------------------------------
(* At first there is no look and no signal, and nothing is shown.         *)
LEMMA WatcherInit == Init => WatcherInv
<1> SUFFICES ASSUME Init PROVE WatcherInv
  OBVIOUS
<1>1. Scalars
  <2>1. changes \in 0 .. MaxChanges /\ failures \in 0 .. MaxFailures /\ applied \in 0 .. MaxChanges
    BY BoundsAssumption DEF Init
  <2> QED BY <2>1 DEF Init, Scalars
<1>2. Seqs /\ FirstLook /\ OneFirst /\ FoundKept /\ RemovalsMeant /\ KeptStaysShown
  BY DEF Init, Seqs, FirstLook, OneFirst, FoundKept, RemovalsMeant, KeptStaysShown
<1> QED BY <1>1, <1>2 DEF WatcherInv

(* Opening starts the first look.                                         *)
LEMMA OpenStep == WatcherInv /\ Open => WatcherInv'
<1> SUFFICES ASSUME WatcherInv, Open PROVE WatcherInv'
  OBVIOUS
<1>1. /\ looks' \in Seq(Look)
      /\ DOMAIN looks' = DOMAIN looks \cup {Len(looks) + 1}
      /\ \A k \in DOMAIN looks : looks'[k] = looks[k]
      /\ looks'[Len(looks) + 1] = NewLook(TRUE)
  BY LookAdded DEF Open
<1>2. NewLook(TRUE).first /\ ~ NewLook(TRUE).searched
  BY DEF NewLook
<1>3. \A k \in DOMAIN looks : ~ looks[k].first
  BY DEF Open, WatcherInv, FirstLook
<1>4. inbox' \in Seq(Messages) /\ RemovalsMeant'
  BY SignalsKept DEF Open, keyringVars
<1>5. Scalars'
  BY DEF Open, keyringVars, WatcherInv, Scalars
<1>6. FirstLook'
  BY <1>1, <1>2 DEF Open, FirstLook
<1>7. OneFirst' /\ FoundKept' /\ KeptStaysShown'
  BY <1>1, <1>2, <1>3 DEF Open, keyringVars, WatcherInv, OneFirst, FoundKept, KeptStaysShown
<1> QED BY <1>1, <1>4, <1>5, <1>6, <1>7 DEF WatcherInv, Seqs

(* The bus is there: the monitor follows signals.                         *)
LEMMA GotBusStep == WatcherInv /\ GotBus => WatcherInv'
<1> SUFFICES ASSUME WatcherInv, GotBus PROVE WatcherInv'
  OBVIOUS
<1>1. looks' \in Seq(Look) /\ OneFirst' /\ FoundKept' /\ inbox' \in Seq(Messages) /\ RemovalsMeant'
  BY LooksKept, SignalsKept DEF GotBus, keyringVars
<1>2. Scalars' /\ FirstLook' /\ KeptStaysShown'
  BY DEF GotBus, keyringVars, WatcherInv, Scalars, FirstLook, KeptStaysShown
<1> QED BY <1>1, <1>2 DEF WatcherInv, Seqs

(* The start failed: looks and signals are gone.                          *)
LEMMA StartFailsStep == WatcherInv /\ StartFails => WatcherInv'
<1> SUFFICES ASSUME WatcherInv, StartFails PROVE WatcherInv'
  OBVIOUS
<1>1. looks' \in Seq(Look) /\ OneFirst' /\ FoundKept' /\ inbox' \in Seq(Messages) /\ RemovalsMeant'
  BY AllDropped DEF StartFails, keyringVars
<1>2. Scalars'
  BY BoundsAssumption DEF StartFails, keyringVars, WatcherInv, Scalars
<1>3. FirstLook' /\ KeptStaysShown'
  BY DEF StartFails, FirstLook, KeptStaysShown
<1> QED BY <1>1, <1>2, <1>3 DEF WatcherInv, Seqs

(* A search sees the keyring, and with it every account kept.               *)
LEMMA SearchStep ==
  ASSUME WatcherInv, NEW i \in DOMAIN looks, Search(i)
  PROVE  WatcherInv'
<1> DEFINE seen == [looks[i] EXCEPT !.searched = TRUE, !.found = keyring, !.at = changes]
<1>1. looks \in Seq(Look) /\ looks[i] \in Look
  BY DEF WatcherInv, Seqs
<1>2. seen \in Look /\ seen.first = looks[i].first /\ seen.found = keyring
  BY <1>1 DEF Look, WatcherInv, Scalars
<1>3. /\ looks' \in Seq(Look) /\ DOMAIN looks' = DOMAIN looks /\ looks'[i] = seen
      /\ \A k \in DOMAIN looks \ {i} : looks'[k] = looks[k]
  BY <1>1, <1>2 DEF Search
<1> HIDE DEF seen
<1>4. inbox' \in Seq(Messages) /\ RemovalsMeant'
  BY SignalsKept DEF Search, keyringVars
<1>5. Scalars' /\ KeptStaysShown'
  BY DEF Search, keyringVars, WatcherInv, Scalars, KeptStaysShown
<1>6. \A k \in DOMAIN looks : looks'[k].first = looks[k].first
  BY <1>2, <1>3
<1>7. FirstLook' /\ OneFirst'
  BY <1>3, <1>6 DEF Search, WatcherInv, FirstLook, OneFirst
<1>8. FoundKept'
  BY <1>2, <1>3 DEF Search, keyringVars, WatcherInv, FoundKept, Scalars
<1> QED BY <1>3, <1>4, <1>5, <1>7, <1>8 DEF WatcherInv, Seqs

(* A look is applied, or given up by a step that leaves start() where it is *)
(* unless the look was the first one.                                       *)
LEMMA FirstLookGone ==
  ASSUME WatcherInv, NEW i \in DOMAIN looks, looks' = RemoveAt(looks, i)
  PROVE  (\E k \in DOMAIN looks' : looks'[k].first) <=> (pc = "first" /\ ~ looks[i].first)
BY LookRemoved DEF WatcherInv, FirstLook, OneFirst

(* An answer applied had found every account kept.                        *)
LEMMA ApplyStep ==
  ASSUME WatcherInv, NEW i \in DOMAIN looks, Apply(i)
  PROVE  WatcherInv'
<1>1. looks' = RemoveAt(looks, i) /\ kept' = kept /\ owed' = owed /\ inbox' = inbox
  BY DEF Apply, keyringVars
<1>2. looks' \in Seq(Look) /\ OneFirst' /\ FoundKept' /\ inbox' \in Seq(Messages) /\ RemovalsMeant'
  BY <1>1, LooksFewer, SignalsKept
<1>3. looks[i] \in Look
  BY DEF WatcherInv, Seqs
<1>4. Scalars'
  BY <1>3 DEF Apply, keyringVars, WatcherInv, Scalars, Look
<1>5. FirstLook'
  <2>1. (\E k \in DOMAIN looks' : looks'[k].first) <=> (pc = "first" /\ ~ looks[i].first)
    BY <1>1, FirstLookGone
  <2> QED BY <2>1 DEF Apply, FirstLook, WatcherInv
<1>6. KeptStaysShown'
  BY <1>1 DEF Apply, WatcherInv, FoundKept, KeptStaysShown
<1> QED BY <1>2, <1>4, <1>5, <1>6 DEF WatcherInv, Seqs

(* A search that fails is looked at again or given up.                    *)
LEMMA SearchFailsStep ==
  ASSUME WatcherInv, NEW i \in DOMAIN looks, SearchFails(i)
  PROVE  WatcherInv'
<1>1. Scalars'
  BY BoundsAssumption DEF SearchFails, keyringVars, WatcherInv, Scalars
<1>2. CASE looks[i].first
  <2>1. looks' = << >> /\ inbox' = << >> /\ pc' = "down" /\ kept' = kept /\ owed' = owed
    BY <1>2 DEF SearchFails, keyringVars
  <2>2. looks' \in Seq(Look) /\ OneFirst' /\ FoundKept' /\ inbox' \in Seq(Messages) /\ RemovalsMeant'
    BY <2>1, AllDropped
  <2>3. FirstLook' /\ KeptStaysShown'
    BY <2>1 DEF FirstLook, KeptStaysShown
  <2> QED BY <1>1, <2>2, <2>3 DEF WatcherInv, Seqs
<1>3. CASE ~ looks[i].first
  <2>1. /\ looks' = RemoveAt(looks, i) /\ kept' = kept /\ owed' = owed /\ inbox' = inbox
        /\ pc' = pc /\ known' = known
    BY <1>3 DEF SearchFails, keyringVars
  <2>2. looks' \in Seq(Look) /\ OneFirst' /\ FoundKept' /\ inbox' \in Seq(Messages) /\ RemovalsMeant'
    BY <2>1, LooksFewer, SignalsKept
  <2>3. (\E k \in DOMAIN looks' : looks'[k].first) <=> (pc = "first" /\ ~ looks[i].first)
    BY <2>1, FirstLookGone
  <2>4. FirstLook' /\ KeptStaysShown'
    BY <1>3, <2>1, <2>3 DEF FirstLook, WatcherInv, KeptStaysShown
  <2> QED BY <1>1, <2>2, <2>4 DEF WatcherInv, Seqs
<1> QED BY <1>2, <1>3

-----------------------------------------------------------------------------
(* The service changed a collection: one more look.                       *)
LEMMA ServiceSignalStep == WatcherInv /\ OnServiceSignal => WatcherInv'
<1> SUFFICES ASSUME WatcherInv, OnServiceSignal PROVE WatcherInv'
  OBVIOUS
<1>1. Scalars' /\ KeptStaysShown'
  BY DEF OnServiceSignal, keyringVars, WatcherInv, Scalars, KeptStaysShown
<1>2. inbox' \in Seq(Messages) /\ RemovalsMeant'
  BY SignalsFewer DEF OnServiceSignal, keyringVars
<1>3. looks' \in Seq(Look) /\ OneFirst' /\ FoundKept' /\ FirstLook'
  <2>1. CASE looks' = Append(looks, NewLook(FALSE))
    BY <2>1, LooksMore DEF OnServiceSignal, keyringVars, WatcherInv, FirstLook
  <2>2. CASE looks' = looks
    BY <2>2, LooksKept DEF OnServiceSignal, keyringVars, WatcherInv, FirstLook
  <2> QED BY <2>1, <2>2 DEF OnServiceSignal
<1> QED BY <1>1, <1>2, <1>3 DEF WatcherInv, Seqs

(* A removal announced is of an account not kept.                         *)
LEMMA AccountSignalStep ==
  ASSUME WatcherInv, NEW u \in Accounts, OnAccountAdded(u) \/ OnAccountRemoved(u)
  PROVE  WatcherInv'
<1>1. PICK m : Delivered(m) /\ (m = <<"added", u>> \/ m = <<"removed", u>>)
  BY DEF OnAccountAdded, OnAccountRemoved
<1>2. /\ pc' = pc /\ looks' = looks /\ kept' = kept /\ owed' = owed
      /\ UNCHANGED <<failures, applied, keyring, changes>>
  BY DEF OnAccountAdded, OnAccountRemoved, keyringVars
<1>3. looks' \in Seq(Look) /\ OneFirst' /\ FoundKept' /\ inbox' \in Seq(Messages) /\ RemovalsMeant'
  BY <1>1, <1>2, LooksKept, SignalsFewer
<1>4. Scalars' /\ FirstLook'
  BY <1>2 DEF OnAccountAdded, OnAccountRemoved, WatcherInv, Scalars, FirstLook
<1>5. KeptStaysShown'
  <2>1. CASE OnAccountAdded(u)
    BY <1>2, <2>1 DEF OnAccountAdded, WatcherInv, KeptStaysShown
  <2>2. CASE OnAccountRemoved(u)
    <3>1. \E k \in DOMAIN inbox : inbox[k] = <<"removed", u>>
      BY <2>2, SignalTaken DEF OnAccountRemoved
    <3>2. u \notin kept
      BY <3>1 DEF WatcherInv, RemovalsMeant
    <3> QED BY <1>2, <2>2, <3>2 DEF OnAccountRemoved, WatcherInv, KeptStaysShown
  <2> QED BY <2>1, <2>2
<1> QED BY <1>3, <1>4, <1>5 DEF WatcherInv, Seqs

-----------------------------------------------------------------------------
(* A change of the keyring: announced by its service at once, perhaps owed  *)
(* an announcement, and that of a removal only for an account not kept.     *)
LEMMA ChangedStep ==
  ASSUME WatcherInv, NEW u \in Accounts, NEW what \in {"added", "removed"}, Changed(what, u),
         keyring' \subseteq Accounts, kept' \subseteq keyring', kept' \subseteq kept,
         what = "removed" => u \notin kept'
  PROVE  WatcherInv'
<1>1. Scalars'
  <2>1. owed' \subseteq {"added", "removed"} \X Accounts
    BY DEF Changed, WatcherInv, Scalars
  <2>2. changes' \in 0 .. MaxChanges
    BY BoundsAssumption DEF Changed, WatcherInv, Scalars
  <2> QED BY <2>1, <2>2 DEF Changed, WatcherInv, Scalars
<1>2. looks' \in Seq(Look) /\ OneFirst' /\ FoundKept'
  BY LooksKept DEF Changed
<1>3. inbox' \in Seq(Messages) /\ \A v \in kept' : \A i \in DOMAIN inbox' : inbox'[i] # <<"removed", v>>
  <2>1. CASE inbox' = Append(inbox, <<"changed">>)
    <3>1. <<"changed">> \in Messages
      BY DEF Messages
    <3>2. \A v : <<"changed">> # <<"removed", v>>
      OBVIOUS
    <3> HIDE DEF Messages
    <3> QED BY <2>1, <3>1, <3>2, SignalQueued DEF WatcherInv, RemovalsMeant
  <2>2. CASE inbox' = inbox
    BY <2>2 DEF WatcherInv, Seqs, RemovalsMeant
  <2> QED BY <2>1, <2>2 DEF Changed
<1>4. \A v \in kept' : <<"removed", v>> \notin owed'
  <2> SUFFICES ASSUME NEW v \in kept' PROVE <<"removed", v>> \notin owed'
    OBVIOUS
  <2>1. v \in kept
    OBVIOUS
  <2>2. <<"removed", v>> \notin owed
    BY <2>1 DEF WatcherInv, RemovalsMeant
  <2>3. <<what, u>> # <<"removed", v>>
    <3>1. CASE what = "removed"
      <4>1. v # u
        BY <3>1
      <4> QED BY <4>1
    <3>2. CASE what = "added"
      BY <3>2
    <3> QED BY <3>1, <3>2
  <2>4. CASE owed' = owed \cup {<<what, u>>}
    BY <2>2, <2>3, <2>4
  <2>5. CASE owed' = owed
    BY <2>2, <2>5
  <2> QED BY <2>4, <2>5 DEF Changed
<1>5. FirstLook' /\ KeptStaysShown'
  BY DEF Changed, WatcherInv, FirstLook, KeptStaysShown
<1> QED BY <1>1, <1>2, <1>3, <1>4, <1>5 DEF WatcherInv, Seqs, RemovalsMeant

(* An account stored anew was not kept before.                            *)
LEMMA StoreAccountStep ==
  ASSUME WatcherInv, NEW u \in Accounts, StoreAccount(u)
  PROVE  WatcherInv'
<1>1. /\ Changed("added", u) /\ kept' = kept /\ keyring' = keyring \cup {u}
  BY DEF StoreAccount
<1>2. keyring' \subseteq Accounts /\ kept' \subseteq keyring'
  BY <1>1 DEF WatcherInv, Scalars
<1> QED BY <1>1, <1>2, ChangedStep

(* An account cleared is kept no longer.                                  *)
LEMMA ClearAccountStep ==
  ASSUME WatcherInv, NEW u \in Accounts, ClearAccount(u)
  PROVE  WatcherInv'
<1>1. /\ Changed("removed", u) /\ kept' = kept \ {u} /\ keyring' = keyring \ {u}
  BY DEF ClearAccount
<1>2. keyring' \subseteq Accounts /\ kept' \subseteq keyring'
  BY <1>1 DEF WatcherInv, Scalars
<1> QED BY <1>1, <1>2, ChangedStep

(* What is owed is queued, a removal of an account not kept.              *)
LEMMA AnnounceStep ==
  ASSUME WatcherInv, NEW m \in owed, Announce(m)
  PROVE  WatcherInv'
<1>1. m \in Messages
  BY DEF WatcherInv, Scalars, Messages
<1>2. looks' \in Seq(Look) /\ OneFirst' /\ FoundKept'
  BY LooksKept DEF Announce
<1>3. inbox' \in Seq(Messages) /\ RemovalsMeant'
  <2>1. CASE inbox' = Append(inbox, m)
    <3>1. \A v \in kept : m # <<"removed", v>>
      BY DEF WatcherInv, RemovalsMeant
    <3> QED BY <1>1, <2>1, <3>1, SignalQueued DEF Announce, WatcherInv, RemovalsMeant
  <2>2. CASE inbox' = inbox
    BY <2>2, SignalsKept DEF Announce
  <2> QED BY <2>1, <2>2 DEF Announce
<1>4. Scalars' /\ FirstLook' /\ KeptStaysShown'
  BY DEF Announce, WatcherInv, Scalars, FirstLook, KeptStaysShown
<1> QED BY <1>2, <1>3, <1>4 DEF WatcherInv, Seqs

-----------------------------------------------------------------------------
(* Every step of the watcher keeps the invariant.                         *)
LEMMA WatcherStep == WatcherInv /\ [Next]_vars => WatcherInv'
<1> SUFFICES ASSUME WatcherInv, [Next]_vars PROVE WatcherInv'
  OBVIOUS
<1>1. CASE Open
  BY <1>1, OpenStep
<1>2. CASE GotBus
  BY <1>2, GotBusStep
<1>3. CASE StartFails
  BY <1>3, StartFailsStep
<1>4. CASE OnServiceSignal
  BY <1>4, ServiceSignalStep
<1>5. ASSUME NEW i \in DOMAIN looks, Search(i) \/ Apply(i) \/ SearchFails(i)
      PROVE  WatcherInv'
  BY <1>5, SearchStep, ApplyStep, SearchFailsStep
<1>6. ASSUME NEW u \in Accounts,
             OnAccountAdded(u) \/ OnAccountRemoved(u) \/ StoreAccount(u) \/ ClearAccount(u)
      PROVE  WatcherInv'
  BY <1>6, AccountSignalStep, StoreAccountStep, ClearAccountStep
<1>7. ASSUME NEW m \in owed, Announce(m)
      PROVE  WatcherInv'
  BY <1>7, AnnounceStep
<1>8. CASE UNCHANGED vars
  BY <1>8 DEF vars, WatcherInv, Scalars, Seqs, FirstLook, OneFirst, FoundKept, RemovalsMeant,
              KeptStaysShown
<1> QED BY <1>1, <1>2, <1>3, <1>4, <1>5, <1>6, <1>7, <1>8 DEF Next

(* The invariant holds in every state of every behaviour.                 *)
LEMMA WatcherInvariant == Spec => []WatcherInv
<1> QED BY WatcherInit, WatcherStep, PTL DEF Spec

(* The watcher keeps its types; in particular start() waits for a first     *)
(* look exactly while there is one.                                        *)
THEOREM WatcherTypeCorrect == Spec => []TypeOK
<1> QED BY WatcherInvariant, WatcherTypes, PTL

(* reload and the signal handlers, however they overlap, take the volume of *)
(* no account that has been stored all the time.                           *)
THEOREM StoredAccountKeepsVolume == Spec => []KeptStaysShown
<1>1. WatcherInv => KeptStaysShown
  BY DEF WatcherInv
<1> QED BY WatcherInvariant, <1>1, PTL
=============================================================================
