--------------------------- MODULE AccountWatcher ---------------------------
(***************************************************************************)
(* The volume monitor (volume-monitor/): AccountWatcher finds the accounts *)
(* in the keyring and RemoteVolumeMonitor shows a volume for each.         *)
(*                                                                         *)
(* A look at the keyring (reload) is a search and, later, the application  *)
(* of what it found; looks overlap, and each has item loading of its own,  *)
(* so they may be applied in another order than the keyring was searched.  *)
(* The keyring service, the setup wizard (proton-drive-setup) and other    *)
(* tools that store or remove accounts are outside the daemon.             *)
(***************************************************************************)
EXTENDS Integers, Sequences, SequencesExt

CONSTANTS
  Accounts,
  MaxChanges,   \* bound: changes of the keyring
  MaxFailures   \* bound: searches that fail

ASSUME BoundsAssumption == MaxChanges \in Nat /\ MaxFailures \in Nat

VARIABLES
  pc,        \* where start() is; "down" when it failed and the loop quit
  known,     \* _known; the accounts whose volumes are in _volumes
  looks,     \* reloads under way
  inbox,     \* D-Bus signals on their way to the daemon, in bus order
  keyring,   \* accounts with a uid item
  owed,      \* accounts the wizard or a tool changed but has not announced yet
  changes,   \* changes of the keyring so far
  failures,
  applied,   \* history: changes the newest look applied had seen
  kept,      \* history: accounts stored all the time
  excused    \* history: known was left behind by an event named below

vars == <<pc, known, looks, inbox, keyring, owed, changes, failures, applied, kept, excused>>
keyringVars == <<keyring, owed, changes, kept>>

Messages == {<<"changed">>} \cup ({"added", "removed"} \X Accounts)
Look == [first : BOOLEAN, searched : BOOLEAN, found : SUBSET Accounts, at : 0 .. MaxChanges]

TypeOK ==
  /\ pc \in {"opening", "first", "getbus", "armed", "down"}
  /\ known \subseteq Accounts /\ keyring \subseteq Accounts /\ kept \subseteq keyring
  /\ \A i \in DOMAIN looks : looks[i] \in Look
  /\ pc = "first" <=> \E i \in DOMAIN looks : looks[i].first
  /\ \A i \in DOMAIN inbox : inbox[i] \in Messages
  /\ owed \subseteq {"added", "removed"} \X Accounts
  /\ changes \in 0 .. MaxChanges /\ failures \in 0 .. MaxFailures
  /\ applied \in 0 .. MaxChanges /\ excused \in BOOLEAN

Init ==
  /\ pc = "opening"
  /\ known = {} /\ looks = << >> /\ inbox = << >>
  /\ keyring \in SUBSET Accounts
  /\ owed = {}
  /\ changes = 0 /\ failures = 0
  /\ applied = 0 /\ kept = keyring /\ excused = FALSE

NewLook(first) == [first |-> first, searched |-> FALSE, found |-> {}, at |-> 0]

-----------------------------------------------------------------------------
(* start().                                                                *)

(* Service.open is through; its proxy receives the service's signals from  *)
(* here on, though nothing listens yet.                                    *)
Open ==
  /\ pc = "opening"
  /\ pc' = "first"
  /\ looks' = Append(looks, NewLook(TRUE))
  /\ UNCHANGED <<known, inbox, failures, applied, excused, keyringVars>>

GotBus ==
  /\ pc = "getbus"
  /\ pc' = "armed"
  /\ UNCHANGED <<known, looks, inbox, failures, applied, excused, keyringVars>>

(* on_bus_acquired quits the loop when start throws.                       *)
StartFails ==
  /\ pc \in {"opening", "getbus"}
  /\ failures < MaxFailures
  /\ failures' = failures + 1
  /\ pc' = "down"
  /\ known' = {} /\ looks' = << >> /\ inbox' = << >>
  /\ UNCHANGED <<applied, excused, keyringVars>>

-----------------------------------------------------------------------------
(* reload().                                                               *)

Search(i) ==
  /\ ~ looks[i].searched
  /\ looks' = [looks EXCEPT ![i] = [@ EXCEPT !.searched = TRUE, !.found = keyring, !.at = changes]]
  /\ UNCHANGED <<pc, known, inbox, failures, applied, excused, keyringVars>>

(* The differences are emitted and known is what was found.  After the      *)
(* first look start() connects on_service_dbus_signal.                      *)
Apply(i) ==
  /\ looks[i].searched
  /\ known' = looks[i].found
  /\ looks' = RemoveAt(looks, i)
  /\ pc' = IF looks[i].first THEN "getbus" ELSE pc
  /\ applied' = IF looks[i].at < applied THEN applied ELSE looks[i].at
  /\ excused' = (looks[i].at # changes /\ (excused \/ looks[i].at < applied))
  /\ UNCHANGED <<inbox, failures, keyringVars>>

(* Mutant: a search that fails counts as one that finds nothing.            *)
SearchFailsEmpty(i) ==
  /\ ~ looks[i].searched /\ failures < MaxFailures
  /\ failures' = failures + 1
  /\ looks' = [looks EXCEPT ![i] = [@ EXCEPT !.searched = TRUE, !.at = changes]]
  /\ UNCHANGED <<pc, known, inbox, applied, excused, keyringVars>>

(* Mutant: the first look's failure is warned about like any other's.       *)
SearchFailsQuietly(i) ==
  /\ failures < MaxFailures
  /\ failures' = failures + 1
  /\ looks' = RemoveAt(looks, i)
  /\ excused' = TRUE
  /\ UNCHANGED <<pc, known, inbox, applied, keyringVars>>

(* reload throws: start() with it, or the callback warns and nobody looks   *)
(* again before the next change.                                            *)
SearchFails(i) ==
  /\ failures < MaxFailures
  /\ failures' = failures + 1
  /\ \/ /\ looks[i].first
        /\ pc' = "down" /\ known' = {} /\ looks' = << >> /\ inbox' = << >>
     \/ /\ ~ looks[i].first
        /\ looks' = RemoveAt(looks, i)
        /\ UNCHANGED <<pc, known, inbox>>
  /\ excused' = TRUE
  /\ UNCHANGED <<applied, keyringVars>>

-----------------------------------------------------------------------------
(* The signals.                                                            *)

Delivered(m) == inbox # << >> /\ Head(inbox) = m /\ inbox' = Tail(inbox)

(* Mutant: one look at a time.                                              *)
OnServiceSignalUnlessBusy ==
  /\ Delivered(<<"changed">>)
  /\ looks' = IF pc \in {"getbus", "armed"} /\ looks = << >>
              THEN Append(looks, NewLook(FALSE)) ELSE looks
  /\ excused' = (excused \/ pc = "first")
  /\ UNCHANGED <<pc, known, failures, applied, keyringVars>>

(* Every change starts a look of its own; before the handler is connected   *)
(* the signal is lost, and with it a change the first look did not see.     *)
OnServiceSignal ==
  /\ Delivered(<<"changed">>)
  /\ \/ /\ pc \in {"getbus", "armed"}
        /\ looks' = Append(looks, NewLook(FALSE))
        /\ UNCHANGED excused
     \/ /\ pc = "first"
        /\ excused' = TRUE
        /\ UNCHANGED looks
  /\ UNCHANGED <<pc, known, failures, applied, keyringVars>>

(* The wizard's word is taken without a look at the keyring.                *)
OnAccountAdded(u) ==
  /\ Delivered(<<"added", u>>)
  /\ known' = known \cup {u}
  /\ excused' = (excused \/ u \notin keyring)
  /\ UNCHANGED <<pc, looks, failures, applied, keyringVars>>

OnAccountRemoved(u) ==
  /\ Delivered(<<"removed", u>>)
  /\ known' = known \ {u}
  /\ excused' = (excused \/ u \in keyring)
  /\ UNCHANGED <<pc, looks, failures, applied, keyringVars>>

-----------------------------------------------------------------------------
(* Outside.                                                                *)

Changed(what, u) ==
  /\ changes < MaxChanges
  /\ changes' = changes + 1
  /\ inbox' = IF pc \in {"opening", "down"} THEN inbox ELSE Append(inbox, <<"changed">>)
  /\ \/ owed' = owed \cup {<<what, u>>}
     \/ UNCHANGED owed
  /\ UNCHANGED <<pc, known, looks, failures, applied, excused>>

(* secret_store of a uid, by the wizard, which then announces it, or not.   *)
StoreAccount(u) ==
  /\ u \notin keyring
  /\ keyring' = keyring \cup {u}
  /\ UNCHANGED kept
  /\ Changed("added", u)

ClearAccount(u) ==
  /\ u \in keyring
  /\ keyring' = keyring \ {u}
  /\ kept' = kept \ {u}
  /\ Changed("removed", u)

(* _emit_account_signal; nobody keeps it for a daemon not subscribed yet.   *)
Announce(m) ==
  /\ m \in owed
  /\ owed' = owed \ {m}
  /\ inbox' = IF pc = "armed" THEN Append(inbox, m) ELSE inbox
  /\ UNCHANGED <<pc, known, looks, failures, applied, excused, keyring, changes, kept>>

Next ==
  \/ Open \/ GotBus \/ StartFails \/ OnServiceSignal
  \/ \E i \in DOMAIN looks : Search(i) \/ Apply(i) \/ SearchFails(i)
  \/ \E u \in Accounts : OnAccountAdded(u) \/ OnAccountRemoved(u) \/ StoreAccount(u) \/ ClearAccount(u)
  \/ \E m \in owed : Announce(m)

Spec == Init /\ [][Next]_vars

(* The main loop runs and the keyring service answers.                      *)
FairSpec ==
  /\ Spec
  /\ WF_vars(Open) /\ WF_vars(GotBus) /\ WF_vars(OnServiceSignal)
  /\ WF_vars(\E u \in Accounts : OnAccountAdded(u) \/ OnAccountRemoved(u))
  /\ WF_vars(\E i \in DOMAIN looks : Search(i)) /\ WF_vars(\E i \in DOMAIN looks : Apply(i))

-----------------------------------------------------------------------------
(* The volumes come to be the accounts in the keyring, whatever way looks   *)
(* and signals overlap -- unless the daemon could not start, or was left    *)
(* behind with no change to wake it: by a change between the first look     *)
(* and the handler's connection, an older look applied after a newer one,   *)
(* an announcement that arrives when its account is gone again, or a look   *)
(* that failed.                                                             *)
VolumesCatchUp == <>[](pc = "down" \/ excused \/ known = keyring)

(* An account that stays in the keyring keeps its volume from the end of    *)
(* the first look on: no late look, failed look or stray signal takes it.   *)
KeptStaysShown == pc \in {"getbus", "armed"} => kept \subseteq known
=============================================================================
