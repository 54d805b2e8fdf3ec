--------------------------- MODULE BackendDaemon ----------------------------
(***************************************************************************)
(* Life of the backend process gvfsd-proton (backend/daemon-main.c, called *)
(* by daemon-main-generic.c): start, owning a bus name, telling the        *)
(* spawner (gvfsd) how that went, serving, and leaving the main loop.      *)
(*                                                                         *)
(* The name is org.gtk.vfs.mountpoint_<pid>.  The processes here have the  *)
(* same one: the same pid in different pid namespaces, on one session bus. *)
(* G_BUS_NAME_OWNER_FLAGS_NONE puts a late claimant in the bus's queue     *)
(* (its name is "lost", then perhaps acquired) and never lets an owner be  *)
(* replaced, so on_name_lost's branch for that is not taken.               *)
(***************************************************************************)
EXTENDS Naturals, Sequences, SequencesExt

CONSTANTS
  Spawned,  \* processes started with --spawner: no mount spec
  Direct    \* processes started by hand with key=value: a mount spec, no spawner

ASSUME ProcessesAssumption == Spawned \cap Direct = {}

Procs == Spawned \cup Direct

VARIABLES
  phase,     \* where main() is; "quitting": g_main_loop_quit was called
  result,    \* process_result
  daemon,    \* data->daemon is there
  mounting,  \* g_vfs_daemon_initiate_mount was called for data->mount_spec
  names,     \* the bus: owner of the name, then the processes queued for it
  inbox,     \* what the bus has told a process about the name
  mail,      \* Spawned calls on their way to the spawner
  awaiting,  \* Spawned calls whose call_spawned_cb has not run
  spawnerUp, \* the spawner is on the bus
  told,      \* history: what the spawner has been told
  unsent,    \* history: processes whose send_spawned could not make its proxy
  reason     \* history: why the main loop was first left

vars == <<phase, result, daemon, mounting, names, inbox, mail, awaiting, spawnerUp,
          told, unsent, reason>>
reports == <<mail, awaiting, unsent>>

Phases == {"starting", "running", "quitting", "exited"}
Reasons == {"none", "failed", "bus", "shutdown"}

TypeOK ==
  /\ phase \in [Procs -> Phases]
  /\ result \in [Procs -> 0 .. 1]
  /\ daemon \in [Procs -> BOOLEAN] /\ mounting \in [Procs -> BOOLEAN]
  /\ names \in Seq(Procs)
  /\ inbox \in [Procs -> Seq({"acquired", "queued", "closed"})]
  /\ mail \in [Procs -> Seq(BOOLEAN)]
  /\ awaiting \in [Procs -> Seq(BOOLEAN)]
  /\ told \in [Procs -> Seq(BOOLEAN)]
  /\ spawnerUp \in BOOLEAN
  /\ unsent \subseteq Procs
  /\ reason \in [Procs -> Reasons]

Init ==
  /\ phase = [p \in Procs |-> "starting"]
  /\ result = [p \in Procs |-> 0]
  /\ daemon = [p \in Procs |-> FALSE]
  /\ mounting = [p \in Procs |-> FALSE]
  /\ names = << >>
  /\ inbox = [p \in Procs |-> << >>]
  /\ mail = [p \in Procs |-> << >>]
  /\ awaiting = [p \in Procs |-> << >>]
  /\ spawnerUp = TRUE
  /\ told = [p \in Procs |-> << >>]
  /\ unsent = {}
  /\ reason = [p \in Procs |-> "none"]

Alive(p) == phase[p] \in {"running", "quitting"}

(* What daemon_parse_args makes of the command line: a spawner to call, or  *)
(* a mount spec -- Proton's default one when there are no arguments.        *)
HasSpawner(p) == p \in Spawned
HasMountSpec(p) == p \in Direct

-----------------------------------------------------------------------------
(* The bus (external).                                                     *)

(* RequestName's answer to p.                                              *)
Notice(boxes, p) ==
  [boxes EXCEPT ![p] = Append(@, IF names = << >> THEN "acquired" ELSE "queued")]

(* p leaves the bus; when it owned the name the next in the queue gets it.  *)
ReleaseName(boxes, p) ==
  LET rest == RemoveFirst(names, p)
  IN  /\ names' = rest
      /\ inbox' = IF names # << >> /\ Head(names) = p /\ rest # << >>
                  THEN [boxes EXCEPT ![Head(rest)] = Append(@, "acquired")]
                  ELSE boxes

-----------------------------------------------------------------------------
(* daemon_init finds no session bus, or daemon_parse_args prints its usage. *)
StartFails(p) ==
  /\ phase[p] = "starting"
  /\ phase' = [phase EXCEPT ![p] = "exited"]
  /\ result' = [result EXCEPT ![p] = 1]
  /\ UNCHANGED <<daemon, mounting, names, inbox, reports, spawnerUp, told, reason>>

(* daemon_main up to g_main_loop_run: the name is asked for.               *)
OwnName(p) ==
  /\ phase[p] = "starting"
  /\ phase' = [phase EXCEPT ![p] = "running"]
  /\ inbox' = Notice(inbox, p)
  /\ names' = Append(names, p)
  /\ UNCHANGED <<result, daemon, mounting, reports, spawnerUp, told, reason>>

(* g_main_loop_quit; callbacks already due may still run before main exits. *)
Quit(p, why) ==
  /\ phase' = [phase EXCEPT ![p] = "quitting"]
  /\ reason' = [reason EXCEPT ![p] = IF @ = "none" THEN why ELSE @]

(* Mutant: process_result counts the failures.                              *)
SpawnedCallbackCounts(p, success) ==
  /\ mounting' = [mounting EXCEPT ![p] = @ \/ (success /\ HasMountSpec(p))]
  /\ result' = [result EXCEPT ![p] = IF success THEN @ ELSE @ + 1]
  /\ \/ success /\ UNCHANGED <<phase, reason>>
     \/ ~ success /\ Quit(p, "failed")

(* spawned_succeeded_cb mounts what the command line named;                 *)
(* spawned_failed_cb gives up.                                             *)
SpawnedCallback(p, success) ==
  \/ /\ success
     /\ mounting' = [mounting EXCEPT ![p] = @ \/ HasMountSpec(p)]
     /\ UNCHANGED <<result, phase, reason>>
  \/ /\ ~ success
     /\ result' = [result EXCEPT ![p] = 1]
     /\ Quit(p, "failed")
     /\ UNCHANGED mounting

(* send_spawned.  Without a proxy for the spawner it returns and the        *)
(* callback is never run.                                                  *)
SendSpawned(p, success) ==
  \/ /\ ~ HasSpawner(p)
     /\ SpawnedCallback(p, success)
     /\ UNCHANGED reports
  \/ /\ HasSpawner(p)
     /\ mail' = [mail EXCEPT ![p] = IF spawnerUp THEN Append(@, success) ELSE @]
     /\ awaiting' = [awaiting EXCEPT ![p] = Append(@, success)]
     /\ UNCHANGED <<unsent, result, phase, mounting, reason>>
  \/ /\ HasSpawner(p)
     /\ unsent' = unsent \cup {p}
     /\ UNCHANGED <<mail, awaiting, result, phase, mounting, reason>>

Told(p, what) ==
  /\ Alive(p) /\ inbox[p] # << >> /\ Head(inbox[p]) = what
  /\ inbox' = [inbox EXCEPT ![p] = Tail(@)]
  /\ UNCHANGED <<names, spawnerUp, told>>

(* on_name_acquired; g_vfs_daemon_new may return NULL.                      *)
NameAcquired(p) ==
  /\ Told(p, "acquired")
  /\ \E created \in BOOLEAN :
       /\ daemon' = [daemon EXCEPT ![p] = created]
       /\ SendSpawned(p, created)

(* Mutant: a taken name is not reported; the loop runs on.                  *)
NameTakenSilent(p) ==
  /\ Told(p, "queued")
  /\ UNCHANGED <<daemon, mounting, result, phase, reason, reports>>

(* on_name_lost while somebody else owns the name: ALREADY_MOUNTED.         *)
NameTaken(p) ==
  /\ Told(p, "queued")
  /\ SendSpawned(p, FALSE)
  /\ UNCHANGED daemon

(* on_name_lost with no connection.                                        *)
ConnectionLost(p) ==
  /\ Told(p, "closed")
  /\ result' = [result EXCEPT ![p] = 1]
  /\ Quit(p, "bus")
  /\ UNCHANGED <<daemon, mounting, reports>>

(* Mutant: after an error of the call the callback is not run.              *)
CallSpawnedStrict(p) ==
  /\ Alive(p) /\ awaiting[p] # << >>
  /\ awaiting' = [awaiting EXCEPT ![p] = Tail(@)]
  /\ IF mail[p] = << >> /\ spawnerUp
     THEN SpawnedCallback(p, Head(awaiting[p]))
     ELSE UNCHANGED <<mounting, result, phase, reason>>
  /\ UNCHANGED <<daemon, names, inbox, mail, unsent, spawnerUp, told>>

(* Mutant: an error of the call is taken for a failure to start.            *)
CallSpawnedGivesUp(p) ==
  /\ Alive(p) /\ awaiting[p] # << >>
  /\ awaiting' = [awaiting EXCEPT ![p] = Tail(@)]
  /\ SpawnedCallback(p, Head(awaiting[p]) /\ mail[p] = << >>)
  /\ UNCHANGED <<daemon, names, inbox, mail, unsent, spawnerUp, told>>

(* call_spawned_cb: the spawner answered, or the call failed or timed out   *)
(* (whether or not it is still going to be read): the callback runs.        *)
CallSpawnedCb(p) ==
  /\ Alive(p) /\ awaiting[p] # << >>
  /\ awaiting' = [awaiting EXCEPT ![p] = Tail(@)]
  /\ SpawnedCallback(p, Head(awaiting[p]))
  /\ UNCHANGED <<daemon, names, inbox, mail, unsent, spawnerUp, told>>

(* daemon_shutdown: the GVfsDaemon has nothing left to serve.               *)
Shutdown(p) ==
  /\ phase[p] = "running" /\ daemon[p]
  /\ Quit(p, "shutdown")
  /\ UNCHANGED <<result, daemon, mounting, names, inbox, reports, spawnerUp, told>>

(* After g_main_loop_run: the daemon is dropped, the name is given up.      *)
Exit(p) ==
  /\ phase[p] = "quitting"
  /\ phase' = [phase EXCEPT ![p] = "exited"]
  /\ daemon' = [daemon EXCEPT ![p] = FALSE]
  /\ ReleaseName([inbox EXCEPT ![p] = << >>], p)
  /\ UNCHANGED <<result, mounting, reports, spawnerUp, told, reason>>

-----------------------------------------------------------------------------
(* The rest of the world.                                                  *)

(* The bus closes a process's connection.                                  *)
BusCloses(p) ==
  /\ Alive(p) /\ p \in Range(names)
  /\ ReleaseName([inbox EXCEPT ![p] = Append(@, "closed")], p)
  /\ UNCHANGED <<phase, result, daemon, mounting, reports, spawnerUp, told, reason>>

SpawnerHears(p) ==
  /\ spawnerUp /\ mail[p] # << >>
  /\ told' = [told EXCEPT ![p] = Append(@, Head(mail[p]))]
  /\ mail' = [mail EXCEPT ![p] = Tail(@)]
  /\ UNCHANGED <<phase, result, daemon, mounting, names, inbox, awaiting, unsent,
                 spawnerUp, reason>>

SpawnerDies ==
  /\ spawnerUp
  /\ spawnerUp' = FALSE
  /\ mail' = [p \in Procs |-> << >>]
  /\ UNCHANGED <<phase, result, daemon, mounting, names, inbox, awaiting, unsent, told,
                 reason>>

MainLoop(p) ==
  NameAcquired(p) \/ NameTaken(p) \/ ConnectionLost(p) \/ CallSpawnedCb(p) \/ Exit(p)

Next ==
  \/ \E p \in Procs : \/ StartFails(p) \/ OwnName(p) \/ MainLoop(p) \/ Shutdown(p)
                      \/ BusCloses(p) \/ SpawnerHears(p)
  \/ SpawnerDies

Spec == Init /\ [][Next]_vars

(* The main loop dispatches what is due; a D-Bus call ends, by an answer or *)
(* by GDBus's time limit.  Nobody has to shut the daemon down.              *)
FairSpec == Spec /\ \A p \in Procs : WF_vars(MainLoop(p))

-----------------------------------------------------------------------------
(* The spawner's "mounted" can be relied on: a process that told it success *)
(* leaves only because it was shut down or lost the bus -- or because it    *)
(* had reported failure first, while it was queued for the name, and got    *)
(* the name before call_spawned_cb ran.                                     *)
SuccessStands ==
  \A p \in Spawned :
    phase[p] = "exited" /\ TRUE \in Range(told[p]) =>
      reason[p] \in {"shutdown", "bus"} \/ FALSE \in Range(told[p])

(* No process sits on the bus unheard: one whose claim to the name was      *)
(* answered, either way, calls its spawner, mounts by itself or exits --    *)
(* unless send_spawned could not make its proxy.                            *)
ReportsOrExits ==
  \A p \in Procs :
    (phase[p] = "running" /\ inbox[p] # << >>) ~>
      awaiting[p] # << >> \/ mounting[p] \/ phase[p] = "exited" \/ p \in unsent

(* A process that reports failure ends, with status 1, though the spawner   *)
(* may never answer -- or with 0 when it was shut down meanwhile.           *)
FailureExits ==
  \A p \in Spawned :
    (FALSE \in Range(awaiting[p])) ~>
      phase[p] = "exited" /\ (result[p] = 1 \/ reason[p] = "shutdown")
=============================================================================
