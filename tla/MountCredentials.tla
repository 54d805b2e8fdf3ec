-------------------------- MODULE MountCredentials --------------------------
(***************************************************************************)
(* How an account is mounted: do_mount (backend/gvfsbackendproton.c) finds *)
(* or spawns a helper, reads three secrets from the keyring, resumes the   *)
(* session through the helper (ResumeSession in helper/main.go and         *)
(* helper/drive/session.go) and stores the rotated refresh token; and how  *)
(* the setup wizard (proton-drive-setup) writes the secrets in the first   *)
(* place.  Backend, helpers, wizard and Proton are separate processes: any *)
(* of the first three may die between two steps.                           *)
(*                                                                         *)
(* One account.  A log-in is the number of its UID; a refresh token is its *)
(* log-in with a generation, and each use of it makes the next generation  *)
(* the only valid one.  The salted passphrase depends on the password      *)
(* alone: it is stored or it is not.                                       *)
(***************************************************************************)
EXTENDS Naturals

CONSTANTS
  MaxHelpers,  \* bound: helper processes the backend spawns
  MaxMounts,   \* bound: calls of do_mount
  MaxLogins,   \* bound: log-ins of the wizard
  MaxTokens    \* bound: generations of one log-in's refresh token

ASSUME MountBounds ==
  MaxHelpers \in Nat /\ MaxMounts \in Nat /\ MaxLogins \in Nat /\ MaxTokens \in Nat \ {0}

Helpers == 1 .. MaxHelpers
Mounts == 1 .. MaxMounts
Logins == 1 .. MaxLogins

VARIABLES
  server,    \* Proton: the valid generation of each log-in (0: no such session)
  logins,    \* Proton: UIDs handed out so far
  keyring,   \* the three secrets, as secret-tool keeps them
  helper,    \* state of each helper process
  sock,      \* whose socket file is at the path (0: no file)
  session,   \* each helper's session: the refresh token its API client holds
  backend,   \* gvfsd-proton inside do_mount, mounted, or how it ended
  mount,     \* number of the latest do_mount
  handler,   \* the ResumeSession handler of each mount
  wizard,    \* the setup wizard and the log-in it is storing
  mishaps    \* history: what went wrong since the wizard began to store

vars == <<server, logins, keyring, helper, sock, session, backend, mount, handler,
          wizard, mishaps>>

Tokens == [uid : 0 .. MaxLogins, gen : 0 .. MaxTokens]
NoToken == [uid |-> 0, gen |-> 0]

(* A look-up of a missing secret gives the empty string: UID 0, NoToken.    *)
(* It never gives NULL, so do_mount's test for NULL never holds.            *)
Credentials == [uid : 0 .. MaxLogins, refresh_token : Tokens, salted_passphrase : BOOLEAN]
NoCredentials == [uid |-> 0, refresh_token |-> NoToken, salted_passphrase |-> FALSE]

HelperStates == {"absent", "starting", "cleared", "bound", "listening", "dead"}
BackendSteps ==
  {"idle", "connecting", "finding", "spawning", "waiting", "reconnecting",
   "lookup_uid", "lookup_token", "lookup_passphrase", "calling", "resuming",
   "store_uid", "store_token", "mounted", "failed", "crashed", "killed"}

(* No backend process: not mounted yet or unmounted; the job was answered   *)
(* with an error; the backend ended by itself, or was killed, with the job  *)
(* not answered.                                                            *)
Gone == {"idle", "failed", "crashed", "killed"}
BeforeConnection ==
  {"idle", "connecting", "finding", "spawning", "waiting", "reconnecting", "failed", "killed"}
WizardSteps ==
  {"idle", "signing_in", "verifying", "unlocking", "store_uid", "store_token",
   "store_passphrase"}
Mishaps ==
  {"refreshed", "reply_lost", "resume_failed", "store_failed", "crash", "overlap"}

IdleBackend == [pc |-> "idle", conn |-> 0, creds |-> NoCredentials, fresh |-> NoToken]
IdleWizard == [pc |-> "idle", fresh |-> NoToken]
NoHandler == [step |-> "none", on |-> 0, creds |-> NoCredentials, fresh |-> NoToken]

TypeOK ==
  /\ server \in [Logins -> 0 .. MaxTokens]
  /\ logins \in 0 .. MaxLogins
  /\ keyring \in Credentials
  /\ helper \in [Helpers -> HelperStates]
  /\ sock \in 0 .. MaxHelpers
  /\ session \in [Helpers -> Tokens]
  /\ backend \in [pc : BackendSteps, conn : 0 .. MaxHelpers, creds : Credentials,
                  fresh : Tokens]
  /\ backend.pc \notin BeforeConnection => backend.conn \in Helpers
  /\ mount \in 0 .. MaxMounts
  /\ handler \in [Mounts -> [step : {"none", "refresh", "unlock"}, on : 0 .. MaxHelpers,
                             creds : Credentials, fresh : Tokens]]
  /\ wizard \in [pc : WizardSteps, fresh : Tokens]
  /\ mishaps \subseteq Mishaps

Init ==
  /\ server = [u \in Logins |-> 0]
  /\ logins = 0
  /\ keyring = NoCredentials
  /\ helper = [h \in Helpers |-> "absent"]
  /\ sock = 0
  /\ session = [h \in Helpers |-> NoToken]
  /\ backend = IdleBackend
  /\ mount = 0
  /\ handler = [m \in Mounts |-> NoHandler]
  /\ wizard = IdleWizard
  /\ mishaps = {}

Alive(h) == helper[h] \notin {"absent", "dead"}

(* The only token Proton accepts for a log-in.                              *)
Valid(token) == token.uid \in Logins /\ token.gen # 0 /\ server[token.uid] = token.gen

(* A rotated token is held by a mount, or part of a sign-in by the wizard,  *)
(* and not yet in the keyring.                                              *)
MountHolds ==
  \/ backend.pc \in {"store_uid", "store_token"}
  \/ \E m \in Mounts : handler[m].step = "unlock"
WizardHolds == wizard.pc \in {"store_token", "store_passphrase"}

-----------------------------------------------------------------------------
(* The backend.                                                             *)
At(pc) == backend.pc = pc
Goto(pc) == backend' = [backend EXCEPT !.pc = pc]
Ended(pc) == [IdleBackend EXCEPT !.pc = pc]
Fail == backend' = Ended("failed")  \* g_vfs_job_failed with an error; the backend goes away
OthersThanBackend ==
  <<server, logins, keyring, helper, sock, session, mount, handler, wizard, mishaps>>

StartMount ==
  /\ backend.pc \in Gone /\ mount < MaxMounts
  /\ mount' = mount + 1
  /\ backend' = Ended("connecting")
  /\ UNCHANGED <<server, logins, keyring, helper, sock, session, handler, wizard, mishaps>>

(* proton_rpc_new: somebody must be listening behind the file.              *)
Reachable == sock # 0 /\ helper[sock] = "listening"
Connected == [backend EXCEPT !.pc = "lookup_uid", !.conn = sock]

Connect ==
  /\ At("connecting")
  /\ backend' = IF Reachable THEN Connected ELSE [backend EXCEPT !.pc = "finding"]
  /\ UNCHANGED OthersThanBackend

(* find_helper_binary, then unlink of whatever lies at the path.            *)
FindHelper ==
  /\ At("finding")
  /\ \/ Goto("spawning") /\ sock' = 0
     \/ Fail /\ UNCHANGED sock
  /\ UNCHANGED <<server, logins, keyring, helper, session, mount, handler, wizard, mishaps>>

FirstAbsent(h) == helper[h] = "absent" /\ \A g \in 1 .. h - 1 : helper[g] # "absent"

Spawn ==
  /\ At("spawning")
  /\ \/ \E h \in Helpers : FirstAbsent(h) /\ helper' = [helper EXCEPT ![h] = "starting"]
                                          /\ Goto("waiting")
     \/ Fail /\ UNCHANGED helper
  /\ UNCHANGED <<server, logins, keyring, sock, session, mount, handler, wizard, mishaps>>

(* Polls for the file until it exists or the last poll found none.          *)
WaitForSocket ==
  /\ At("waiting")
  /\ \/ sock # 0 /\ Goto("reconnecting")
     \/ sock = 0 /\ Fail
  /\ UNCHANGED OthersThanBackend

(* Mutant: the file exists, so the connection is taken for granted.         *)
ReconnectUnchecked ==
  /\ At("reconnecting")
  /\ backend' = Connected
  /\ UNCHANGED OthersThanBackend

Reconnect ==
  /\ At("reconnecting")
  /\ backend' = IF Reachable THEN Connected ELSE Ended("failed")
  /\ UNCHANGED OthersThanBackend

(* One run of secret-tool for each field; not being able to run it fails    *)
(* the mount (LookupFails).                                                 *)
Lookup ==
  /\ \/ At("lookup_uid") /\ backend' = [backend EXCEPT !.pc = "lookup_token",
                                          !.creds.uid = keyring.uid]
     \/ At("lookup_token") /\ backend' = [backend EXCEPT !.pc = "lookup_passphrase",
                                            !.creds.refresh_token = keyring.refresh_token]
     \/ At("lookup_passphrase") /\ backend' = [backend EXCEPT !.pc = "calling",
                                         !.creds.salted_passphrase = keyring.salted_passphrase]
  /\ UNCHANGED OthersThanBackend

LookupFails ==
  /\ backend.pc \in {"lookup_uid", "lookup_token", "lookup_passphrase"}
  /\ Fail
  /\ UNCHANGED OthersThanBackend

(* proton_rpc_resume_session: writing to a helper that is dead fails, with  *)
(* an error; a living one reads the line.                                   *)
CallResume ==
  /\ At("calling")
  /\ \/ /\ Alive(backend.conn)
        /\ Goto("resuming")
        /\ handler' = [handler EXCEPT ![mount] = [step |-> "refresh", on |-> backend.conn,
                                                 creds |-> backend.creds, fresh |-> NoToken]]
     \/ ~ Alive(backend.conn) /\ Fail /\ UNCHANGED handler
  /\ UNCHANGED <<server, logins, keyring, helper, sock, session, mount, wizard, mishaps>>

(* Mutant: the end of the stream is taken for "nothing yet".                *)
ResumeEofIgnored ==
  /\ At("resuming") /\ helper[backend.conn] = "dead"
  /\ UNCHANGED vars

(* The helper died with the call under way.  A reset connection is an error *)
(* like any other; a clean end of file sets none, and do_mount hands NULL   *)
(* to g_vfs_job_failed_from_error: the end of the backend (see RpcChannel), *)
(* with the job not answered.                                               *)
ResumeEof ==
  /\ At("resuming") /\ helper[backend.conn] = "dead"
  /\ Fail \/ Goto("crashed")
  /\ UNCHANGED OthersThanBackend

(* secret_tool_store: a failure is only logged.                             *)
StoreUid ==
  /\ At("store_uid")
  /\ Goto("store_token")
  /\ \/ keyring' = [keyring EXCEPT !.uid = backend.fresh.uid] /\ UNCHANGED mishaps
     \/ mishaps' = mishaps \cup {"store_failed"} /\ UNCHANGED keyring
  /\ UNCHANGED <<server, logins, helper, sock, session, mount, handler, wizard>>

(* Mutant: the rotated token is not persisted.                              *)
StoreTokenForgotten ==
  /\ At("store_token")
  /\ Goto("mounted")
  /\ UNCHANGED OthersThanBackend

StoreToken ==
  /\ At("store_token")
  /\ Goto("mounted")
  /\ \/ keyring' = [keyring EXCEPT !.refresh_token = backend.fresh] /\ UNCHANGED mishaps
     \/ mishaps' = mishaps \cup {"store_failed"} /\ UNCHANGED keyring
  /\ UNCHANGED <<server, logins, helper, sock, session, mount, handler, wizard>>

(* Unmounted, or killed anywhere inside do_mount.                           *)
BackendExits ==
  /\ backend.pc \notin Gone
  /\ backend' = Ended(IF At("mounted") THEN "idle" ELSE "killed")
  /\ mishaps' = IF MountHolds THEN mishaps \cup {"crash"} ELSE mishaps
  /\ UNCHANGED <<server, logins, keyring, helper, sock, session, mount, handler, wizard>>

BackendStep ==
  \/ Connect \/ FindHelper \/ Spawn \/ WaitForSocket \/ Reconnect
  \/ Lookup \/ LookupFails \/ CallResume \/ ResumeEof \/ StoreUid \/ StoreToken

-----------------------------------------------------------------------------
(* The helpers.                                                             *)
HelperOnly == <<server, logins, keyring, session, backend, mount, handler, wizard, mishaps>>

(* main: os.Remove of the path, then net.Listen, which binds the path (and  *)
(* ends the process when it is taken) before it listens.                    *)
HelperClears(h) ==
  /\ helper[h] = "starting"
  /\ helper' = [helper EXCEPT ![h] = "cleared"]
  /\ sock' = 0
  /\ UNCHANGED HelperOnly

HelperBinds(h) ==
  /\ helper[h] = "cleared"
  /\ \/ sock = 0 /\ sock' = h /\ helper' = [helper EXCEPT ![h] = "bound"]
     \/ sock # 0 /\ helper' = [helper EXCEPT ![h] = "dead"] /\ UNCHANGED sock
  /\ UNCHANGED HelperOnly

HelperListens(h) ==
  /\ helper[h] = "bound"
  /\ helper' = [helper EXCEPT ![h] = "listening"]
  /\ UNCHANGED <<sock, HelperOnly>>

(* The socket file stays behind; handlers end without an answer.            *)
HelperDies(h) ==
  /\ Alive(h)
  /\ helper' = [helper EXCEPT ![h] = "dead"]
  /\ session' = [session EXCEPT ![h] = NoToken]
  /\ handler' = [m \in Mounts |-> IF handler[m].on = h THEN NoHandler ELSE handler[m]]
  /\ mishaps' = IF \E m \in Mounts : handler[m].on = h /\ handler[m].step = "unlock"
                THEN mishaps \cup {"crash"} ELSE mishaps
  /\ UNCHANGED <<server, logins, keyring, sock, backend, mount, wizard>>

(* The backend still reads the answer to mount m's call.                    *)
Awaited(m) == At("resuming") /\ m = mount

AnswerError(m) ==
  /\ handler' = [handler EXCEPT ![m] = NoHandler]
  /\ backend' = IF Awaited(m) THEN Ended("failed") ELSE backend

Rotated(token) == [token EXCEPT !.gen = @ + 1]

(* NewClientWithRefresh: refused or unreachable; or the token is rotated,   *)
(* and the reply may still get lost.                                        *)
RefreshFails(m) ==
  /\ handler[m].step = "refresh"
  /\ AnswerError(m)
  /\ UNCHANGED <<server, logins, keyring, helper, sock, session, mount, wizard, mishaps>>

RefreshAccepted(m) ==
  /\ handler[m].step = "refresh"
  /\ Valid(handler[m].creds.refresh_token)
  /\ handler[m].creds.refresh_token.uid = handler[m].creds.uid
  /\ server[handler[m].creds.uid] < MaxTokens
  /\ server' = [server EXCEPT ![handler[m].creds.uid] = @ + 1]

RefreshReplyLost(m) ==
  /\ RefreshAccepted(m)
  /\ AnswerError(m)
  /\ mishaps' = mishaps \cup {"reply_lost"}
  /\ UNCHANGED <<logins, keyring, helper, sock, session, mount, wizard>>

Refreshed(m) ==
  /\ RefreshAccepted(m)
  /\ handler' = [handler EXCEPT ![m].step = "unlock",
                                ![m].fresh = Rotated(handler[m].creds.refresh_token)]
  /\ mishaps' = mishaps \cup (IF WizardHolds THEN {"overlap"} ELSE {})
                        \cup (IF Awaited(m) THEN {} ELSE {"crash"})
  /\ UNCHANGED <<logins, keyring, helper, sock, session, backend, mount, wizard>>

(* Address keys open with the salted passphrase only.                       *)
Unlocks(creds) == creds.salted_passphrase

(* unlockWithSaltedPassphrase and findMainShare succeed: the session is in  *)
(* use, and the backend, if it still waits, is told the rotated token.      *)
ResumeSucceeds(m) ==
  /\ handler[m].step = "unlock" /\ Unlocks(handler[m].creds)
  /\ session' = [session EXCEPT ![handler[m].on] = handler[m].fresh]
  /\ backend' = IF Awaited(m)
                THEN [backend EXCEPT !.pc = "store_uid", !.fresh = handler[m].fresh]
                ELSE backend
  /\ handler' = [handler EXCEPT ![m] = NoHandler]
  /\ UNCHANGED <<server, logins, keyring, helper, sock, mount, wizard, mishaps>>

(* Either of them fails, for want of a passphrase or of an answer from the  *)
(* API: AuthDelete, whose own failure is ignored.                           *)
ResumeFails(m) ==
  /\ handler[m].step = "unlock"
  /\ \/ server' = [server EXCEPT ![handler[m].fresh.uid] = 0]
     \/ UNCHANGED server
  /\ AnswerError(m)
  /\ mishaps' = mishaps \cup {"resume_failed"}
  /\ UNCHANGED <<logins, keyring, helper, sock, session, mount, wizard>>

(* After a 401 go-proton-api refreshes by itself; the auth handler keeps    *)
(* the access token for the session and nothing reaches the keyring.        *)
Refresh401(h) ==
  /\ Alive(h) /\ Valid(session[h])
  /\ session[h].gen < MaxTokens
  /\ server' = [server EXCEPT ![session[h].uid] = @ + 1]
  /\ session' = [session EXCEPT ![h] = Rotated(session[h])]
  /\ mishaps' = mishaps \cup {"refreshed"}
  /\ UNCHANGED <<logins, keyring, helper, sock, backend, mount, handler, wizard>>

StartStep(h) == HelperClears(h) \/ HelperBinds(h) \/ HelperListens(h)
HandlerStep(m) ==
  RefreshFails(m) \/ RefreshReplyLost(m) \/ Refreshed(m) \/ ResumeSucceeds(m) \/ ResumeFails(m)

-----------------------------------------------------------------------------
(* The setup wizard, with a helper of its own.                              *)
WizardOnly == <<helper, sock, session, backend, mount, handler>>

OpenWizard ==
  /\ wizard.pc = "idle"
  /\ wizard' = [wizard EXCEPT !.pc = "signing_in"]
  /\ UNCHANGED <<server, logins, keyring, mishaps, WizardOnly>>

(* A new log-in, with a UID of its own.                                     *)
LoginAccepted ==
  /\ logins < MaxLogins
  /\ logins' = logins + 1
  /\ server' = [server EXCEPT ![logins + 1] = 1]
  /\ wizard' = [pc |-> "unlocking", fresh |-> [uid |-> logins + 1, gen |-> 1]]
  /\ UNCHANGED <<keyring, mishaps, WizardOnly>>

Auth == wizard.pc = "signing_in" /\ LoginAccepted

AuthWithHV == wizard.pc = "verifying" /\ LoginAccepted

(* Auth answers HVRequired: the user has to solve a captcha or enter a code. *)
VerificationRequired ==
  /\ wizard.pc = "signing_in"
  /\ wizard' = [wizard EXCEPT !.pc = "verifying"]
  /\ UNCHANGED <<server, logins, keyring, mishaps, WizardOnly>>

(* unlockPrimaryAddress and findMainShare.                                  *)
LoginSucceeds ==
  /\ wizard.pc = "unlocking"
  /\ wizard' = [wizard EXCEPT !.pc = "store_uid"]
  /\ UNCHANGED <<server, logins, keyring, mishaps, WizardOnly>>

LoginFails ==
  /\ wizard.pc = "unlocking"
  /\ \/ server' = [server EXCEPT ![wizard.fresh.uid] = 0]
     \/ UNCHANGED server
  /\ wizard' = IdleWizard
  /\ UNCHANGED <<logins, keyring, mishaps, WizardOnly>>

(* _store_and_finish: three secrets one after the other.                    *)
WizardStoresUid ==
  /\ wizard.pc = "store_uid"
  /\ keyring' = [keyring EXCEPT !.uid = wizard.fresh.uid]
  /\ wizard' = [wizard EXCEPT !.pc = "store_token"]
  /\ mishaps' = IF MountHolds THEN {"overlap"} ELSE {}
  /\ UNCHANGED <<server, logins, WizardOnly>>

WizardStoresToken ==
  /\ wizard.pc = "store_token"
  /\ keyring' = [keyring EXCEPT !.refresh_token = wizard.fresh]
  /\ wizard' = [wizard EXCEPT !.pc = "store_passphrase"]
  /\ UNCHANGED <<server, logins, mishaps, WizardOnly>>

WizardStoresPassphrase ==
  /\ wizard.pc = "store_passphrase"
  /\ keyring' = [keyring EXCEPT !.salted_passphrase = TRUE]
  /\ wizard' = IdleWizard
  /\ UNCHANGED <<server, logins, mishaps, WizardOnly>>

(* An error of the helper or of secret-tool, or the window is closed: the   *)
(* secrets stored so far stay.                                              *)
WizardGivesUp ==
  /\ wizard.pc # "idle"
  /\ wizard' = IdleWizard
  /\ mishaps' = IF WizardHolds THEN mishaps \cup {"store_failed"} ELSE mishaps
  /\ UNCHANGED <<server, logins, keyring, WizardOnly>>

WizardStep ==
  \/ OpenWizard \/ Auth \/ VerificationRequired \/ AuthWithHV
  \/ LoginSucceeds \/ LoginFails
  \/ WizardStoresUid \/ WizardStoresToken \/ WizardStoresPassphrase \/ WizardGivesUp

-----------------------------------------------------------------------------
Next ==
  \/ StartMount \/ BackendStep \/ BackendExits \/ WizardStep
  \/ \E h \in Helpers : StartStep(h) \/ HelperDies(h) \/ Refresh401(h)
  \/ \E m \in Mounts : HandlerStep(m)

Spec == Init /\ [][Next]_vars

(* The backend and the handlers it waits for keep running; every request to *)
(* Proton is answered or fails.                                             *)
FairSpec == Spec /\ WF_vars(BackendStep) /\ \A m \in Mounts : WF_vars(HandlerStep(m))

-----------------------------------------------------------------------------
AtRest == backend.pc \in Gone \cup {"mounted"} /\ wizard.pc = "idle"

(* The keyring's secrets allow the next mount.                              *)
Usable ==
  /\ Valid(keyring.refresh_token) /\ keyring.refresh_token.uid = keyring.uid
  /\ keyring.salted_passphrase

(* Between mounts and sign-ins the keyring of an account that has signed in *)
(* holds the one refresh token Proton accepts, whatever order the steps of  *)
(* do_mount, ResumeSession and the wizard came in, unless one of the listed *)
(* mishaps happened since the wizard stored.                                *)
UsableButForMishaps ==
  AtRest /\ keyring.uid # 0 /\ mishaps = {} => Usable

(* Every do_mount is answered, with success or with an error, although a    *)
(* helper may die, never come up or show its socket file too early (a mount *)
(* that runs into that fails).  It goes without an answer only when the     *)
(* backend is killed, or when the helper dies while ResumeSession is under  *)
(* way and do_mount has no GError to answer with.                           *)
MountAnswered ==
  \A m \in Mounts :
    mount = m /\ At("connecting") ~>
      /\ mount = m
      /\ \/ backend.pc \in {"mounted", "failed", "killed"}
         \/ At("crashed") /\ helper[backend.conn] = "dead"

(* "Proton rotates the refresh token on every use - persist the new one"    *)
(* (do_mount): refreshes alone never leave a keyring that cannot be used.   *)
RotationsPersisted ==
  AtRest /\ keyring.uid # 0 /\ mishaps \subseteq {"refreshed"} => Usable
=============================================================================
